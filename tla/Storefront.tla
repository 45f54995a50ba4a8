----------------------------- MODULE Storefront -----------------------------
(***************************************************************************)
(* What buyers see of one listing (listings/selectors.py): the dates that  *)
(* the writers of a publication set, the two selectors that read them      *)
(* against the clock, and the scheduled commands that lag behind it.       *)
(* "private" stands for every status that neither selector shows and no    *)
(* command looks for.                                                      *)
(***************************************************************************)
EXTENDS Integers

CONSTANTS
    Term,       \* duration_days of the listing's product
    Retention,  \* days a sold listing stays on its seller's profile: 30
    Grace,      \* days after its expiry in which a listing may be renewed: 7
    Offsets,    \* days before the expiry at which a reminder is due: 7, 3, 1
    LastDay     \* bounds the clock (no counterpart in the code)

ASSUME StorefrontAssumption ==
    /\ Term \in Nat \ {0} /\ Retention \in Nat \ {0} /\ Grace \in Nat /\ LastDay \in Nat \ {0}
    /\ Offsets \subseteq Nat \ {0}

VARIABLES
    shelf,      \* Listing.status
    publishedAt, firstPublishedAt, expiry, soldAt, soldUntil,   \* 0 when NULL
    shut,       \* the seller's account is not active
    live,       \* vertical, category, state and county are active and enabled
    locked,     \* some transaction has locked the row
    reminders,  \* idempotency keys of the reminder events
    today,
    firstShown, \* history: the day the listing was first published
    lastSold    \* history: the day it was last marked sold

datesVars == <<publishedAt, firstPublishedAt, expiry, soldAt, soldUntil>>
storefrontVars == <<shelf, datesVars, shut, live, locked, reminders, today, firstShown, lastSold>>

StorefrontInit ==
    /\ shelf = "private"
    /\ publishedAt = 0 /\ firstPublishedAt = 0 /\ expiry = 0 /\ soldAt = 0 /\ soldUntil = 0
    /\ shut = FALSE /\ live = TRUE /\ locked = FALSE
    /\ reminders = {}
    /\ today = 1
    /\ firstShown = 0 /\ lastSold = 0

(***************************************************************************)
(* The selectors.                                                          *)
(***************************************************************************)

Unexpired == expiry = 0 \/ expiry > today

\* public_listings: "the sole visibility boundary for every buyer-facing surface".
InBrowse == shelf = "published" /\ live /\ Unexpired

BugFeedKeepsSold == ~ shut /\ live /\ ((shelf = "published" /\ Unexpired) \/ shelf = "sold")

\* public_seller_feed_listings.
InFeed ==
    /\ ~ shut /\ live
    /\ \/ shelf = "published" /\ expiry = 0
       \/ shelf = "published" /\ expiry > today
       \/ shelf = "sold" /\ soldAt # 0 /\ soldUntil > today

(***************************************************************************)
(* The writers of the listing's row.                                       *)
(***************************************************************************)

Rest == UNCHANGED <<shut, live, locked, today>>

BugFirstDateMoves(day) == firstPublishedAt' = day

\* Listing.save and _mark_published keep the first publication.
KeepFirst(day) == firstPublishedAt' = IF firstPublishedAt = 0 THEN day ELSE firstPublishedAt

ToPublished(until) ==
    /\ ~ locked
    /\ shelf' = "published"
    /\ publishedAt' = today
    /\ expiry' = until
    /\ KeepFirst(today)
    /\ firstShown' = IF firstShown = 0 THEN today ELSE firstShown
    /\ UNCHANGED <<soldAt, soldUntil, lastSold, reminders>>
    /\ Rest

\* A moderator's approval of a listing with a paid order, and a verified payment,
\* start a new term.
PublishForTerm == shelf = "private" /\ ToPublished(today + Term)

\* An approval without a paid order and a direct one keep the expiry the row has.
PublishAsIs == shelf = "private" /\ ToPublished(expiry)

BugFromOldExpiry == expiry + Term
RenewedUntil == today + Term

\* _apply_paid_renewal, in whatever status the payment finds the listing.
RenewTerm == expiry # 0 /\ expiry + Grace >= today /\ ToPublished(RenewedUntil)

BugKeepsPublishedAt(to) == shelf' = to /\ UNCHANGED publishedAt

Unpublish(to) == shelf' = to /\ publishedAt' = 0

\* A material edit, a rejection, a suspension; an archive of a sold or expired one.
Withdraw ==
    /\ ~ locked /\ shelf # "private"
    /\ Unpublish("private")
    /\ UNCHANGED <<firstPublishedAt, expiry, soldAt, soldUntil, reminders, firstShown, lastSold>>
    /\ Rest

Sell ==
    /\ ~ locked /\ shelf = "published"
    /\ Unpublish("sold")
    /\ firstPublishedAt' = IF firstPublishedAt # 0 THEN firstPublishedAt ELSE publishedAt
    /\ soldAt' = today
    /\ soldUntil' = today + Retention
    /\ lastSold' = today
    /\ UNCHANGED <<expiry, reminders, firstShown>>
    /\ Rest

(***************************************************************************)
(* The commands; those that select FOR UPDATE SKIP LOCKED pass over a row  *)
(* that is locked.                                                         *)
(***************************************************************************)

BugDueToday == expiry = today
Due == expiry # 0 /\ expiry <= today

\* expire_listings, scheduled every hour.
ExpireListings ==
    /\ ~ locked /\ shelf = "published" /\ Due
    /\ Unpublish("expired")
    /\ UNCHANGED <<firstPublishedAt, expiry, soldAt, soldUntil, reminders, firstShown, lastSold>>
    /\ Rest

BugKeyWithoutTerm(e, d) == \A k \in reminders : k[2] # d

\* get_or_create by the key "listing.expiration_reminder:<id>:<expires_at>:<days>".
NewKey(e, d) == <<e, d>> \notin reminders

DueReminders == {<<expiry, d>> : d \in {n \in Offsets : /\ n < expiry /\ expiry - n > today
                                                        /\ NewKey(expiry, n)}}

\* schedule_listing_reminders, scheduled every hour.
ScheduleReminders ==
    /\ ~ locked /\ shelf = "published" /\ expiry > today
    /\ DueReminders # {}
    /\ reminders' = reminders \cup DueReminders
    /\ UNCHANGED <<shelf, datesVars, firstShown, lastSold>>
    /\ Rest

\* clear_expired_sold_publication: one UPDATE, run by hand or never.
ClearSold ==
    /\ ~ locked /\ shelf = "sold" /\ soldUntil # 0 /\ soldUntil <= today
    /\ soldUntil' = 0
    /\ UNCHANGED <<shelf, publishedAt, firstPublishedAt, expiry, soldAt, reminders, firstShown,
                   lastSold>>
    /\ Rest

Hold == ~ locked /\ locked' = TRUE /\ UNCHANGED <<shelf, datesVars, shut, live, reminders, today,
                                                firstShown, lastSold>>
LetGo == locked /\ locked' = FALSE /\ UNCHANGED <<shelf, datesVars, shut, live, reminders, today,
                                                firstShown, lastSold>>

\* Staff suspend or restore the seller, disable or enable reference data.
ToggleAccount == shut' = ~ shut /\ UNCHANGED <<shelf, datesVars, live, locked, reminders, today,
                                                firstShown, lastSold>>
ToggleReference == live' = ~ live /\ UNCHANGED <<shelf, datesVars, shut, locked, reminders, today,
                                                  firstShown, lastSold>>

DayPasses ==
    /\ today < LastDay
    /\ today' = today + 1
    /\ UNCHANGED <<shelf, datesVars, shut, live, locked, reminders, firstShown, lastSold>>

StorefrontNext ==
    \/ PublishForTerm \/ PublishAsIs \/ RenewTerm \/ Withdraw \/ Sell
    \/ ExpireListings \/ ScheduleReminders \/ ClearSold
    \/ Hold \/ LetGo \/ ToggleAccount \/ ToggleReference \/ DayPasses

StorefrontSpec == StorefrontInit /\ [][StorefrontNext]_storefrontVars

\* Transactions end; the scheduler repeats both commands for ever, and a row is not
\* locked by some transaction at every one of their runs.
StorefrontFairness ==
    /\ WF_storefrontVars(LetGo)
    /\ SF_storefrontVars(ExpireListings) /\ SF_storefrontVars(ScheduleReminders)

(***************************************************************************)
(* Properties.                                                             *)
(***************************************************************************)

Day == 0 .. LastDay + Term + Retention

StorefrontTypeOK ==
    /\ shelf \in {"private", "published", "sold", "expired"}
    /\ {publishedAt, firstPublishedAt, expiry, soldAt, soldUntil, lastSold, firstShown} \subseteq Day
    /\ {shut, live, locked} \subseteq BOOLEAN
    /\ reminders \subseteq Day \X Offsets
    /\ today \in 1 .. LastDay

\* Exactly the published listings carry a publication date, and the date of the first
\* publication is the day it happened and never moves, whichever of the writers it was.
PublicationDated ==
    /\ (shelf = "published") = (publishedAt # 0)
    /\ firstPublishedAt = firstShown
    /\ publishedAt # 0 => firstPublishedAt \in 1 .. publishedAt

\* A seller's profile shows what browse shows while the account is active, and a sold
\* listing for the retention after it was last sold, to the day, whenever the cleanup runs
\* or if it never does; browse never shows a sold one (docs/03-LISTING-LIFECYCLE.md:131).
SellerFeedExact ==
    /\ shelf = "sold" => ~ InBrowse
    /\ InFeed = (~ shut /\ IF shelf = "sold" THEN live /\ today < lastSold + Retention
                           ELSE InBrowse)

\* A listing goes public when it is published, unless an approval without a paid order
\* finds the past expiry of an earlier publication on it (listings/services.py:1165).
PublishedIsShown ==
    [][shelf' = "published" /\ publishedAt' # publishedAt =>
          \/ expiry' = 0 \/ expiry' > today'
          \/ (firstPublishedAt # 0 /\ expiry' = expiry)]_storefrontVars

\* A listing whose expiry has passed does not stay published (listings/services.py:370).
Overdue == shelf = "published" /\ expiry # 0 /\ expiry <= today
OverdueExpires == Overdue ~> ~ Overdue

\* Each term of a listing gets its reminders while they are still ahead, also the term
\* a renewal has started after the reminders of the one before (listings/services.py:384).
Unreminded(d) == shelf = "published" /\ expiry - d > today /\ <<expiry, d>> \notin reminders
TermsReminded == \A d \in Offsets : Unreminded(d) ~> ~ Unreminded(d)
=============================================================================
