-------------------------- MODULE ListingLifecycle --------------------------
(***************************************************************************)
(* The classified listing: its lifecycle status, the content sellers edit, *)
(* the images moderators decide on, the lifecycle revision that detects a  *)
(* stale review, and the effect of every service of                        *)
(* src/src/apps/listings/services.py on them.  Each service is one         *)
(* database transaction that first locks the listing row, so it is one     *)
(* step here.  A moderator's review form is read before that transaction   *)
(* and may be stale when it is submitted: it is a variable of its own.     *)
(*                                                                         *)
(* Some services also write orders and payment events.  This module gives  *)
(* their effect on the listing; Marketplace adds the billing half and      *)
(* composes the whole handlers.                                            *)
(***************************************************************************)
EXTENDS Naturals

CONSTANTS
  Listing,         \* the listings of the marketplace
  Wanted,          \* the listings whose intent is "wanted" (in search of)
  Moderator,       \* the users allowed to moderate
  NoModerator,     \* the assigned moderator of an unassigned listing
  ImagePolicy,     \* the image minimums an administrator may configure
  MaxImages,       \* ListingMediaPolicy.maximum_image_count
  \* Bounds of the model checker, with no counterpart in the code.
  MaxRevision,     \* how far lifecycle_revision may count
  MaxContent,      \* how many versions of a listing's content are written
  MaxTime          \* how far the clock runs

ASSUME ListingAssumption ==
  /\ Wanted \subseteq Listing
  /\ NoModerator \notin Moderator
  /\ ImagePolicy \subseteq Nat /\ ImagePolicy # {}
  /\ MaxImages \in Nat /\ MaxRevision \in Nat /\ MaxContent \in Nat /\ MaxTime \in Nat

VARIABLES
  status,       \* Listing.status
  revision,     \* Listing.lifecycle_revision
  content,      \* version of everything a moderator reviews: text, facts, media
  edited,       \* Listing.last_material_edit_at is set
  expiresAt,    \* Listing.expires_at, 0 when NULL
  assigned,     \* Listing.assigned_moderator
  images,       \* number of READY images per moderation status
  required,     \* ListingMediaPolicy.required_image_count
  indexed,      \* the content version in Listing.search_document, 0 when none
  form,         \* what each moderator has on screen
  now,          \* the clock
  reviewed,     \* history: the content version its approver last saw, 0 when none
  publishedBy   \* history: what the last publication rested on

listingVars == <<status, revision, content, edited, expiresAt, assigned, images, required,
                 indexed, form, now, reviewed, publishedBy>>

\* "submitted" is written and left inside one transaction, so no step ends in it.
Status == {"draft", "in_review", "awaiting_payment", "published", "changes_requested",
           "rejected", "suspended", "sold", "expired", "archived"}
OwnerEditable == {"draft", "changes_requested", "published"}
Decision == {"pending", "approved", "rejected"}
Route == {"none", "moderator", "payment", "renewal", "direct"}

ReviewForm == [listing : Listing, revision : Nat, seen : Nat]
NoForm == [revision |-> "none"]

ListingTypeOK ==
  /\ status \in [Listing -> Status]
  /\ revision \in [Listing -> Nat]
  /\ content \in [Listing -> Nat]
  /\ edited \in [Listing -> BOOLEAN]
  /\ expiresAt \in [Listing -> Nat]
  /\ assigned \in [Listing -> Moderator \cup {NoModerator}]
  /\ images \in [Listing -> [Decision -> Nat]]
  /\ required \in ImagePolicy
  /\ indexed \in [Listing -> Nat]
  /\ form \in [Moderator -> ReviewForm \cup {NoForm}]
  /\ now \in Nat \ {0}
  /\ reviewed \in [Listing -> Nat]
  /\ publishedBy \in [Listing -> Route]

\* Every listing starts as the draft its seller has just created; no form is open.
ListingInit ==
  /\ status = [l \in Listing |-> "draft"]
  /\ revision = [l \in Listing |-> 0]
  /\ content = [l \in Listing |-> 1]
  /\ edited = [l \in Listing |-> FALSE]
  /\ expiresAt = [l \in Listing |-> 0]
  /\ assigned = [l \in Listing |-> NoModerator]
  /\ images = [l \in Listing |-> [d \in Decision |-> 0]]
  /\ required \in ImagePolicy
  /\ indexed = [l \in Listing |-> 0]
  /\ form = [m \in Moderator |-> NoForm]
  /\ now = 1
  /\ reviewed = [l \in Listing |-> 0]
  /\ publishedBy = [l \in Listing |-> "none"]

-----------------------------------------------------------------------------
\* Helpers.

\* The services add to lifecycle_revision in every transition.
Advance(l, n) ==
  /\ revision[l] + n <= MaxRevision
  /\ revision' = [revision EXCEPT ![l] = @ + n]

ReadyImages(l) == images[l]["pending"] + images[l]["approved"] + images[l]["rejected"]

Due(l) == status[l] = "published" /\ expiresAt[l] # 0 /\ expiresAt[l] <= now

-----------------------------------------------------------------------------
\* The seller.

\* Two plausible bugs, for the sensitivity runs: an edit that leaves the listing public, and
\* one that takes it to review under an unchanged revision.
BugEditStaysPublic(l) == status[l] \in Status /\ UNCHANGED <<status, edited, revision>>
BugEditKeepsRevision(l) ==
  /\ status' = [status EXCEPT ![l] = IF @ = "published" THEN "in_review" ELSE @]
  /\ UNCHANGED <<edited, revision>>

\* A material edit takes a published listing offline and back into review.
DepublishMaterialEdit(l) ==
  \/ /\ status[l] = "published"
     /\ status' = [status EXCEPT ![l] = "in_review"]
     /\ edited' = [edited EXCEPT ![l] = TRUE]
     /\ Advance(l, 1)
  \/ /\ status[l] # "published"
     /\ UNCHANGED <<status, edited, revision>>

OwnerWrite(l) ==
  /\ status[l] \in OwnerEditable
  /\ content[l] < MaxContent
  /\ content' = [content EXCEPT ![l] = @ + 1]
  /\ DepublishMaterialEdit(l)
  /\ UNCHANGED <<expiresAt, assigned, required, indexed, form, now, reviewed, publishedBy>>

\* Every update service (text, typed details, taxonomy, image order, videos).
EditListing(l) == OwnerWrite(l) /\ UNCHANGED images

\* _finalize_image_upload: a new image awaits its own decision.
AddImage(l) ==
  /\ ReadyImages(l) < MaxImages
  /\ images' = [images EXCEPT ![l]["pending"] = @ + 1]
  /\ OwnerWrite(l)

DeleteImage(l, d) ==
  /\ images[l][d] > 0
  /\ images' = [images EXCEPT ![l][d] = @ - 1]
  /\ OwnerWrite(l)

\* draft or changes_requested -> submitted -> in_review, two revisions in one transaction.
SubmitListing(l) ==
  /\ status[l] \in {"draft", "changes_requested"}
  /\ ReadyImages(l) >= required
  /\ status' = [status EXCEPT ![l] = "in_review"]
  /\ Advance(l, 2)
  /\ UNCHANGED <<content, edited, expiresAt, assigned, images, required, indexed, form,
                 now, reviewed, publishedBy>>

OwnerTransition(l, from, to) ==
  /\ status[l] \in from
  /\ status' = [status EXCEPT ![l] = to]
  /\ Advance(l, 1)
  /\ UNCHANGED <<content, edited, expiresAt, assigned, images, required, indexed, form, now,
                 reviewed, publishedBy>>

MarkSold(l) == OwnerTransition(l, {"published"}, "sold")

Archive(l) ==
  OwnerTransition(l, {"draft", "changes_requested", "rejected", "sold", "expired"}, "archived")

RestoreDraft(l) == OwnerTransition(l, {"archived"}, "draft")

-----------------------------------------------------------------------------
\* The moderator.

\* A moderator loads a review page: it shows the content and carries the revision.
OpenReview(m, l) ==
  /\ status[l] \in {"in_review", "published"}
  /\ form' = [form EXCEPT ![m] =
                [listing |-> l, revision |-> revision[l], seen |-> content[l]]]
  /\ UNCHANGED <<status, revision, content, edited, expiresAt, assigned, images, required,
                 indexed, now, reviewed, publishedBy>>

\* A plausible bug: the revision check is dropped.
BugAcceptsStaleForm(m, l) == form[m] # NoForm /\ form[m].listing = l

\* _locked_moderation_listing: a form whose revision has moved on is refused.
Submits(m, l) ==
  /\ form[m] # NoForm
  /\ form[m].listing = l
  /\ form[m].revision = revision[l]

ClaimListing(m, l) ==
  /\ Submits(m, l)
  /\ status[l] = "in_review"
  /\ assigned[l] \in {NoModerator, m}
  /\ assigned' = [assigned EXCEPT ![l] = m]
  /\ Advance(l, 1)
  /\ UNCHANGED <<status, content, edited, expiresAt, images, required, indexed, form,
                 now, reviewed, publishedBy>>

\* Every pending image is decided: k of them are approved, the others rejected.
DecideImages(l, k) ==
  /\ k <= images[l]["pending"]
  /\ images' = [images EXCEPT
       ![l] = [d \in Decision |-> CASE d = "pending"  -> 0
                                    [] d = "approved" -> images[l][d] + k
                                    [] d = "rejected" -> images[l][d] + images[l]["pending"] - k]]

\* A plausible bug: uploaded images are counted instead of approved ones.
BugCountsReadyImages(l, k) == k \in Nat /\ ReadyImages(l) >= required

EnoughApproved(l, k) == images[l]["approved"] + k >= required

\* The part of moderate_listing that all outcomes share.
Decide(m, l, k, from, to) ==
  /\ Submits(m, l)
  /\ status[l] \in from
  /\ DecideImages(l, k)
  /\ status' = [status EXCEPT ![l] = to]
  /\ assigned' = [assigned EXCEPT ![l] = m]
  /\ Advance(l, 1)
  /\ UNCHANGED <<content, required, form, now>>

\* APPROVED and APPROVED_NO_PAYMENT; `expiry` is set from the latest paid order.
DecidePublish(m, l, k, expiry) ==
  /\ EnoughApproved(l, k)
  /\ Decide(m, l, k, {"in_review"}, "published")
  /\ edited' = [edited EXCEPT ![l] = FALSE]
  /\ expiresAt' = [expiresAt EXCEPT ![l] = expiry]
  /\ indexed' = [indexed EXCEPT ![l] = content[l]]
  /\ reviewed' = [reviewed EXCEPT ![l] = form[m].seen]
  /\ publishedBy' = [publishedBy EXCEPT ![l] = "moderator"]

\* APPROVED_SEND_PAYMENT_LINK: approved, but private until it is paid.
DecidePaymentLink(m, l, k) ==
  /\ EnoughApproved(l, k)
  /\ Decide(m, l, k, {"in_review"}, "awaiting_payment")
  /\ reviewed' = [reviewed EXCEPT ![l] = form[m].seen]
  /\ UNCHANGED <<edited, expiresAt, indexed, publishedBy>>

\* CHANGES_REQUESTED, also what an approval becomes when too few images are approved.
DecideChanges(m, l, k) ==
  /\ Decide(m, l, k, {"in_review"}, "changes_requested")
  /\ UNCHANGED <<edited, expiresAt, indexed, reviewed, publishedBy>>

DecideReject(m, l, k) ==
  /\ Decide(m, l, k, {"in_review", "published"}, "rejected")
  /\ UNCHANGED <<edited, expiresAt, indexed, reviewed, publishedBy>>

\* A suspension notifies nobody.
DecideSuspend(m, l, k) ==
  /\ Decide(m, l, k, {"in_review", "published"}, "suspended")
  /\ UNCHANGED <<edited, expiresAt, indexed, reviewed, publishedBy>>

-----------------------------------------------------------------------------
\* Payments, staff commands and the scheduler.

\* process_payment_event on a new-listing order: publish what was approved.
PublishPaid(l, expiry) ==
  /\ status' = [status EXCEPT ![l] = "published"]
  /\ expiresAt' = IF l \in Wanted THEN expiresAt ELSE [expiresAt EXCEPT ![l] = expiry]
  /\ Advance(l, 1)
  /\ indexed' = [indexed EXCEPT ![l] = content[l]]
  /\ publishedBy' = [publishedBy EXCEPT ![l] = "payment"]
  /\ UNCHANGED <<content, edited, assigned, images, required, form, now, reviewed>>

\* A plausible bug: a renewal prolongs an expired listing and forgets to restore it.
BugRenewalStaysExpired(l, expiry) ==
  /\ expiresAt' = [expiresAt EXCEPT ![l] = expiry]
  /\ Advance(l, 1)
  /\ UNCHANGED <<status, content, edited, assigned, images, required, indexed, form, now,
                 reviewed, publishedBy>>

\* _apply_paid_renewal: whatever the status is, the listing becomes public again.
PublishRenewed(l, expiry) ==
  /\ status' = [status EXCEPT ![l] = "published"]
  /\ expiresAt' = [expiresAt EXCEPT ![l] = expiry]
  /\ Advance(l, 1)
  /\ publishedBy' = [publishedBy EXCEPT ![l] = "renewal"]
  /\ UNCHANGED <<content, edited, assigned, images, required, indexed, form, now, reviewed>>

\* publish_demo_listing and publish_auto_listing: the system's direct approval of a draft.
PublishDirect(l) ==
  /\ status[l] = "draft"
  /\ status' = [status EXCEPT ![l] = "published"]
  /\ Advance(l, 1)
  /\ indexed' = [indexed EXCEPT ![l] = content[l]]
  /\ reviewed' = [reviewed EXCEPT ![l] = content[l]]
  /\ publishedBy' = [publishedBy EXCEPT ![l] = "direct"]
  /\ UNCHANGED <<content, edited, expiresAt, assigned, images, required, form, now>>

\* expire_due_listings: one transaction expires a batch of due listings, and skips
\* those another transaction holds.  MaxRevision does not bound it: publications are bounded.
ExpireDue(batch) ==
  /\ batch # {}
  /\ \A l \in batch : Due(l)
  /\ status' = [l \in Listing |-> IF l \in batch THEN "expired" ELSE status[l]]
  /\ revision' = [l \in Listing |-> IF l \in batch THEN revision[l] + 1 ELSE revision[l]]
  /\ UNCHANGED <<content, edited, expiresAt, assigned, images, required, indexed, form, now,
                 reviewed, publishedBy>>

\* An administrator changes the image minimum of the category.
SetImagePolicy(n) ==
  /\ required # n
  /\ required' = n
  /\ UNCHANGED <<status, revision, content, edited, expiresAt, assigned, images, indexed, form,
                 now, reviewed, publishedBy>>

Tick ==
  /\ now < MaxTime
  /\ now' = now + 1
  /\ UNCHANGED <<status, revision, content, edited, expiresAt, assigned, images, required,
                 indexed, form, reviewed, publishedBy>>
=============================================================================
