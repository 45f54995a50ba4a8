# County classifieds: a verification project

TLA+ models, model-checking runs and machine-checked proofs of the marketplace in
`src/src` (Django 5 on PostgreSQL). The models are read from the services
(`src/src/apps/*/services.py`, `core/outbox.py`), the models and their database
constraints; the documents under `src/docs` supply the promises the code is held to.

## 1. The system

| Part | State it keeps | Operations | Works with |
| --- | --- | --- | --- |
| Listing lifecycle (`listings/services.py`) | `Listing.status`, `lifecycle_revision`, dates of publication, `expires_at`, sold window | submit, mark sold, archive, restore, expire, remind, clear the sold window | moderation, billing, outbox |
| Drafts and editing (`listings/services.py`, `views.py`, `forms.py`) | listing fields, one detail row, category, controlled tags | create and update services, one pair per vertical and the unified ones | lifecycle: an edit of a published listing takes it back to review |
| Moderation | `assigned_moderator`, decisions on images and videos, `ModerationAction` | claim, approve, approve with payment link, request changes, reject, suspend | billing (quote, refund), outbox |
| Media | `UploadSession`, `ListingImage`, `ListingVideo`, stored files, `ListingMediaPolicy` | begin and finalise upload, reorder, delete, clean up | lifecycle, moderation |
| Billing (`billing/services.py`) | `Order`, `OrderLine`, `PaymentEvent` | quote, renewal order, local confirmation, replay, refund | lifecycle: a payment publishes, a rejection refunds |
| Outbox (`core/outbox.py`) | `OutboxEvent`, `OutboxDeliveryAttempt` | enqueue, claim, deliver, replay | every domain transaction enqueues; workers mail |
| Search and selectors | `search_document` | rebuild; public, seller and moderation queries | lifecycle, public pages |
| Public pages (`locations/views.py`, `forms.py`) | the query string | browse a state, a county, the wanted directory; turn pages, remove chips, reset | selectors |
| Live search (`live-search.js`) | timers, requests, the address of the document | type, choose, submit, abort, answer | public pages |
| Listing form scripts (`generic-listing.js`, `unified-listing.js`) | options, selections and marks of a form | choose a state, type a ZIP code, search and choose counties | drafts, reference data |
| Reference data (`locations/services.py`, `zip_county.py`) | states, counties, ZIP crosswalk, import records | Census import, admin edits, network switch, ZIP import | drafts, public pages |
| Accounts (`accounts/`) | `User.account_status`, `SellerProfile`, revisions | submit and review a revision, one by one or in bulk; change status | every seller service asks for an active account |
| Reports (`reports/services.py`) | `ListingReport`, `ListingReportAction` | submit under limits, triage | selectors |
| Favorites, Notifications, Policies, Catalog | one table or two each | toggle; create once; accept; resolve a price | section 6 |
| Management console, advertising, presentation, seeds, configuration | none of their own, or fixtures | read-only | section 6 |
| Admin site (`*/admin.py`) | none of its own | forms over the rows of the other parts, most without their services | section 6 |

How they interact. A service is a function in one database transaction that begins by
locking its listing row (`select_for_update`), so services of one listing are serial, and
what can interleave is what spans two transactions: a review page and the decision posted
from it, an order and its payment, a renewal request between its check and its lock, an
approval and the payment that completes it, and the three steps of an outbox delivery. The
scheduler (`expire_listings`, `schedule_listing_reminders`, `cleanup_listing_media`) and the
outbox workers are separate processes. Files are written and deleted inside these transactions
but do not roll back with them. In the browser, handlers, timers and fetches of one page interleave.

What makes each part correct, and where it is hard:

- *Review*: nothing becomes public that its approver did not see. Hard because the page is
  read long before the decision, the seller may edit in review's gaps, and a payment or a
  renewal publishes later, without a moderator.
- *Money*: orders and payment events agree, nobody is charged twice for a placement,
  money is taken only together with a publication and returned in full upon a rejection.
  Hard because payments fail, are replayed, and arrive for a listing that has moved on.
- *Delivery*: every event is mailed or fails for good, is never marked as sent when it was
  not, and is not mailed twice without a reason. Hard because the mail is sent outside any
  transaction, workers die, and leases end under slow workers.
- *Visibility*: two selectors and three commands agree on what buyers see. Hard because status,
  dates and clock are written by nine services and read between two runs of the commands.
- *Media*: what a page serves is in the storage, and what is in the storage belongs to something.
  Hard because a request may die between any two files and the cleanup runs beside it.
- *Drafts*: a listing keeps the one detail row its submission looks for. Hard because two generations of
  pages write it, and a page resolves its workflow before the row is locked.
- *Accounts and reports*: no decision is taken twice, audit trails are unbroken, limits are
  kept. Hard because a bulk action is a sequence of transactions that reads its selection before
  them, and limits count rows that others have not committed.
- *Reference data*: an import is whole, and what it wrote lasts. Hard because it is compared with what was read
  before, staff save beside it, and their form saves every column as it was opened.
- *Pages and scripts*: a link, a request or a mark says what the form says. Hard because answers are
  late, forms share an address, and each page normalises its query in its own way.

The hazards, each at its line with the properties that cover it, are in `PROJECT.json`.

## 2. Modules

| Module | What it models |
| --- | --- |
| `ListingLifecycle` | The listing row, its images, the review form, and the listing half of every service. |
| `Billing` | Orders, payment and refund events, renewal requests (extends `ListingLifecycle`). |
| `Marketplace` | The whole services: the two halves joined, `Next`, `Spec`, and all properties. |
| `Placement` | Abstract: what the marketplace promises about money. `Marketplace` refines it (`PlacementDeal`). |
| `MCMarketplace` | Finite instances of `Marketplace`. |
| `Outbox` | Events, leases, workers, crashes, retries, replay; safety and liveness. |
| `MCOutbox` | Finite instances of `Outbox`. |
| `Storefront` | One listing as buyers see it: dates, selectors, expiry, reminders, sold window. |
| `Media` | Uploads as processes between rows and files; deletion, order, cleanup. |
| `Drafts` | The detail row, category and tags under all create and update pages. |
| `Accounts` | Account status, profile revisions, their review. |
| `Reports` | Submission under limits and triage, both as processes that hold a row lock. |
| `Geography` | The Census import row by row, beside the admin site; the ZIP crosswalk. |
| `Browse` | The query forms of the public pages, their results and links. |
| `LiveSearch` | `live-search.js`: two forms, their timers, requests and shared address. |
| `CountyPicker` | `generic-listing.js`: pickers, loads and marks, and the server's verdict. |
| `MCSite`, `MCLiveness` | Finite instances of the components above. |
| `Marketplace_proofs` | Type correctness, the review and the publication properties. |
| `Ledger_proofs` | The ledger, the refunds, the demands, the refinement of `Placement`, and how far the findings reach. |
| `Outbox_proofs` | Types and the safety properties of `Outbox`. |
| `Media_proofs` | Types and the safety properties of `Media`. |
| `Pages_proofs` | The safety properties of `Storefront`, `Browse`, `CountyPicker` and `LiveSearch`. |
| `Sellers_proofs` | Those of `Accounts` and `Drafts`. |
| `Staff_proofs` | Those of `Reports` and `Geography`. |
| `Site_proofs` | The types of the nine components of `MCSite`, each for itself. |

`Marketplace` and `Outbox` are checked by themselves. The others share no table with one another, except
for the listing's status, of which each keeps the part that it reads (`Storefront.shelf`, `Media.status`,
`Drafts.shelfOf`, `Reports.published`) and lets every other service move it by an action of its own
(`Withdraw`, `ListingMoves`, `ShelfMoves`, `ChangeStatus`). `MCSite` and `MCLiveness` check them in one
run each: a behaviour names one component with `part` and steps it while the rest stay in an initial
state. That is a way to run nine models, not a composition: nothing is claimed across components.

### Listing and marketplace

One action is one service transaction. Its guard is the service's conditions; a service that
raises is rolled back and is no step. Permission and ownership checks pick who may take
an action and are otherwise left out.

- `content[l]` is a version number for all a moderator reviews (text, facts, taxonomy,
  media). Every update service is `EditListing`: it locks an owned listing in an editable
  status, writes, and calls `_depublish_material_edit`. Image uploads and deletions are
  `AddImage` and `DeleteImage`, because the image minimum is counted; videos, which no
  minimum counts, and the order of images are edits.
- `images[l]` counts READY images per decision. The moderator must decide all pending ones
  with any outcome, `k` of them approved. An approval with too few approved images becomes a
  request for changes in the code; here it is `RequestChanges`, with `Approve` and
  `SendPaymentLink` guarded by `EnoughApproved`.
- `form[m]` is the page a moderator has open: the listing, the revision in its hidden field,
  and the content it shows. The queue page lists listings in review only; the services
  also accept a decision on a published listing, so a form may be opened on one.
- `submitted` is written and left within `submit_listing`; no step ends in it, but the
  revision advances by two.
- `reviewed[l]` and `publishedBy[l]` are history: the version the last approver had on screen,
  and what the last publication rested on.
- `renewing` holds the renewal requests between the unlocked check of `create_renewal_order`
  and the locked `create_checkout_order`.
- An order has one payment event and one refund event at most, since provider ids derive from
  the order. An order of a listing placed in additional counties has two lines.
- Left out: the checkout view of a listing awaiting payment (it returns the existing order);
  the branch that ignores an event of an order no longer pending (unreachable by
  `LedgerAgrees`); amount and currency mismatches (both are copied from the order);
  policy acceptance, account status, amounts, audit rows, in-app notifications, the sold
  window, `first_published_at`.
- An administrator may change the image minimum at any time (`SetImagePolicy`), which is what
  lets a payment fail, and be replayed.

### Outbox

A delivery is `Begin` (the transaction that checks the lease), `Send` or `Raise` (the handler,
no transaction open), and `Succeed` or `Fail` (the transaction that records). A worker may
`Crash` between any two, keeps its batch in memory only, and a lease may end under it. Time is
kept as ages: `age[e]` since the claim in the table, `held[w]` since the claim in the
worker's own view, both up to one tick past the lease, so time is unbounded. A mail backend
may raise after it accepted the mail. `Unsupported` are the event types `_handler_for` does not
know, `listing.payment_ready` in the code. `excused` is history: the events with a named cause
for a second mail.

### Storefront

`shelf` is the status, `"private"` standing for every status that no selector shows. The writers of a
publication are three actions by what they do to the expiry: a new term (`PublishForTerm`), the expiry the
row has (`PublishAsIs`: an approval without a paid order, a direct publication), a renewal (`RenewTerm`).
`InBrowse` and `InFeed` are the two selectors. `ExpireListings` and `ScheduleReminders` pass over a row that is
`locked`, as `skip_locked` does. `firstShown` and `lastSold` are history.

### Media

A request is a process: `Locks` takes the lock of the listing, each `SaveFile` or `DeleteFile` is one call of the
storage, a commit or `Die` ends it. Staged copies go before the commit, the files of a row before the
row is marked. The cleanup is three phases (`CleanRead`, `CleanExpire`, `CleanList`/`CleanRemove`) and keeps the
names it has read. `Reorder` is one transaction, whose two loops are `Parked` and `Placed`, step by step.
Sizes and codecs are left out.

### Drafts

`VerticalOf` is the catalogue, by one leaf for each row of the workflow table that differs. Each service is
an operator under its own name (`CreateAutoDraft`, `UpdateHomeDraft`, ...), built from `Insert` and `Rewrite`; each
page kind is an action (`AutoPages`, ..., `CreateListing`, `OpenUnified`, `SaveUnified`). The edit page keeps in `page`
what it read before the lock. Staff may deactivate a category in between (`ToggleLeaf`).

### Accounts and reports

The middleware reads the user once (`LetIn`), so a request may write after its account was suspended. A bulk
review is `SelectRevisions`, then one `ReviewNext` per revision, newest first; a revision decided meanwhile
raises and ends it (`AbandonBulk`). `decided` is history.

A submission asks `public_listings()` for its listing (`PostReport`), waits for the row and looks at its status again
(`LockSubject`), counts (`CountRecent`) and commits; a triage locks its report and commits. Only `published`, the status,
is protected by the row: the rest of `public_listings()`, the expiry and the flags of vertical, category, state and
county, is an input of `PostReport`, true or false at any moment, since no lock on it is held. A report may therefore be
committed about a listing that has expired since its query, and no property says otherwise. Counts see only committed reports. The limit per signed-in user is counted
as the one per source is, and only the latter is kept. Reports leave the window one by one
(`LeaveWindow`).

### Geography

`run.read` is what the import read of the counties at its beginning; a row is written when it differs from that,
and only the columns in `update_fields`. `OpenCounty` and `SaveCounty` are the admin form: staff may type another name, and
what they leave is saved as the form was opened, so a form older than an import undoes it. `listed`, `oldForms`,
`rewritten` and `meanwhile` are history. Writes are visible to others at `EndImport`; `SaveCounty` waits for a row or a
route that the run has written. A collision with a route rolls the whole run back. The ZIP import is one
step, its dry run none.

### Browse, LiveSearch, CountyPicker

A state of `Browse` is a page and its query; a step follows a link of the page. `Ads` holds every listing
that the filters tell apart, so equal results mean equal filters.

`LiveSearch` has a process for each of the two forms of a page. A fetch is a record with the URL asked; its
continuation is a step of its own, in any order, unless the fetch was aborted. A failed answer's message is
cleared at once by the `finally` block, so `told` is only ever empty or `"loading"`.

`CountyPicker` keeps the selects, the marks (`allCountiesData`) and the loads. A load has two steps, the head, at which the
selection is read, and the body. A search of names is one step: the next aborts it, and it changes the
list of a box only. `Placeable` is what the form's `clean` says. The text in the boxes, the quote and the
category are left out.

## 3. Runs

| Run | Instance | Shows |
| --- | --- | --- |
| `payments` | 1 listing, 1 moderator, 3 orders, 11 revisions, 2 contents, 5 ticks, no images | `TypeOK`, `SearchDocumentCurrent`, `LedgerAgrees`, `NoDuplicateDemand`, `RejectedIsRefunded`, `PlacementDeal` |
| `review` | 1 wanted listing, 2 moderators, 1 order, up to 2 images, minimum 0 or 1, 7 revisions, 3 contents | `PublicContentReviewed`, `AcceptedFormIsFresh`, `PublishedWithApprovedImages` |
| `delivery` | 2 events, one of them with no handler, 2 workers, lease 2, 2 attempts, one crash, lapse and replay | `TypeOK`, `LogTellsOutcome`, `AttemptsBounded`, `SingleMail` |
| `liveness` | 1 event, 2 workers, 3 attempts, 1 crash, 2 lapses, 1 replay; a listing with terms of 2 days, 4 days; 1 image, 1 video, 1 death | `EventsSettle`, `OverdueExpires`, `TermsReminded`, `StagingCleared`, and `StorageMatchesRows`, which needs the deaths |
| `site` | nine components, each with the instance that `Site_union.cfg` comments on | see below |

`site` checks, besides the types (`SiteTypeOK`):

| Component | Instance | Shows |
| --- | --- | --- |
| `Media` | 3 uploads, room for 2 | `SessionsTell`, `ImagesWithinMaximum`, `OrderNeverCollides`, `MediaFrozenInReview` |
| `Storefront` | terms, retention and grace of 2 days, reminders 1 and 2 days before, 5 days | `PublicationDated`, `SellerFeedExact`, `PublishedIsShown` |
| `Accounts` | 1 seller, 3 revisions, 2 reviewers | `PublicRevisionApproved` |
| `Reports` | 3 forms, 2 listings, 1 source (limit 1), limit 2 per listing, 2 staff, 2 triages | `LimitsKept`, `ReportsAboutPublished`, `TrailUnbroken` |
| `Drafts` | 1 listing, 2 tabs, 11 categories, 1 tag | `SubmissionFindsDetails`, `OneVertical` |
| `Geography` | 2 counties of a state, 2 imports | `NamesLast`, `ImportIsWhole` |
| `Browse` | every query over 2 prices and 1 make, against every listing | `PageLinksStay`, `ChipRemovesOne` |
| `LiveSearch` | 2 forms, 2 requests each, 1 word | `AnswersInOrder`, `BusyWhileAwaiting`, `AsksWhatIsChosen` |
| `CountyPicker` | 3 counties in 2 states, 2 ZIP codes, one of them of two counties | `VerifiedIsAccepted` |

Why the bounds are enough. No service touches two listings except the expiry batch, whose effect
is listing by listing, so one listing shows every interaction; the proofs are for any number.
Three orders are a placement and two renewals: a renewal paid, and one opened again. Eleven
revisions let a listing be submitted, approved, paid, expired, renewed, edited, rejected,
restored and submitted once more. Five ticks with durations of two and a grace of one
reach an expiry, a renewal in its grace and one too late. Two moderators with a form each and three
contents let one form become stale in every way the revision must notice. Two workers are
what a lease is about; a lease of two ticks tells "at the end" from "past the end". The bounds
`MaxRevision`, `MaxContent`, `MaxTime` (the marketplace) and `MaxCrashes`, `MaxLapses`, `MaxReplays`
(the outbox) are guards with no counterpart in the code. `Marketplace` runs do not check
deadlock, because a bounded listing really stops; the outbox is checked for deadlock, since
its clock never stops. Moderators, orders and workers are symmetric: no service compares them
other than for equality; nor the staff who triage. Symmetry is not used by the liveness run.

In `site`: three uploads for two places are what it takes for two requests to be let in below the maximum
and a third to be refused, and for an order in which a middle image goes. Retention, term and grace of
two days have a day inside, a last day and a day after. Three revisions let two bulk actions
overlap in some revisions and not in others. A source at its limit and two listings are the
smallest instance in which a limit is passed (by one: the lock of a listing does not order counts on
another, and `LimitsKept` states exactly that slack). Two tabs let a page save what another has changed. The eleven
categories are all the rows of the workflow table. Two counties can swap their names. Two requests
of a form can be answered in either order. `PageLinksStay` excepts pages with errors and the
wanted directory of a state given by its key; `AsksWhatIsChosen` names two deviations of the browse form;
`VerifiedIsAccepted` excepts a load that is awaited or failed and a code still being typed: these are what
the code does, described where the property is stated.
`MaxDeaths`, `MaxSubmissions`, `MaxChanges`, `MaxTriage`, `LastDay`, `MaxTags`, `MaxRequests` and `MaxImports` have no
counterpart in the code. Deadlock is not checked: uploads, forms and clicks may stop.

**Fairness** (used only by `liveness`).

- Outbox (`FairSpec`): weak fairness of each worker's step, since the worker command is started again and
  again by the scheduler and a started one goes on until it dies; weak fairness of `Tick`, since
  time passes. Nothing is assumed of the transactions that enqueue, of the operator, or of the
  mail backend, which may fail for ever. A worker that died every time, or outlived every
  lease, would keep an event alive without end, since `attempt_count` is compared only when a
  handler raises; `MaxCrashes` and `MaxLapses` state that this stops.
- Storefront (`StorefrontFairness`): weak fairness of `LetGo`, since a transaction ends; strong fairness of
  `ExpireListings` and `ScheduleReminders`, since the scheduler repeats them for ever and a row is not
  locked by some transaction at every one of their runs. The clean-up of sold listings has none: it is
  run by hand, and no property needs it. Nor does the clock: an overdue listing is overdue already.
- Media (`MediaFairness`): weak fairness of the cleanup, of a request in a transaction, which goes on or
  dies, and of the ages of a staged file and its session. Deaths stop by `MaxDeaths`. Nothing is
  assumed of sellers.

### Disagreements between documents and code

Seven runs are expected to fail: each states what a document promises, and TLC finds a behaviour of
the code that breaks it. The quotations are in `PROJECT.json`, `findings`.

| Run | The promise | The code |
| --- | --- | --- |
| `RenewedContentReviewed` | A renewal restores the *unchanged* listing. | An expired listing archived, restored and rewritten as a draft counts as unchanged; the renewal publishes the rewrite. |
| `SuspensionHolds` | Only a moderator ends a suspension. | A renewal opened before the suspension ends it when it is paid. |
| `AwaitingPaymentIsPayable` | A payment publishes the listing approved for payment. | At the second such approval the quote hands back the order that was already paid or refunded. |
| `ReviewedListingApprovable` | Moderators may approve what is in review. | `lines.get()` raises when the latest paid order has two lines. The payment link still works, and a rejection, which refunds the order, followed by a restore makes the listing approvable again. |
| `LeaseExclusion` | Leased events are not processed concurrently. | A late worker's failure releases its successor's lease. |
| `FailuresAreReplayable` | Terminal failures can be replayed. | A late worker marks a processed event failed, and replay skips processed events. |
| `EditTakesImages` | Images posted with an edit are attached when it is saved. | The accepted edit of a published listing sends it to review first, so the images posted with it are refused. |

`PublicContentReviewed` and `SearchDocumentCurrent` leave out publications by renewal because of the
first finding; they hold of all others.

Five of these findings have a theorem that says how far they reach (section 4), so that a reader knows what the
code does keep of the promise:

| The promise | What holds instead |
| --- | --- |
| `RenewedContentReviewed` | `UnseenContentIsRenewed`: unseen content gets in only by a renewal paid while the listing is not shown and none of its edits counts as material. An expired or sold listing comes back as it was. |
| `SuspensionHolds` | `SuspensionsYieldToRenewalsOnly`: only a renewal opened before the suspension ends it, and none is opened during it. |
| `AwaitingPaymentIsPayable` | `PaymentIsDue`: there is an order to pay exactly if no placement of the listing was paid before. `StandstillIsFinal`: a listing for which there is none, or which is suspended, never leaves its status if it has no open renewal. |
| `LeaseExclusion`, `FailuresAreReplayable` | `PunctualWorkersExclude`: both hold as long as no worker has outlived a lease and nobody has replayed, whoever dies. |

## 4. Proofs

For every value of the constants that the named assumptions of the modules allow: any number of listings,
moderators, orders, events, workers, sellers, uploads, reports, counties, queries, and every bound. Every
safety property that a passing run checks is stated by a theorem.

The assumptions say what the code or its deployment has: finitely many images, workers and listings, durations
that are numbers, at least one day for a clock to show (`LastDay`), at least one category to draft in (`Leaves`: the
pages take theirs from the catalogue). None of them bounds a size.

### Marketplace

- `TypeCorrect`: `Spec => []TypeOK`, one lemma per actor.
- `ReviewInvariant`: the inductive invariant `ReviewInv`. The properties alone are not inductive.
  A form that is fresh by `AcceptedFormIsFresh` says nothing of a form *ahead* of its listing's
  revision, which a later step would make fresh; hence `FormsNotAhead`. And a listing approved
  for payment is public only later; hence `ApprovedUnchanged` speaks of listings awaiting payment
  as well. The argument has two halves: every step is `Versioned` (it advances the
  revision of a listing, or changes nothing a form shows, or ends in a status no form is
  decided in), and a `Versioned` step keeps forms fresh; and each service keeps what was approved
  unchanged. `DecisionsAreFresh` and `PublicContentIsReviewed` follow.
- `PublicationInvariant`: `SearchDocumentCurrent` with `AwaitedDecided`: a listing approved for payment has no
  image left to decide, and no owner may add one, so the payment that publishes it finds what
  the approval left. `SearchIsCurrent` and `PublishedImagesApproved` follow.
- `MoneyInvariant`: `LedgerAgrees` and `RejectedIsRefunded` are proved together, because a
  refund passes over an order whose refund event exists, and only the agreement of the tables says
  that a paid order has none. `LedgerIsConsistent` and `RejectionsRefund` follow.
- `DemandInvariant`: `NoDuplicateDemand` says that an open new-listing order belongs to a listing awaiting
  payment. A renewal that was paid would take the listing out of that status, so it must be excluded
  for such a listing. `Placed` does: only a paid placement gives a listing an expiry, only an expiry lets a
  renewal be paid, and a listing has one new-listing order. `SellersAreAskedOnce` follows.
- *How far the findings reach.* For each listing, every step but a payment is a `Turn`: it keeps the row, or takes
  it off the pages, or leaves it with the content that was reviewed, or keeps the content of one that is shown; and
  no `Turn` moves a listing that waits (`Waits`: suspended, or awaiting payment). What is left is
  `Paid`, one order of one listing (`EveryTurn`). `SuspensionsYieldToRenewalsOnly` and `UnseenContentIsRenewed` are
  then about `Paid` alone. `PaymentIsDue` adds the invariant `AwaitedIsQuoted`, that a listing which awaits payment has
  a placement order: with one placement order at most (`DemandInv`), that one is open or paid. `StandstillIsFinal`
  follows from both, since no order is opened for a listing that waits: it is about listings with no open renewal order,
whether suspended or awaiting a payment made before.
- `MarketplaceKeepsDeal`: `Spec => PlacementDeal`, the refinement. Every service maps to one step of
  `Placement` (hide, show, ask, settle, refuse); that a rejection is a `Refuse`, which returns all
  that is held, rests on `MoneyInv`.

### Outbox

`OutboxTypeCorrect`, then `DeliveryInvariant`. `SingleMail` counts mails; what makes it inductive is who may send
next. `Owned`: an event nothing excuses is in the hands of one worker, which holds its lease, and has a mail
only after that worker's handler. `SentOnce`: its mail is accounted for by that worker or by
`processed`. `Aligned`: the age of a lease in the table and in its holder's view are the same, so a worker
that has not outlived its view has not outlived the lease, and nobody else may claim. `SentIsMailed` and
`LogTellsOutcome` complete it.

`ClaimInvariant` is about how often an event is claimed. `AttemptsBounded` is not inductive, because a claim adds one to
the count and nothing to the budget (`MaxAttempts` and the deaths, lapses and replays so far). `Spent` adds that,
from the last attempt on, an event which can be claimed has a claim to its credit: a worker that takes one and
ends within its lease ends it for good, and every other end costs a death, a lapse or a replay. That a claim finds
no worker inside its lease is `Level`, the age of a lease being the same in the table and with its holder
also while it delivers. `ClaimsAreBounded` follows, a bound which the runs reach. `Punctual`, that without a lapse
or a replay whoever carries an event holds its lease, gives `PunctualWorkersExclude`.

`OutboxAssumption` asks for finitely many workers, as the deployment has:
the workers whose lease ends at a tick are counted against `MaxLapses`.

### Media

`MediaInv` is one invariant of six parts, each inductive together with those before it. `MediaAssumption` asks for
finitely many images, as a listing has: the orders are counted.

- `Requests` and the types: a request that writes holds the lock, so two requests are never both past it.
  `MediaFrozenInReview` follows.
- `Dense`: the orders of the ready images are `0 .. n - 1`. It is what makes `NextOrder`, which is a maximum plus
  one, a free number, and what makes the two loops of `Reorder` and the renumbering after a deletion
  meet nobody. `OrderNeverCollides` follows, since as many numbers as images leave no two images one number.
- `MaximumInv`: there is still room while a request that was let in writes, because nothing else becomes ready
  under its lock. `ImagesWithinMaximum` follows.
- `SessionInv`: an expiry that the cleanup still intends for a session with a finished image is one that
  `overtaken` knows of. `SessionsTell` follows.
- `StorageInv`: for every stage of a request, which of its files are there. `StorageMatchesRows` follows.

### Drafts

`DraftsInv`: a listing has one detail row, which its vertical and intent accept; category and tags are of that vertical;
and an open page holds the workflow of the category that it has read. The last part carries the proof: a save rewrites
the category with one that was read before the lock, and only because the intent never changes, and the workflow is
compared again under the lock, does that category call for the row that is there. `WorkflowAccepts` and `AcceptedIn`
are the facts about the workflow table and the `clean` methods that this rests on. `SubmissionFindsDetails` and
`OneVertical` follow.

### Live search

`SearchInv`: of the fetches of a form one at most is not aborted; it has the controller's number, which is greater
than that of the answer shown; and the form is announced as busy exactly when there is one. `BusyWhileAwaiting` and
`AnswersInOrder` follow. `AsksWhatIsChosen` is about one step, and needs only that the fetch which is new is the one
that `FormUrl` made (`RequestAsked`).

### Browse

Every query of a visit has the same keys (`DirectoryInv`); all else is about the operators. `IsLink` is what a link carries
of a query without errors, `IsData` what the form reads of the link. `SameResults`: two queries that agree in
`SameFilters` have the same results, hence `PageLinksStay`. `ChipResults` and `ChipAfter` compare the page behind a chip
with this one, field by field, hence `ChipRemovesOne`. The directory of two states is part of the model; prices and
makes are any.

### Geography

`ImportInv`: while an import runs, a county is as the import read it or was rewritten meanwhile, a county that the import has
passed over was as its file has it, and a form that no import has overtaken says what the table says, so that saving it
rewrites nothing. With `RoutesInv`, that the routes are distinct both in the table and as the
import sees it, no commit meets a constraint. `NamesLast` and `ImportIsWhole` follow: only staff undo an import, by typing or by an older
form, and the next import of the county repairs it.

### The other components

- `Storefront`: `DatesInvariant`, without a last day. No date lies ahead, only a publication sets an
  expiry, and the retention of a sold listing is what the sale gave it, or was cleared after its end.
- `Accounts`: `ProfileInvariant`. The approvals so far are distinct revisions, the last of them current: a review
  locks a pending revision, which therefore is in no earlier decision.
- `Reports`: `LockInvariant`, that a submission past its lock is about a published listing whose row it holds; and
  `TrailInvariant`, that a triage past its lock has read the state the report still has, which is open.
  `LimitsAreKept`: a submission that was admitted holds the lock of its listing, so the reports of a listing, and those
  alike, are counted exactly. The reports of a source are not: the invariant bounds what is recorded and what is
  admitted together, by the limit and one for each other listing, since the submissions past their lock inject
  into the listings (`FewUnderLock`). `ReportsAssumption` asks for finitely many listings.
- `CountyPicker`: `PickerInvariant`. `OneLoad` is what the aborts leave; with it, an answer that is read is for the
  state and the code on the form, hence `MarksCurrent`. `Distinct` must hold of what a load has read of
  the form too, since it is put back later.

### Types of the site

`SiteTypes`: `SiteSpec => []SiteTypeOK`. A step of `MCSite` is a step of the component that runs, or leaves it alone
(`StepOfPart`), so each component needs an invariant of its own that its steps keep. `Storefront`, `Drafts` and
`Browse` have types that are inductive as they stand. Those of `Media`, `Geography` and `LiveSearch` are parts of the
invariants above. Those of `Reports` are what its locks and trails already carry (`ReportsInv`). The others are
not inductive: that the revision a profile shows is one it has rests on `ProfileInv` (`AccountsInv`), and that at most
one load of a form is under way, for the state on it, on `PickerInv` (`FormInv`).

### Only model-checked

The four liveness properties, which the prover does not handle, and that a bounded outbox never deadlocks. That
the bounds of `AttemptsBounded` are reached and that the promises of section 3 fail are behaviours, which a run
shows and a proof of safety does not.

## 5. Plan

Done: visibility and dates, media, reminders, reports, accounts, drafts, reference data, the public pages and
two scripts, and the proofs of section 4: every safety property of a passing run. Next, in this order.

1. `LockOrder`: row locks of the marketplace services as state, for a local confirmation (order, then
   listing) against a rejection (listing, then orders).
2. `Policies` with `Notifications`: acceptances of versioned documents as a guard of submission, keys of
   notices.
3. `PriceResolution`: the catalogue's price choice as operators against a reference definition.

## 6. Not modelled

- *Favorites*: one toggle of one row, under the lock of the listing and a unique constraint; nothing reads it
  but its owner's page.
- *Notifications*: an insert that is idempotent by a unique key, and read marks; no step depends on
  another.
- *Policies*: acceptance is an idempotent insert per document and listing, which a submission requires of
  the documents active in its transaction.
- *Catalog and pricing*: one query ordered by specificity; the catalogue is data.
- *Management console, advertising, presentation*: read-only, or layout.
- *The admin site*, other than the forms of counties and of profile revisions. It is not read-only: `ListingAdmin`
  (`listings/admin.py:21-37`) and the admin of the detail rows let staff rewrite the title, description, price, category or
  county of a listing in any status, in review or published, with no advance of the revision, no return to review and no
  new search document; and as Django saves every column, a form posted beside a service may write back the status it read
  without a lock. `PublicContentReviewed`, `AcceptedFormIsFresh` and `SearchDocumentCurrent` therefore hold of what the
  services do, and are broken by any such edit.
- *Seeds and demo commands*: fixtures; the direct publication they use is modelled (`PublishDirect`).
- *Configuration and infrastructure*: settings, which appear as constants where a service reads them.
- *Within modelled parts*: values of typed facts and custom fields, tags that sellers type, text ranking,
  distances, codecs, amounts, mismatches of a payment provider, `FeaturedPlacement`, audit rows; the choice of a category
  in the form scripts and `unified-listing.js`; registration, passwords, two-factor tokens and sessions, which are
  Django's and allauth's. Django and PostgreSQL, whose transactions, row locks and constraints the
  models rely on, are assumed to work. PostgreSQL ends a deadlock by failing one transaction, which
  is rolled back and so is no step.
