---------------------------- MODULE Marketplace -----------------------------
(***************************************************************************)
(* The listing lifecycle composed with billing: sellers, moderators, staff *)
(* confirming payments, and the expiry scheduler act on the same listings  *)
(* in any order.  One action per service, each a whole transaction.        *)
(***************************************************************************)
EXTENDS Billing

vars == <<listingVars, billingVars>>

TypeOK == ListingTypeOK /\ BillingTypeOK

Init == ListingInit /\ BillingInit

-----------------------------------------------------------------------------
\* moderate_listing, one action per outcome.

\* The expiry an approval sets: from the latest paid order, which must have exactly one
\* line (`lines.get()` raises otherwise and the approval is rolled back); unchanged when
\* nothing was paid.
Approve(m, l, k) ==
  /\ \/ /\ PaidOrders(l) = {}
        /\ DecidePublish(m, l, k, expiresAt[l])
     \/ \E o \in LatestPaid(l) :
          /\ order[o].lines = 1
          /\ DecidePublish(m, l, k, now + Duration)
  /\ UNCHANGED billingVars

SendPaymentLink(m, l, k) ==
  /\ DecidePaymentLink(m, l, k)
  /\ QuoteNewListing(l)
  /\ UNCHANGED <<paymentEvent, refundEvent, renewing>>

RequestChanges(m, l, k) == DecideChanges(m, l, k) /\ UNCHANGED billingVars

Reject(m, l, k) ==
  /\ DecideReject(m, l, k)
  /\ RefundRejected(l)
  /\ UNCHANGED <<paymentEvent, renewing>>

Suspend(m, l, k) == DecideSuspend(m, l, k) /\ UNCHANGED billingVars

-----------------------------------------------------------------------------
\* process_payment_event on the payment event of order o.  An event of an order that is
\* no longer pending would be ignored: LedgerAgrees shows that no such event is open.

PayNewListing(o) ==
  /\ order[o].purpose = "new_listing"
  /\ status[order[o].listing] = "awaiting_payment"
  /\ images[order[o].listing]["approved"] >= required
  /\ PublishPaid(order[o].listing, now + Duration)
  /\ BookPayment(o)

PayTooEarly(o) ==
  /\ order[o].purpose = "new_listing"
  /\ \/ status[order[o].listing] # "awaiting_payment"
     \/ images[order[o].listing]["approved"] < required
  /\ FailPayment(o)
  /\ UNCHANGED listingVars

\* Raises, and rolls everything back, unless the renewal still qualifies.
PayRenewal(o) ==
  /\ order[o].purpose = "renewal"
  /\ RenewalOpen(order[o].listing)
  /\ PublishRenewed(order[o].listing, now + Duration)
  /\ BookPayment(o)

ProcessPayment(o) ==
  /\ order[o].status = "pending"
  /\ PayNewListing(o) \/ PayTooEarly(o) \/ PayRenewal(o)

\* record_local_payment: create the order's payment event unless it exists, process it.
ConfirmPayment(o) == paymentEvent[o] \in {"none", "failed"} /\ ProcessPayment(o)

\* The replay_payment_events command.
ReplayPayment(o) == paymentEvent[o] = "failed" /\ ProcessPayment(o)

-----------------------------------------------------------------------------
SellerNext ==
  \E l \in Listing :
    \/ EditListing(l) /\ UNCHANGED billingVars
    \/ AddImage(l) /\ UNCHANGED billingVars
    \/ \E d \in Decision : DeleteImage(l, d) /\ UNCHANGED billingVars
    \/ SubmitListing(l) /\ UNCHANGED billingVars
    \/ MarkSold(l) /\ UNCHANGED billingVars
    \/ Archive(l) /\ UNCHANGED billingVars
    \/ RestoreDraft(l) /\ UNCHANGED billingVars
    \/ BeginRenewal(l) /\ UNCHANGED listingVars
    \/ CreateRenewal(l) /\ UNCHANGED listingVars

ModeratorNext ==
  \E m \in Moderator, l \in Listing :
    \/ OpenReview(m, l) /\ UNCHANGED billingVars
    \/ ClaimListing(m, l) /\ UNCHANGED billingVars
    \/ \E k \in 0..MaxImages :
         \/ Approve(m, l, k)
         \/ SendPaymentLink(m, l, k)
         \/ RequestChanges(m, l, k)
         \/ Reject(m, l, k)
         \/ Suspend(m, l, k)

StaffNext ==
  \/ \E o \in OrderId : ConfirmPayment(o) \/ ReplayPayment(o)
  \/ \E l \in Listing : PublishDirect(l) /\ UNCHANGED billingVars
  \/ \E n \in ImagePolicy : SetImagePolicy(n) /\ UNCHANGED billingVars

SchedulerNext ==
  \/ \E batch \in SUBSET Listing : ExpireDue(batch) /\ UNCHANGED billingVars
  \/ Tick /\ UNCHANGED billingVars

Next == SellerNext \/ ModeratorNext \/ StaffNext \/ SchedulerNext

Spec == Init /\ [][Next]_vars

-----------------------------------------------------------------------------
\* Safety.

\* What buyers can be shown is the very version its approver saw on screen (or, for a direct
\* approval, locked), whatever sellers edited, other moderators decided and staff confirmed
\* between the page load, the decision and the payment.  A publication by renewal is excluded:
\* see RenewedContentReviewed.  It speaks of the services: the admin form of a listing
\* (listings/admin.py:21) rewrites a published one without a review.
PublicContentReviewed ==
  \A l \in Listing :
    status[l] = "published" /\ publishedBy[l] # "renewal" => content[l] = reviewed[l]

\* A review form the revision check still accepts shows the content it will decide on:
\* no decision is taken on content its moderator has not seen, whatever the services change
\* meanwhile.  An edit in the admin form does not advance the revision, and is left out.
AcceptedFormIsFresh ==
  \A m \in Moderator :
    form[m] # NoForm =>
      LET l == form[m].listing
      IN  form[m].revision = revision[l] /\ status[l] \in {"in_review", "published"}
            => form[m].seen = content[l]

\* Full-text search never matches a published listing by content it no longer has, as far as
\* services change it; the admin form rebuilds no document.
SearchDocumentCurrent ==
  \A l \in Listing :
    status[l] = "published" /\ publishedBy[l] # "renewal" => indexed[l] = content[l]

\* The order table and the event table agree: an order is paid, or was paid and refunded,
\* exactly when its payment event was processed, and refunded exactly when its refund was.
LedgerAgrees ==
  \A o \in OrderId :
    /\ order[o].status \in {"paid", "refunded"} <=> paymentEvent[o] = "processed"
    /\ order[o].status = "refunded" <=> refundEvent[o] = "processed"

\* No seller is asked twice: a listing has one new-listing order at most, one open renewal
\* at most, and its new-listing order is open only while the listing awaits that payment.
NoDuplicateDemand ==
  \A o, p \in OrderId :
    /\ order[o].status = "pending" /\ order[o].purpose = "new_listing"
         => status[order[o].listing] = "awaiting_payment"
    /\ o # p /\ order[o].listing = order[p].listing /\ order[o].purpose = order[p].purpose
         => \/ order[o].status = "none"
            \/ order[o].purpose = "renewal" /\ {order[o].status, order[p].status} # {"pending"}

\* The marketplace keeps no money of a rejected listing, whichever orders were paid before
\* it was rejected, published or not.
RejectedIsRefunded == \A l \in Listing : status[l] = "rejected" => PaidOrders(l) = {}

\* A moderator's approval, and the payment that may follow it much later, publish a listing
\* only with the number of approved images the policy asks for at that moment, and with no
\* image left that nobody decided on.
PublishedWithApprovedImages ==
  [][\A l \in Listing :
       status[l] # "published" /\ status'[l] = "published"
         /\ publishedBy'[l] \in {"moderator", "payment"}
       => images'[l]["approved"] >= required /\ images'[l]["pending"] = 0]_vars

\* The marketplace keeps the placement deal: see Placement.
Deal == INSTANCE Placement WITH
  live   <- [l \in Listing |-> status[l] = "published"],
  charge <- [o \in OrderId |-> CASE order[o].status = "none"     -> "none"
                                 [] order[o].status = "pending"  -> "asked"
                                 [] order[o].status = "paid"     -> "held"
                                 [] order[o].status = "refunded" -> "returned"],
  payer  <- [o \in OrderId |-> order[o].listing]
PlacementDeal == Deal!Spec

-----------------------------------------------------------------------------
\* What the repository's documents say of the same system.  The runs of these properties
\* are expected to find a counterexample; the findings quote the documents.

\* "A paid renewal made no later than seven days after expiration restores the unchanged
\* listing": no publication, renewals included, shows content nobody approved.
RenewedContentReviewed ==
  \A l \in Listing : status[l] = "published" => content[l] = reviewed[l]

\* A suspended listing becomes public again only by a moderator's decision, and no
\* moderator's action leads out of "suspended".
SuspensionHolds ==
  [][\A l \in Listing : status[l] = "suspended" => status'[l] # "published"]_vars

\* A listing approved for payment can be paid, and the payment publishes it: an open order
\* for its placement exists as long as it awaits payment.
AwaitingPaymentIsPayable ==
  \A l \in Listing :
    status[l] = "awaiting_payment" =>
      \E o \in OrdersOf(l, "new_listing") : order[o].status = "pending"

\* A moderator can approve every listing in review: no paid order makes `lines.get()` raise.
ReviewedListingApprovable ==
  \A l \in Listing : status[l] = "in_review" => \A o \in LatestPaid(l) : order[o].lines = 1

=============================================================================
