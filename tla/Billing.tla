------------------------------ MODULE Billing -------------------------------
(***************************************************************************)
(* Orders and payment events of src/src/apps/billing/services.py: what     *)
(* opening an order, confirming a payment and refunding a rejected listing *)
(* do to the ledger.  Every order has at most one payment event and one    *)
(* refund event, because their provider ids are derived from the order     *)
(* ("local-payment-<order>", "local-refund-rejected-<order>").             *)
(***************************************************************************)
EXTENDS ListingLifecycle

CONSTANTS
  OrderId,       \* the orders that can be created (bounds the check)
  NoListing,     \* the listing of an order that does not exist yet
  Renewable,     \* the listings an active renewal product is sold for
  Duration,      \* OrderLine.duration_days of every product, in clock ticks
  Grace          \* the seven days after expiry in which a renewal is accepted

ASSUME BillingAssumption ==
  /\ NoListing \notin Listing
  /\ Renewable \subseteq Listing
  /\ Duration \in Nat \ {0}
  /\ Grace \in Nat

VARIABLES
  order,          \* the Order rows
  paymentEvent,   \* status of each order's payment event
  refundEvent,    \* status of each order's refund event
  renewing        \* the renewal requests past their check, before their lock

billingVars == <<order, paymentEvent, refundEvent, renewing>>

OrderStatus == {"pending", "paid", "refunded"}
Purpose == {"new_listing", "renewal"}
Order == [status : OrderStatus, listing : Listing, purpose : Purpose, lines : 1..2, paidAt : Nat]
NoOrder == [status |-> "none", listing |-> NoListing, purpose |-> "new_listing", lines |-> 1,
            paidAt |-> 0]

BillingTypeOK ==
  /\ order \in [OrderId -> Order \cup {NoOrder}]
  /\ paymentEvent \in [OrderId -> {"none", "processed", "failed"}]
  /\ refundEvent \in [OrderId -> {"none", "processed"}]
  /\ renewing \in SUBSET Listing

BillingInit ==
  /\ order = [o \in OrderId |-> NoOrder]
  /\ paymentEvent = [o \in OrderId |-> "none"]
  /\ refundEvent = [o \in OrderId |-> "none"]
  /\ renewing = {}

-----------------------------------------------------------------------------
OrdersOf(l, purpose) ==
  {o \in OrderId : order[o].status # "none" /\ order[o].listing = l /\ order[o].purpose = purpose}
PaidOrders(l) == {o \in OrderId : order[o].status = "paid" /\ order[o].listing = l}
PendingRenewals(l) == {o \in OrdersOf(l, "renewal") : order[o].status = "pending"}

\* orders.filter(status=PAID).order_by("-paid_at").first(); ties go either way.
LatestPaid(l) == {o \in PaidOrders(l) : \A p \in PaidOrders(l) : order[p].paidAt <= order[o].paidAt}

\* A plausible bug: the order misses its primary line.
BugOrderWithoutLine(l, purpose, lines) ==
  \E o \in OrderId :
    /\ order[o] = NoOrder
    /\ order' = [order EXCEPT ![o] = [status |-> "pending", listing |-> l, purpose |-> purpose,
                                      lines |-> lines - 1, paidAt |-> 0]]

CreateOrder(l, purpose, lines) ==
  \E o \in OrderId :
    /\ order[o] = NoOrder
    /\ order' = [order EXCEPT ![o] = [status |-> "pending", listing |-> l, purpose |-> purpose,
                                      lines |-> lines, paidAt |-> 0]]

\* A plausible bug: only an open order is returned, as for renewals.
BugQuoteIgnoresPaid(l) ==
  IF \E o \in OrdersOf(l, "new_listing") : order[o].status = "pending"
    THEN UNCHANGED order
    ELSE CreateOrder(l, "new_listing", 1)

\* create_generic_distribution_quote: the listing's first new-listing order is returned
\* whatever its status; otherwise one is created, with a second line when the listing is
\* placed in additional counties.
QuoteNewListing(l) ==
  \/ OrdersOf(l, "new_listing") # {} /\ UNCHANGED order
  \/ /\ OrdersOf(l, "new_listing") = {}
     /\ \E lines \in 1..2 : CreateOrder(l, "new_listing", lines)

\* A plausible bug: only the latest payment is refunded.
BugRefundsLatestOnly(l) ==
  /\ order' = [o \in OrderId |-> IF o \in LatestPaid(l) THEN [order[o] EXCEPT !.status = "refunded"]
                                                        ELSE order[o]]
  /\ refundEvent' = [o \in OrderId |-> IF o \in LatestPaid(l) THEN "processed" ELSE refundEvent[o]]

\* refund_rejected_listing: one refund per paid order of the listing.
RefundRejected(l) ==
  LET refunds == {o \in PaidOrders(l) : refundEvent[o] = "none"}
  IN  /\ order' = [o \in OrderId |-> IF o \in refunds THEN [order[o] EXCEPT !.status = "refunded"]
                                                      ELSE order[o]]
      /\ refundEvent' = [o \in OrderId |-> IF o \in refunds THEN "processed" ELSE refundEvent[o]]

\* The renewal conditions, checked without a lock by create_renewal_order and again,
\* under the lock, by _apply_paid_renewal.
RenewalOpen(l) ==
  /\ expiresAt[l] # 0
  /\ expiresAt[l] + Grace >= now
  /\ ~edited[l]

\* create_renewal_order up to the call of create_checkout_order.
BeginRenewal(l) ==
  /\ RenewalOpen(l)
  /\ renewing' = renewing \cup {l}
  /\ UNCHANGED <<order, paymentEvent, refundEvent>>

\* create_checkout_order with purpose renewal, under the listing lock.
CreateRenewal(l) ==
  /\ l \in renewing
  /\ renewing' = renewing \ {l}
  /\ \/ /\ status[l] \in {"expired", "published"}
        /\ l \in Renewable
        /\ PendingRenewals(l) = {}
        /\ CreateOrder(l, "renewal", 1)
     \/ /\ \/ status[l] \notin {"expired", "published"}
           \/ PendingRenewals(l) # {}
           \/ l \notin Renewable
        /\ UNCHANGED order
  /\ UNCHANGED <<paymentEvent, refundEvent>>

\* A plausible bug: the event is not saved with the order.
BugBooksOrderOnly(o) ==
  /\ order' = [order EXCEPT ![o].status = "paid", ![o].paidAt = now]
  /\ UNCHANGED <<paymentEvent, refundEvent, renewing>>

\* A payment is booked: the order is paid and its event processed.
BookPayment(o) ==
  /\ order' = [order EXCEPT ![o].status = "paid", ![o].paidAt = now]
  /\ paymentEvent' = [paymentEvent EXCEPT ![o] = "processed"]
  /\ UNCHANGED <<refundEvent, renewing>>

\* A payment event fails and can be replayed.
FailPayment(o) ==
  /\ paymentEvent' = [paymentEvent EXCEPT ![o] = "failed"]
  /\ UNCHANGED <<order, refundEvent, renewing>>
=============================================================================
