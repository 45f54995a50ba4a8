---------------------------- MODULE Ledger_proofs ----------------------------
(***************************************************************************)
(* What happens to the money, for any listings, orders and bounds: the two *)
(* tables of the ledger agree, a rejected listing is fully refunded, the   *)
(* marketplace implements the placement deal, and how far the places reach *)
(* where the code disagrees with its documents.                            *)
(***************************************************************************)
EXTENDS Marketplace_proofs

\* A refund needs the ledger to agree: a paid order whose refund was already processed would
\* be passed over.  So the two properties are proved together.
MoneyInv == TypeOK /\ LedgerAgrees /\ RejectedIsRefunded

\* Orders that are opened, booked or failed, and listings that nothing rejects.
NothingRejected == \A l \in Listing : status'[l] = "rejected" => status[l] = "rejected"
OrdersKept == UNCHANGED <<order, paymentEvent, refundEvent>>

LEMMA KeptOrders ==
  ASSUME MoneyInv, OrdersKept, NothingRejected
  PROVE  LedgerAgrees' /\ RejectedIsRefunded'
  BY DEF MoneyInv, OrdersKept, NothingRejected, LedgerAgrees, RejectedIsRefunded, PaidOrders

\* A new order is pending, so it has neither event, and it is not paid.
LEMMA OpenedOrder ==
  ASSUME MoneyInv, NEW l \in Listing, NEW purpose \in Purpose, NEW lines \in 1..2,
         CreateOrder(l, purpose, lines), UNCHANGED <<paymentEvent, refundEvent>>, NothingRejected
  PROVE  LedgerAgrees' /\ RejectedIsRefunded'
<1>1. PICK o \in OrderId :
        /\ order[o] = NoOrder
        /\ order' = [order EXCEPT ![o] = [status |-> "pending", listing |-> l, purpose |-> purpose,
                                          lines |-> lines, paidAt |-> 0]]
  BY DEF CreateOrder
<1>2. order[o].status = "none" /\ order'[o].status = "pending"
  BY <1>1 DEF NoOrder, MoneyInv, TypeOK, BillingTypeOK
<1>3. \A p \in OrderId \ {o} : order'[p] = order[p]
  BY <1>1 DEF MoneyInv, TypeOK, BillingTypeOK
<1>4. LedgerAgrees'
  BY <1>2, <1>3 DEF MoneyInv, LedgerAgrees
<1>5. \A x \in Listing : PaidOrders(x)' \subseteq PaidOrders(x)
  BY <1>2, <1>3 DEF PaidOrders
<1> QED
  BY <1>4, <1>5 DEF MoneyInv, RejectedIsRefunded, NothingRejected

LEMMA SellerLedger ==
  ASSUME MoneyInv, SellerNext
  PROVE  LedgerAgrees' /\ RejectedIsRefunded'
<1>1. ASSUME NEW l \in Listing, UNCHANGED billingVars,
             \/ EditListing(l) \/ AddImage(l) \/ \E d \in Decision : DeleteImage(l, d)
             \/ SubmitListing(l) \/ MarkSold(l) \/ Archive(l) \/ RestoreDraft(l)
      PROVE  OrdersKept /\ NothingRejected
  <2>1. OrdersKept
    BY <1>1 DEF billingVars, OrdersKept
  <2>2. CASE EditListing(l) \/ AddImage(l) \/ \E d \in Decision : DeleteImage(l, d)
    <3>1. DepublishMaterialEdit(l)
      BY <2>2 DEF EditListing, AddImage, DeleteImage, OwnerWrite
    <3> QED
      BY <2>1, <3>1 DEF DepublishMaterialEdit, NothingRejected, MoneyInv, TypeOK, ListingTypeOK
  <2>3. CASE SubmitListing(l)
    BY <2>1, <2>3 DEF SubmitListing, NothingRejected, MoneyInv, TypeOK, ListingTypeOK
  <2>4. CASE MarkSold(l) \/ Archive(l) \/ RestoreDraft(l)
    BY <2>1, <2>4 DEF MarkSold, Archive, RestoreDraft, OwnerTransition, NothingRejected, MoneyInv,
      TypeOK, ListingTypeOK
  <2> QED
    BY <1>1, <2>2, <2>3, <2>4
<1>2. ASSUME NEW l \in Listing, BeginRenewal(l), UNCHANGED listingVars
      PROVE  OrdersKept /\ NothingRejected
  BY <1>2 DEF BeginRenewal, listingVars, OrdersKept, NothingRejected
<1>3. ASSUME NEW l \in Listing, CreateRenewal(l), UNCHANGED listingVars
      PROVE  LedgerAgrees' /\ RejectedIsRefunded'
  <2>1. NothingRejected /\ UNCHANGED <<paymentEvent, refundEvent>>
    BY <1>3 DEF CreateRenewal, listingVars, NothingRejected
  <2>2. CASE CreateOrder(l, "renewal", 1)
    BY <2>1, <2>2, OpenedOrder DEF Purpose
  <2>3. CASE UNCHANGED order
    BY <2>1, <2>3, KeptOrders DEF OrdersKept
  <2> QED
    BY <1>3, <2>2, <2>3 DEF CreateRenewal
<1> QED
  BY <1>1, <1>2, <1>3, KeptOrders DEF SellerNext

\* The refund takes every paid order of the listing: none of them was refunded before.
LEMMA RefundsAll ==
  ASSUME MoneyInv, NEW l \in Listing, RefundRejected(l), UNCHANGED paymentEvent,
         NEW m \in Moderator, NEW k, DecideReject(m, l, k)
  PROVE  LedgerAgrees' /\ RejectedIsRefunded'
<1>1. \A o \in PaidOrders(l) : refundEvent[o] = "none" /\ order[o].status = "paid" /\ o \in OrderId
  BY DEF PaidOrders, MoneyInv, LedgerAgrees, TypeOK, BillingTypeOK
<1>2. \A o \in PaidOrders(l) : [order[o] EXCEPT !.status = "refunded"].status = "refunded"
  BY PlacedOrder DEF PaidOrders, Order, OrderStatus, MoneyInv, TypeOK
<1>3. \A o \in PaidOrders(l) : order'[o].status = "refunded" /\ refundEvent'[o] = "processed"
  BY <1>1, <1>2 DEF RefundRejected
<1>4. \A o \in OrderId \ PaidOrders(l) : order'[o] = order[o] /\ refundEvent'[o] = refundEvent[o]
  BY DEF RefundRejected
<1>5. LedgerAgrees'
  BY <1>1, <1>3, <1>4 DEF MoneyInv, LedgerAgrees
<1>6. PaidOrders(l)' = {}
  BY <1>3, <1>4 DEF PaidOrders
<1>7. \A x \in Listing \ {l} : status'[x] = status[x] /\ PaidOrders(x)' \subseteq PaidOrders(x)
  BY <1>3, <1>4 DEF PaidOrders, DecideReject, Decide, MoneyInv, TypeOK, ListingTypeOK
<1> QED
  BY <1>5, <1>6, <1>7 DEF MoneyInv, RejectedIsRefunded

LEMMA ModeratorLedger ==
  ASSUME MoneyInv, ModeratorNext
  PROVE  LedgerAgrees' /\ RejectedIsRefunded'
<1>1. ASSUME NEW m \in Moderator, NEW l \in Listing, UNCHANGED billingVars,
             OpenReview(m, l) \/ ClaimListing(m, l)
      PROVE  OrdersKept /\ NothingRejected
  BY <1>1 DEF OpenReview, ClaimListing, billingVars, OrdersKept, NothingRejected
<1>2. ASSUME NEW m \in Moderator, NEW l \in Listing, NEW k \in 0..MaxImages,
             Approve(m, l, k) \/ RequestChanges(m, l, k) \/ Suspend(m, l, k)
      PROVE  OrdersKept /\ NothingRejected
  <2>1. PICK from \in SUBSET Status, to \in {"published", "changes_requested", "suspended"} :
          Decide(m, l, k, from, to)
    <3>1. CASE Approve(m, l, k)
      BY <3>1 DEF Approve, DecidePublish, Status
    <3>2. CASE RequestChanges(m, l, k)
      <4>1. Decide(m, l, k, {"in_review"}, "changes_requested")
        BY <3>2 DEF RequestChanges, DecideChanges
      <4> QED
        BY <4>1 DEF Status
    <3>3. CASE Suspend(m, l, k)
      <4>1. Decide(m, l, k, {"in_review", "published"}, "suspended")
        BY <3>3 DEF Suspend, DecideSuspend
      <4> QED
        BY <4>1 DEF Status
    <3> QED
      BY <1>2, <3>1, <3>2, <3>3
  <2>2. NothingRejected
    BY <2>1 DEF Decide, NothingRejected, MoneyInv, TypeOK, ListingTypeOK
  <2>3. OrdersKept
    BY <1>2 DEF Approve, RequestChanges, Suspend, billingVars, OrdersKept
  <2> QED
    BY <2>2, <2>3
<1>3. ASSUME NEW m \in Moderator, NEW l \in Listing, NEW k \in 0..MaxImages, SendPaymentLink(m, l, k)
      PROVE  LedgerAgrees' /\ RejectedIsRefunded'
  <2>1. Decide(m, l, k, {"in_review"}, "awaiting_payment")
    BY <1>3 DEF SendPaymentLink, DecidePaymentLink
  <2>2. NothingRejected
    BY <2>1 DEF Decide, NothingRejected, MoneyInv, TypeOK, ListingTypeOK
  <2>3. CASE UNCHANGED order
    BY <1>3, <2>2, <2>3, KeptOrders DEF SendPaymentLink, OrdersKept
  <2>4. CASE \E lines \in 1..2 : CreateOrder(l, "new_listing", lines)
    BY <1>3, <2>2, <2>4, OpenedOrder DEF SendPaymentLink, Purpose
  <2> QED
    BY <1>3, <2>3, <2>4 DEF SendPaymentLink, QuoteNewListing
<1>4. ASSUME NEW m \in Moderator, NEW l \in Listing, NEW k \in 0..MaxImages, Reject(m, l, k)
      PROVE  LedgerAgrees' /\ RejectedIsRefunded'
  BY <1>4, RefundsAll DEF Reject
<1> QED
  BY <1>1, <1>2, <1>3, <1>4, KeptOrders DEF ModeratorNext

\* A booked payment publishes its listing, so it never adds money to a rejected one.
LEMMA BookedPayment ==
  ASSUME MoneyInv, NEW o \in OrderId, order[o].status = "pending", BookPayment(o),
         status' = [status EXCEPT ![order[o].listing] = "published"]
  PROVE  LedgerAgrees' /\ RejectedIsRefunded'
<1> DEFINE l == order[o].listing
<1>1. order[o] \in Order /\ l \in Listing
  BY PlacedOrder DEF Order, OrderStatus, MoneyInv, TypeOK
<1>2. /\ order'[o].status = "paid" /\ order'[o].listing = l
      /\ paymentEvent'[o] = "processed" /\ refundEvent' = refundEvent
  BY <1>1 DEF BookPayment, MoneyInv, TypeOK, BillingTypeOK, Order
<1>3. \A p \in OrderId \ {o} : order'[p] = order[p] /\ paymentEvent'[p] = paymentEvent[p]
  BY DEF BookPayment, MoneyInv, TypeOK, BillingTypeOK
<1>4. LedgerAgrees'
  BY <1>2, <1>3 DEF MoneyInv, LedgerAgrees
<1>5. status'[l] = "published" /\ \A x \in Listing \ {l} : status'[x] = status[x]
  BY <1>1 DEF MoneyInv, TypeOK, ListingTypeOK
<1> HIDE DEF l
<1>6. \A x \in Listing \ {l} : PaidOrders(x)' \subseteq PaidOrders(x)
  BY <1>2, <1>3 DEF PaidOrders
<1> QED
  BY <1>4, <1>5, <1>6 DEF MoneyInv, RejectedIsRefunded

LEMMA StaffLedger ==
  ASSUME MoneyInv, StaffNext
  PROVE  LedgerAgrees' /\ RejectedIsRefunded'
<1>1. ASSUME NEW o \in OrderId, ProcessPayment(o)
      PROVE  LedgerAgrees' /\ RejectedIsRefunded'
  <2>1. CASE PayNewListing(o) \/ PayRenewal(o)
    BY <1>1, <2>1, BookedPayment
    DEF ProcessPayment, PayNewListing, PayRenewal, PublishPaid, PublishRenewed
  <2>2. CASE PayTooEarly(o)
    <3>1. /\ paymentEvent' = [paymentEvent EXCEPT ![o] = "failed"]
          /\ UNCHANGED <<order, refundEvent, status>>
      BY <2>2 DEF PayTooEarly, FailPayment, listingVars
    <3>2. paymentEvent'[o] = "failed" /\ \A p \in OrderId \ {o} : paymentEvent'[p] = paymentEvent[p]
      BY <3>1 DEF MoneyInv, TypeOK, BillingTypeOK
    <3>3. order[o].status = "pending"
      BY <1>1 DEF ProcessPayment
    <3>4. LedgerAgrees'
      BY <3>1, <3>2, <3>3 DEF MoneyInv, LedgerAgrees
    <3> QED
      BY <3>1, <3>4 DEF MoneyInv, RejectedIsRefunded, PaidOrders
  <2> QED
    BY <1>1, <2>1, <2>2 DEF ProcessPayment
<1>2. ASSUME NEW l \in Listing, PublishDirect(l), UNCHANGED billingVars
      PROVE  OrdersKept /\ NothingRejected
  BY <1>2 DEF PublishDirect, billingVars, OrdersKept, NothingRejected, MoneyInv, TypeOK, ListingTypeOK
<1>3. ASSUME NEW n \in ImagePolicy, SetImagePolicy(n), UNCHANGED billingVars
      PROVE  OrdersKept /\ NothingRejected
  BY <1>3 DEF SetImagePolicy, billingVars, OrdersKept, NothingRejected
<1> QED
  BY <1>1, <1>2, <1>3, KeptOrders DEF StaffNext, ConfirmPayment, ReplayPayment

LEMMA SchedulerLedger ==
  ASSUME MoneyInv, SchedulerNext
  PROVE  LedgerAgrees' /\ RejectedIsRefunded'
<1>1. OrdersKept /\ NothingRejected
  BY DEF SchedulerNext, ExpireDue, Tick, billingVars, OrdersKept, NothingRejected
<1> QED
  BY <1>1, KeptOrders

THEOREM MoneyInvariant == Spec => []MoneyInv
<1>1. Init => MoneyInv
  BY InitType DEF Init, ListingInit, BillingInit, MoneyInv, LedgerAgrees, RejectedIsRefunded, NoOrder
<1>2. MoneyInv /\ TypeOK' /\ [Next]_vars => MoneyInv'
  <2> SUFFICES ASSUME MoneyInv, TypeOK', [Next]_vars PROVE LedgerAgrees' /\ RejectedIsRefunded'
    BY DEF MoneyInv
  <2>1. CASE UNCHANGED vars
    BY <2>1, KeptOrders DEF vars, listingVars, billingVars, OrdersKept, NothingRejected
  <2> QED
    BY <2>1, SellerLedger, ModeratorLedger, StaffLedger, SchedulerLedger DEF Next
<1> QED
  BY <1>1, <1>2, TypeCorrect, PTL DEF Spec

\* The order table and the event table never disagree, whatever is paid, replayed, failed and
\* refunded in whatever order.
THEOREM LedgerIsConsistent == Spec => []LedgerAgrees
<1>1. MoneyInv => LedgerAgrees
  BY DEF MoneyInv
<1> QED
  BY <1>1, MoneyInvariant, PTL

\* A rejection leaves no paid order of the listing behind, and none is paid after it.
THEOREM RejectionsRefund == Spec => []RejectedIsRefunded
<1>1. MoneyInv => RejectedIsRefunded
  BY DEF MoneyInv
<1> QED
  BY <1>1, MoneyInvariant, PTL

-----------------------------------------------------------------------------
\* Demands: no seller is asked twice.

\* The listings whose placement has been paid, whether or not it was refunded since.
Placed ==
  {l \in Listing : \E o \in OrderId : /\ order[o].listing = l /\ order[o].purpose = "new_listing"
                                     /\ order[o].status \in {"paid", "refunded"}}

\* Only a paid placement gives a listing an expiry, and only an expiry lets a renewal be paid.
\* So a listing whose placement is still to be paid has no renewal that could publish it.
DemandInv ==
  /\ TypeOK /\ NoDuplicateDemand
  /\ \A l \in Listing : expiresAt[l] # 0 => l \in Placed
  /\ \A o \in OrderId : order[o].status = "paid" => order[o].listing \in Placed

DemandKept ==
  /\ NoDuplicateDemand'
  /\ \A l \in Listing : expiresAt'[l] # 0 => l \in Placed'
  /\ \A o \in OrderId : order'[o].status = "paid" => order'[o].listing \in Placed'

LEMMA OrderCases ==
  ASSUME DemandInv, NEW o \in OrderId
  PROVE  \/ order[o] \in Order /\ order[o].status # "none" /\ order[o].listing \in Listing
         \/ order[o] = NoOrder /\ order[o].status = "none" /\ order[o].listing \notin Listing
BY BillingAssumption DEF DemandInv, TypeOK, BillingTypeOK, Order, OrderStatus, NoOrder

LEMMA PlacedIsNotAsked ==
  ASSUME DemandInv, NEW l \in Listing, l \in Placed, NEW o \in OrderId,
         order[o].listing = l, order[o].purpose = "new_listing"
  PROVE  order[o].status # "pending"
<1>1. PICK p \in OrderId : /\ order[p].listing = l /\ order[p].purpose = "new_listing"
                          /\ order[p].status \in {"paid", "refunded"}
  BY DEF Placed
<1>2. o # p => order[o].status = "none"
  BY <1>1 DEF DemandInv, NoDuplicateDemand
<1> QED
  BY <1>1, <1>2

\* A step that opens and books nothing, and gives no listing that was never paid an expiry.
LEMMA QuietDemand ==
  ASSUME DemandInv, UNCHANGED order,
         \A l \in Listing : status[l] = "awaiting_payment" => status'[l] = "awaiting_payment",
         \A l \in Listing : expiresAt'[l] # 0 => expiresAt[l] # 0 \/ l \in Placed
  PROVE  DemandKept
<1>1. \A o \in OrderId : order[o].status = "pending" => order[o].listing \in Listing
  BY OrderCases
<1>2. NoDuplicateDemand'
  BY <1>1 DEF DemandInv, NoDuplicateDemand
<1>3. Placed' = Placed
  BY DEF Placed
<1> QED
  BY <1>2, <1>3 DEF DemandInv, DemandKept

\* A step that opens one order.
LEMMA OpenedDemand ==
  ASSUME DemandInv, NEW l \in Listing, NEW purpose \in Purpose, NEW lines \in 1..2,
         CreateOrder(l, purpose, lines), UNCHANGED expiresAt,
         purpose = "new_listing" => OrdersOf(l, "new_listing") = {} /\ status'[l] = "awaiting_payment",
         purpose = "renewal" => PendingRenewals(l) = {},
         \A x \in Listing : status[x] = "awaiting_payment" => status'[x] = "awaiting_payment"
  PROVE  DemandKept
<1>1. PICK o \in OrderId :
        /\ order[o] = NoOrder
        /\ order' = [order EXCEPT ![o] = [status |-> "pending", listing |-> l, purpose |-> purpose,
                                          lines |-> lines, paidAt |-> 0]]
  BY DEF CreateOrder
<1>2. /\ order[o].status = "none"
      /\ order'[o].status = "pending" /\ order'[o].listing = l /\ order'[o].purpose = purpose
      /\ \A p \in OrderId \ {o} : order'[p] = order[p]
  BY <1>1 DEF NoOrder, DemandInv, TypeOK, BillingTypeOK
\* Another order of the same kind is a renewal that is not open.
<1>3. \A p \in OrderId \ {o} : order[p].listing = l /\ order[p].purpose = purpose
        => purpose = "renewal" /\ order[p].status # "pending"
  <2> SUFFICES ASSUME NEW p \in OrderId \ {o}, order[p].listing = l, order[p].purpose = purpose
               PROVE  purpose = "renewal" /\ order[p].status # "pending"
    OBVIOUS
  <2>1. order[p].status # "none"
    BY OrderCases
  <2>2. purpose # "new_listing"
    BY <2>1 DEF OrdersOf
  <2>3. purpose = "renewal"
    BY <2>2 DEF Purpose
  <2>4. order[p].status # "pending"
    BY <2>1, <2>3 DEF PendingRenewals, OrdersOf
  <2> QED
    BY <2>3, <2>4
<1>4. \A a \in OrderId : order'[a].status = "pending" /\ order'[a].purpose = "new_listing"
        => status'[order'[a].listing] = "awaiting_payment"
  <2> SUFFICES ASSUME NEW a \in OrderId, order'[a].status = "pending", order'[a].purpose = "new_listing"
               PROVE  status'[order'[a].listing] = "awaiting_payment"
    OBVIOUS
  <2>1. CASE a = o
    BY <1>2, <2>1
  <2>2. CASE a # o
    <3>1. order[a].listing \in Listing /\ status[order[a].listing] = "awaiting_payment"
      BY <1>2, <2>2, OrderCases DEF DemandInv, NoDuplicateDemand
    <3> QED
      BY <1>2, <2>2, <3>1
  <2> QED
    BY <2>1, <2>2
<1>5. ASSUME NEW a \in OrderId, NEW b \in OrderId, a # b,
             order'[a].listing = order'[b].listing, order'[a].purpose = order'[b].purpose
      PROVE  \/ order'[a].status = "none"
             \/ order'[a].purpose = "renewal" /\ {order'[a].status, order'[b].status} # {"pending"}
  <2>1. CASE a = o
    BY <1>2, <1>3, <1>5, <2>1
  <2>2. CASE b = o
    BY <1>2, <1>3, <1>5, <2>2
  <2>3. CASE a # o /\ b # o
    <3>1. order'[a] = order[a] /\ order'[b] = order[b]
      BY <1>2, <2>3
    <3> QED
      BY <1>5, <3>1 DEF DemandInv, NoDuplicateDemand
  <2> QED
    BY <2>1, <2>2, <2>3
<1>6. Placed \subseteq Placed'
  BY <1>2 DEF Placed
<1>7. NoDuplicateDemand'
  BY <1>4, <1>5 DEF NoDuplicateDemand
<1>8. \A p \in OrderId : order'[p].status = "paid" => order'[p].listing \in Placed'
  BY <1>2, <1>6 DEF DemandInv
<1> QED
  BY <1>6, <1>7, <1>8 DEF DemandInv, DemandKept

\* A rejection turns payments into refunds, and leaves what awaits payment alone.
LEMMA RefundedDemand ==
  ASSUME DemandInv, NEW l \in Listing, RefundRejected(l), UNCHANGED expiresAt,
         \A x \in Listing : status[x] = "awaiting_payment" => status'[x] = "awaiting_payment"
  PROVE  DemandKept
<1>1. \A o \in OrderId :
        /\ order'[o].listing = order[o].listing /\ order'[o].purpose = order[o].purpose
        /\ \/ order'[o].status = order[o].status
           \/ order[o].status = "paid" /\ order'[o].status = "refunded"
  <2> SUFFICES ASSUME NEW o \in OrderId
               PROVE  /\ order'[o].listing = order[o].listing /\ order'[o].purpose = order[o].purpose
                      /\ \/ order'[o].status = order[o].status
                         \/ order[o].status = "paid" /\ order'[o].status = "refunded"
    OBVIOUS
  <2>1. order'[o] = order[o] \/ (o \in PaidOrders(l) /\ order'[o] = [order[o] EXCEPT !.status = "refunded"])
    BY DEF RefundRejected
  <2>2. CASE o \in PaidOrders(l) /\ order'[o] = [order[o] EXCEPT !.status = "refunded"]
    <3>1. order[o].status = "paid" /\ order[o] \in Order
      BY <2>2, OrderCases DEF PaidOrders
    <3> QED
      BY <2>2, <3>1 DEF Order
  <2> QED
    BY <2>1, <2>2
<1>2. \A o \in OrderId : order'[o].status = "pending" => order[o].listing \in Listing
  BY <1>1, OrderCases
<1>3. NoDuplicateDemand'
  <2>1. \A a \in OrderId : order'[a].status = "pending" /\ order'[a].purpose = "new_listing"
          => status'[order'[a].listing] = "awaiting_payment"
    BY <1>1, <1>2 DEF DemandInv, NoDuplicateDemand
  <2>2. ASSUME NEW a \in OrderId, NEW b \in OrderId, a # b,
               order'[a].listing = order'[b].listing, order'[a].purpose = order'[b].purpose
        PROVE  \/ order'[a].status = "none"
               \/ order'[a].purpose = "renewal" /\ {order'[a].status, order'[b].status} # {"pending"}
    <3>0. order[a].listing = order[b].listing /\ order[a].purpose = order[b].purpose
      BY <1>1, <2>2
    <3>1. \/ order[a].status = "none"
          \/ order[a].purpose = "renewal" /\ {order[a].status, order[b].status} # {"pending"}
      BY <2>2, <3>0 DEF DemandInv, NoDuplicateDemand
    <3>2. order'[a].status = "pending" => order[a].status = "pending"
      BY <1>1
    <3>3. order'[b].status = "pending" => order[b].status = "pending"
      BY <1>1
    <3> QED
      BY <1>1, <3>1, <3>2, <3>3
  <2> QED
    BY <2>1, <2>2 DEF NoDuplicateDemand
<1>4. Placed \subseteq Placed'
  BY <1>1 DEF Placed
<1> QED
  BY <1>1, <1>3, <1>4 DEF DemandInv, DemandKept

\* A booked payment publishes its listing.  If it renews, the placement was paid before.
LEMMA BookedDemand ==
  ASSUME DemandInv, NEW o \in OrderId, order[o].status = "pending", BookPayment(o),
         order[o].purpose = "renewal" => expiresAt[order[o].listing] # 0,
         status' = [status EXCEPT ![order[o].listing] = "published"],
         NEW expiry \in Nat,
         expiresAt' \in {expiresAt, [expiresAt EXCEPT ![order[o].listing] = expiry]}
  PROVE  DemandKept
<1> DEFINE l == order[o].listing
<1>1. order[o] \in Order /\ l \in Listing /\ order[o].purpose \in Purpose
  BY OrderCases DEF Order
<1>2. /\ order'[o].status = "paid" /\ order'[o].listing = l /\ order'[o].purpose = order[o].purpose
      /\ \A p \in OrderId \ {o} : order'[p] = order[p]
  BY <1>1 DEF BookPayment, DemandInv, TypeOK, BillingTypeOK, Order
<1>3. /\ \A x \in Listing \ {l} : status'[x] = status[x] /\ expiresAt'[x] = expiresAt[x]
      /\ order[o].purpose = "renewal" => expiresAt[l] # 0
  BY <1>1 DEF DemandInv, TypeOK, ListingTypeOK
<1> HIDE DEF l
<1>4. Placed \subseteq Placed' /\ l \in Placed'
  <2>1. Placed \subseteq Placed'
    BY <1>2 DEF Placed
  <2>2. CASE order[o].purpose = "new_listing"
    BY <1>1, <1>2, <2>1, <2>2 DEF Placed
  <2>3. CASE order[o].purpose = "renewal"
    BY <1>1, <1>3, <2>1, <2>3 DEF DemandInv
  <2> QED
    BY <1>1, <2>1, <2>2, <2>3 DEF Purpose
<1>5. ASSUME NEW a \in OrderId, order'[a].status = "pending", order'[a].purpose = "new_listing"
      PROVE  status'[order'[a].listing] = "awaiting_payment"
  <2>1. a # o /\ order'[a] = order[a] /\ order[a].listing \in Listing
    BY <1>2, <1>5, OrderCases
  <2>2. order[a].listing # l
    <3>1. CASE order[o].purpose = "new_listing"
      <4>1. order[o].listing = l
        BY DEF l
      <4> QED
        BY <1>5, <2>1, <3>1, <4>1 DEF DemandInv, NoDuplicateDemand
    <3>2. CASE order[o].purpose = "renewal"
      <4>1. l \in Placed
        BY <1>1, <1>3, <3>2 DEF DemandInv
      <4> QED
        BY <1>1, <1>5, <2>1, <4>1, PlacedIsNotAsked
    <3> QED
      BY <1>1, <3>1, <3>2 DEF Purpose
  <2>3. status[order[a].listing] = "awaiting_payment"
    BY <1>5, <2>1 DEF DemandInv, NoDuplicateDemand
  <2> QED
    BY <1>3, <2>1, <2>2, <2>3
<1>6. ASSUME NEW a \in OrderId, NEW b \in OrderId, a # b,
             order'[a].listing = order'[b].listing, order'[a].purpose = order'[b].purpose
      PROVE  \/ order'[a].status = "none"
             \/ order'[a].purpose = "renewal" /\ {order'[a].status, order'[b].status} # {"pending"}
  <2>1. order[a].listing = order[b].listing /\ order[a].purpose = order[b].purpose
    <3>1. order[o].listing = l
      BY DEF l
    <3> QED
      BY <1>2, <1>6, <3>1
  <2>2. \/ order[a].status = "none"
        \/ order[a].purpose = "renewal" /\ {order[a].status, order[b].status} # {"pending"}
    BY <1>6, <2>1 DEF DemandInv, NoDuplicateDemand
  <2>3. CASE a = o
    BY <1>2, <2>2, <2>3
  <2>4. CASE b = o
    BY <1>2, <1>6, <2>2, <2>4
  <2>5. CASE a # o /\ b # o
    BY <1>2, <2>2, <2>5
  <2> QED
    BY <2>3, <2>4, <2>5
<1>7. NoDuplicateDemand'
  BY <1>5, <1>6 DEF NoDuplicateDemand
<1>8. \A x \in Listing : expiresAt'[x] # 0 => x \in Placed'
  BY <1>3, <1>4 DEF DemandInv
<1>9. \A p \in OrderId : order'[p].status = "paid" => order'[p].listing \in Placed'
  BY <1>2, <1>4 DEF DemandInv
<1> QED
  BY <1>7, <1>8, <1>9 DEF DemandKept

LEMMA SellerDemand ==
  ASSUME DemandInv, SellerNext
  PROVE  DemandKept
<1> USE DEF TypeOK, ListingTypeOK
<1>1. ASSUME NEW l \in Listing, UNCHANGED billingVars,
             \/ EditListing(l) \/ AddImage(l) \/ \E d \in Decision : DeleteImage(l, d)
             \/ SubmitListing(l) \/ MarkSold(l) \/ Archive(l) \/ RestoreDraft(l)
      PROVE  DemandKept
  <2>1. UNCHANGED order
    BY <1>1 DEF billingVars
  <2>2. UNCHANGED expiresAt
    BY <1>1 DEF EditListing, AddImage, DeleteImage, OwnerWrite, SubmitListing, MarkSold, Archive,
      RestoreDraft, OwnerTransition
  <2>3. \A x \in Listing : status[x] = "awaiting_payment" => status'[x] = "awaiting_payment"
    <3>1. CASE EditListing(l) \/ AddImage(l) \/ \E d \in Decision : DeleteImage(l, d)
      <4>1. DepublishMaterialEdit(l)
        BY <3>1 DEF EditListing, AddImage, DeleteImage, OwnerWrite
      <4> QED
        BY <4>1 DEF DepublishMaterialEdit, DemandInv
    <3>2. CASE SubmitListing(l)
      BY <3>2 DEF SubmitListing, DemandInv
    <3>3. CASE MarkSold(l) \/ Archive(l) \/ RestoreDraft(l)
      BY <3>3 DEF MarkSold, Archive, RestoreDraft, OwnerTransition, DemandInv
    <3> QED
      BY <1>1, <3>1, <3>2, <3>3
  <2> QED
    BY <2>1, <2>2, <2>3, QuietDemand
<1>2. ASSUME NEW l \in Listing, BeginRenewal(l), UNCHANGED listingVars PROVE DemandKept
  BY <1>2, QuietDemand DEF BeginRenewal, listingVars
<1>3. ASSUME NEW l \in Listing, CreateRenewal(l), UNCHANGED listingVars PROVE DemandKept
  <2>1. UNCHANGED <<expiresAt, status>>
    BY <1>3 DEF listingVars
  <2>2. CASE PendingRenewals(l) = {} /\ CreateOrder(l, "renewal", 1)
    BY <2>1, <2>2, OpenedDemand DEF Purpose
  <2>3. CASE UNCHANGED order
    BY <2>1, <2>3, QuietDemand
  <2> QED
    BY <1>3, <2>2, <2>3 DEF CreateRenewal
<1> QED
  BY <1>1, <1>2, <1>3 DEF SellerNext

LEMMA ModeratorDemand ==
  ASSUME DemandInv, ModeratorNext
  PROVE  DemandKept
<1>0. PICK m \in Moderator, l \in Listing :
        \/ (OpenReview(m, l) \/ ClaimListing(m, l)) /\ UNCHANGED billingVars
        \/ \E k \in 0..MaxImages : \/ Approve(m, l, k) \/ SendPaymentLink(m, l, k)
                                   \/ RequestChanges(m, l, k) \/ Reject(m, l, k) \/ Suspend(m, l, k)
  BY DEF ModeratorNext
<1>1. ASSUME NEW from \in SUBSET {"in_review", "published"}, NEW to, NEW k, Decide(m, l, k, from, to)
      PROVE  /\ \A x \in Listing : status[x] = "awaiting_payment" => status'[x] = "awaiting_payment"
             /\ status'[l] = to
  BY <1>1 DEF Decide, DemandInv, TypeOK, ListingTypeOK
<1>2. CASE (OpenReview(m, l) \/ ClaimListing(m, l)) /\ UNCHANGED billingVars
  BY <1>2, QuietDemand DEF OpenReview, ClaimListing, billingVars
<1>3. ASSUME NEW k \in 0..MaxImages, Approve(m, l, k) PROVE DemandKept
  <2>1. PICK expiry : /\ DecidePublish(m, l, k, expiry)
                      /\ expiry = expiresAt[l] \/ PaidOrders(l) # {}
    BY <1>3 DEF Approve, LatestPaid
  <2>2. Decide(m, l, k, {"in_review"}, "published") /\ expiresAt' = [expiresAt EXCEPT ![l] = expiry]
    BY <2>1 DEF DecidePublish
  <2>3. PaidOrders(l) # {} => l \in Placed
    BY DEF PaidOrders, DemandInv
  <2>4. \A x \in Listing : expiresAt'[x] # 0 => expiresAt[x] # 0 \/ x \in Placed
    BY <2>1, <2>2, <2>3 DEF DemandInv, TypeOK, ListingTypeOK
  <2>5. UNCHANGED order
    BY <1>3 DEF Approve, billingVars
  <2>6. \A x \in Listing : status[x] = "awaiting_payment" => status'[x] = "awaiting_payment"
    BY <1>1, <2>2
  <2> QED
    BY <2>4, <2>5, <2>6, QuietDemand
<1>4. ASSUME NEW k \in 0..MaxImages, RequestChanges(m, l, k) \/ Suspend(m, l, k) PROVE DemandKept
  <2>1. PICK from \in SUBSET {"in_review", "published"} : \E to : Decide(m, l, k, from, to)
    BY <1>4 DEF RequestChanges, DecideChanges, Suspend, DecideSuspend
  <2>2. UNCHANGED <<order, expiresAt>>
    BY <1>4 DEF RequestChanges, DecideChanges, Suspend, DecideSuspend, billingVars
  <2> QED
    BY <1>1, <2>1, <2>2, QuietDemand
<1>5. ASSUME NEW k \in 0..MaxImages, SendPaymentLink(m, l, k) PROVE DemandKept
  <2>1. Decide(m, l, k, {"in_review"}, "awaiting_payment") /\ UNCHANGED expiresAt
    BY <1>5 DEF SendPaymentLink, DecidePaymentLink
  <2>2. /\ status'[l] = "awaiting_payment"
        /\ \A x \in Listing : status[x] = "awaiting_payment" => status'[x] = "awaiting_payment"
    BY <1>1, <2>1
  <2>3. CASE UNCHANGED order
    BY <2>1, <2>2, <2>3, QuietDemand
  <2>4. ASSUME NEW lines \in 1..2, OrdersOf(l, "new_listing") = {}, CreateOrder(l, "new_listing", lines)
        PROVE  DemandKept
    BY <2>1, <2>2, <2>4, OpenedDemand DEF Purpose
  <2> QED
    BY <1>5, <2>3, <2>4 DEF SendPaymentLink, QuoteNewListing
<1>6. ASSUME NEW k \in 0..MaxImages, Reject(m, l, k) PROVE DemandKept
  <2>1. Decide(m, l, k, {"in_review", "published"}, "rejected") /\ UNCHANGED expiresAt /\ RefundRejected(l)
    BY <1>6 DEF Reject, DecideReject
  <2> QED
    BY <1>1, <2>1, RefundedDemand
<1> QED
  BY <1>0, <1>2, <1>3, <1>4, <1>5, <1>6

LEMMA StaffDemand ==
  ASSUME DemandInv, StaffNext
  PROVE  DemandKept
<1> USE DEF TypeOK, ListingTypeOK
<1>1. ASSUME NEW o \in OrderId, ProcessPayment(o) PROVE DemandKept
  <2>1. order[o].status = "pending"
    BY <1>1 DEF ProcessPayment
  <2>2. CASE PayTooEarly(o)
    BY <2>2, QuietDemand DEF PayTooEarly, FailPayment, listingVars
  <2>3. CASE PayNewListing(o) \/ PayRenewal(o)
    <3>1. /\ BookPayment(o)
          /\ order[o].purpose = "renewal" => expiresAt[order[o].listing] # 0
          /\ status' = [status EXCEPT ![order[o].listing] = "published"]
          /\ expiresAt' \in {expiresAt, [expiresAt EXCEPT ![order[o].listing] = now + Duration]}
      BY <2>3 DEF PayNewListing, PayRenewal, RenewalOpen, PublishPaid, PublishRenewed
    <3>2. now + Duration \in Nat
      BY BillingAssumption DEF DemandInv
    <3> QED
      BY <2>1, <3>1, <3>2, BookedDemand
  <2> QED
    BY <1>1, <2>2, <2>3 DEF ProcessPayment
<1>2. ASSUME NEW l \in Listing, PublishDirect(l), UNCHANGED billingVars PROVE DemandKept
  BY <1>2, QuietDemand DEF PublishDirect, billingVars, DemandInv
<1>3. ASSUME NEW n \in ImagePolicy, SetImagePolicy(n), UNCHANGED billingVars PROVE DemandKept
  BY <1>3, QuietDemand DEF SetImagePolicy, billingVars
<1> QED
  BY <1>1, <1>2, <1>3 DEF StaffNext, ConfirmPayment, ReplayPayment

LEMMA SchedulerDemand ==
  ASSUME DemandInv, SchedulerNext
  PROVE  DemandKept
<1>1. ASSUME NEW batch \in SUBSET Listing, ExpireDue(batch), UNCHANGED billingVars PROVE DemandKept
  BY <1>1, QuietDemand DEF ExpireDue, Due, billingVars, DemandInv, TypeOK, ListingTypeOK
<1>2. CASE Tick /\ UNCHANGED billingVars
  BY <1>2, QuietDemand DEF Tick, billingVars
<1> QED
  BY <1>1, <1>2 DEF SchedulerNext

THEOREM DemandInvariant == Spec => []DemandInv
<1>1. Init => DemandInv
  BY InitType DEF Init, ListingInit, BillingInit, DemandInv, NoDuplicateDemand, NoOrder
<1>2. DemandInv /\ TypeOK' /\ [Next]_vars => DemandInv'
  <2> SUFFICES ASSUME DemandInv, TypeOK', [Next]_vars PROVE DemandInv'
    OBVIOUS
  <2>1. CASE UNCHANGED vars
    BY <2>1, QuietDemand DEF vars, listingVars, billingVars, DemandInv, DemandKept
  <2>2. DemandKept
    BY <2>1, QuietDemand, SellerDemand, ModeratorDemand, StaffDemand, SchedulerDemand
    DEF Next, vars, listingVars, billingVars
  <2> QED
    BY <2>2 DEF DemandInv, DemandKept
<1> QED
  BY <1>1, <1>2, TypeCorrect, PTL DEF Spec

\* No seller is asked twice for a placement or a renewal, and none for a placement that no
\* longer awaits payment (create_generic_distribution_quote, create_renewal_order).
THEOREM SellersAreAskedOnce == Spec => []NoDuplicateDemand
<1>1. DemandInv => NoDuplicateDemand
  BY DEF DemandInv
<1> QED
  BY <1>1, DemandInvariant, PTL

-----------------------------------------------------------------------------
\* The refinement: every service is a step of Placement, or changes nothing the deal is about.

Live == [l \in Listing |-> status[l] = "published"]
ChargeOf(orderStatus) == CASE orderStatus = "none"     -> "none"
                           [] orderStatus = "pending"  -> "asked"
                           [] orderStatus = "paid"     -> "held"
                           [] orderStatus = "refunded" -> "returned"
Charge == [o \in OrderId |-> ChargeOf(order[o].status)]
Payer == [o \in OrderId |-> order[o].listing]
dealVars == <<Live, Charge, Payer>>

NothingPublished == \A l \in Listing : status'[l] = "published" => status[l] = "published"

LEMMA ChargeValues ==
  /\ ChargeOf("none") = "none" /\ ChargeOf("pending") = "asked"
  /\ ChargeOf("paid") = "held" /\ ChargeOf("refunded") = "returned"
  BY DEF ChargeOf

\* A service that leaves the orders alone and publishes nothing at most hides listings.
LEMMA HidingStep ==
  ASSUME UNCHANGED order, NothingPublished
  PROVE  Deal!Next
<1>1. PICK hidden \in SUBSET Listing : hidden = {l \in Listing : status'[l] # "published"}
  OBVIOUS
<1>2. Live' = [l \in Listing |-> Live[l] /\ l \notin hidden]
  BY <1>1 DEF Live, NothingPublished
<1>3. UNCHANGED <<Charge, Payer>>
  BY DEF Charge, Payer
<1>4. Deal!Hide(hidden)
  BY <1>2, <1>3 DEF Deal!Hide, Live, Charge, Payer, ChargeOf
<1> QED
  BY <1>4, Zenon DEF Deal!Next

LEMMA ShowingStep ==
  ASSUME TypeOK, UNCHANGED order, NEW l \in Listing, status' = [status EXCEPT ![l] = "published"]
  PROVE  Deal!Next
<1>1. Live' = [Live EXCEPT ![l] = TRUE]
  BY DEF Live, TypeOK, ListingTypeOK
<1>2. UNCHANGED <<Charge, Payer>>
  BY DEF Charge, Payer
<1>3. Deal!Show(l)
  BY <1>1, <1>2 DEF Deal!Show, Live, Charge, Payer, ChargeOf
<1> QED
  BY <1>3 DEF Deal!Next

LEMMA AskingStep ==
  ASSUME TypeOK, NEW l \in Listing, NEW purpose, NEW lines, CreateOrder(l, purpose, lines),
         Live' = Live
  PROVE  Deal!Next
<1>1. PICK o \in OrderId :
        /\ order[o] = NoOrder
        /\ order' = [order EXCEPT ![o] = [status |-> "pending", listing |-> l, purpose |-> purpose,
                                          lines |-> lines, paidAt |-> 0]]
  BY DEF CreateOrder
<1>2. /\ order[o].status = "none" /\ order'[o].status = "pending" /\ order'[o].listing = l
      /\ \A p \in OrderId \ {o} : order'[p] = order[p]
  BY <1>1 DEF NoOrder, TypeOK, BillingTypeOK
<1>3. Charge[o] = "none" /\ Charge' = [Charge EXCEPT ![o] = "asked"]
  BY <1>2, ChargeValues DEF Charge
<1>4. Payer' = [Payer EXCEPT ![o] = l]
  BY <1>2 DEF Payer
<1>5. Deal!Ask(o, l)
  BY <1>3, <1>4 DEF Deal!Ask, Live, Charge, Payer, ChargeOf
<1> QED
  BY <1>5 DEF Deal!Next

\* A booked payment publishes the listing of its order in the same transaction.
LEMMA SettlingStep ==
  ASSUME TypeOK, NEW o \in OrderId, order[o].status = "pending", BookPayment(o),
         status' = [status EXCEPT ![order[o].listing] = "published"]
  PROVE  Deal!Next
<1>1. order[o] \in Order /\ order[o].listing \in Listing
  BY PlacedOrder DEF Order, OrderStatus, TypeOK
<1>2. /\ order'[o].status = "paid" /\ order'[o].listing = order[o].listing
      /\ \A p \in OrderId \ {o} : order'[p] = order[p]
  BY <1>1 DEF BookPayment, TypeOK, BillingTypeOK, Order
<1>3. Charge[o] = "asked" /\ Charge' = [Charge EXCEPT ![o] = "held"]
  BY <1>2, ChargeValues DEF Charge
<1>4. Payer' = Payer /\ Payer[o] = order[o].listing
  BY <1>2 DEF Payer
<1>5. Live' = [Live EXCEPT ![order[o].listing] = TRUE]
  BY <1>1 DEF Live, TypeOK, ListingTypeOK
<1>6. Deal!Settle(o)
  BY <1>3, <1>4, <1>5 DEF Deal!Settle, Live, Charge, Payer, ChargeOf
<1> QED
  BY <1>6 DEF Deal!Next

\* A rejection returns everything held for the listing; the ledger's agreement is needed to
\* know that no paid order is passed over.
LEMMA RefusingStep ==
  ASSUME MoneyInv, NEW l \in Listing, RefundRejected(l), status' = [status EXCEPT ![l] = "rejected"]
  PROVE  Deal!Next
<1>1. \A o \in PaidOrders(l) : refundEvent[o] = "none"
  BY DEF PaidOrders, MoneyInv, LedgerAgrees, TypeOK, BillingTypeOK
<1>2. \A o \in OrderId :
        order'[o] = IF o \in PaidOrders(l) THEN [order[o] EXCEPT !.status = "refunded"] ELSE order[o]
  BY <1>1 DEF RefundRejected
<1>3. \A o \in PaidOrders(l) : order'[o].status = "refunded" /\ order'[o].listing = order[o].listing
  BY <1>2, PlacedOrder DEF PaidOrders, Order, OrderStatus, MoneyInv, TypeOK
<1>4. Charge' = [o \in OrderId |-> IF Charge[o] = "held" /\ Payer[o] = l THEN "returned"
                                                                        ELSE Charge[o]]
  <2>1. ASSUME NEW o \in OrderId
        PROVE  Charge'[o] = IF Charge[o] = "held" /\ Payer[o] = l THEN "returned" ELSE Charge[o]
    <3>0. order[o].status \in {"none", "pending", "paid", "refunded"}
      BY DEF MoneyInv, TypeOK, BillingTypeOK, Order, OrderStatus, NoOrder
    <3>1. CASE o \in PaidOrders(l)
      BY <3>1, <1>3, ChargeValues DEF Charge, Payer, PaidOrders
    <3>2. CASE o \notin PaidOrders(l)
      <4>1. order'[o] = order[o] /\ Charge'[o] = Charge[o]
        BY <3>2, <1>2 DEF Charge
      <4>2. ~(Charge[o] = "held" /\ Payer[o] = l)
        BY <3>0, <3>2, ChargeValues DEF Charge, Payer, PaidOrders
      <4> QED
        BY <4>1, <4>2
    <3> QED
      BY <3>1, <3>2
  <2> QED
    BY <2>1 DEF Charge
<1>5. Payer' = Payer
  BY <1>2, <1>3 DEF Payer
<1>6. Live' = [Live EXCEPT ![l] = FALSE]
  BY DEF Live, MoneyInv, TypeOK, ListingTypeOK
<1>7. Deal!Refuse(l)
  BY <1>4, <1>5, <1>6 DEF Deal!Refuse, Live, Charge, Payer, ChargeOf
<1> QED
  BY <1>7 DEF Deal!Next

LEMMA SellerDeal ==
  ASSUME MoneyInv, SellerNext
  PROVE  Deal!Next \/ UNCHANGED dealVars
<1>1. ASSUME NEW l \in Listing, UNCHANGED billingVars,
             \/ EditListing(l) \/ AddImage(l) \/ \E d \in Decision : DeleteImage(l, d)
             \/ SubmitListing(l) \/ MarkSold(l) \/ Archive(l) \/ RestoreDraft(l)
      PROVE  UNCHANGED order /\ NothingPublished
  <2>1. UNCHANGED order
    BY <1>1 DEF billingVars
  <2>2. CASE EditListing(l) \/ AddImage(l) \/ \E d \in Decision : DeleteImage(l, d)
    <3>1. DepublishMaterialEdit(l)
      BY <2>2 DEF EditListing, AddImage, DeleteImage, OwnerWrite
    <3> QED
      BY <2>1, <3>1 DEF DepublishMaterialEdit, NothingPublished, MoneyInv, TypeOK, ListingTypeOK
  <2>3. CASE SubmitListing(l)
    BY <2>1, <2>3 DEF SubmitListing, NothingPublished, MoneyInv, TypeOK, ListingTypeOK
  <2>4. CASE MarkSold(l) \/ Archive(l) \/ RestoreDraft(l)
    BY <2>1, <2>4 DEF MarkSold, Archive, RestoreDraft, OwnerTransition, NothingPublished, MoneyInv,
      TypeOK, ListingTypeOK
  <2> QED
    BY <1>1, <2>2, <2>3, <2>4
<1>2. ASSUME NEW l \in Listing, BeginRenewal(l), UNCHANGED listingVars
      PROVE  UNCHANGED order /\ NothingPublished
  BY <1>2 DEF BeginRenewal, listingVars, NothingPublished
<1>3. ASSUME NEW l \in Listing, CreateRenewal(l), UNCHANGED listingVars
      PROVE  Deal!Next
  <2>1. Live' = Live /\ NothingPublished
    BY <1>3 DEF listingVars, Live, NothingPublished
  <2>2. CASE CreateOrder(l, "renewal", 1)
    BY <2>1, <2>2, AskingStep DEF MoneyInv
  <2>3. CASE UNCHANGED order
    BY <2>1, <2>3, HidingStep
  <2> QED
    BY <1>3, <2>2, <2>3 DEF CreateRenewal
<1> QED
  BY <1>1, <1>2, <1>3, HidingStep DEF SellerNext

LEMMA ModeratorDeal ==
  ASSUME MoneyInv, ModeratorNext
  PROVE  Deal!Next \/ UNCHANGED dealVars
<1>1. ASSUME NEW m \in Moderator, NEW l \in Listing, UNCHANGED billingVars,
             OpenReview(m, l) \/ ClaimListing(m, l)
      PROVE  Deal!Next
  BY <1>1, HidingStep DEF OpenReview, ClaimListing, billingVars, NothingPublished
<1>2. ASSUME NEW m \in Moderator, NEW l \in Listing, NEW k \in 0..MaxImages, Approve(m, l, k)
      PROVE  Deal!Next
  <2>1. status' = [status EXCEPT ![l] = "published"] /\ UNCHANGED order
    BY <1>2 DEF Approve, DecidePublish, Decide, billingVars
  <2> QED
    BY <2>1, ShowingStep DEF MoneyInv
<1>3. ASSUME NEW m \in Moderator, NEW l \in Listing, NEW k \in 0..MaxImages, SendPaymentLink(m, l, k)
      PROVE  Deal!Next
  <2>1. status[l] = "in_review" /\ status' = [status EXCEPT ![l] = "awaiting_payment"]
    BY <1>3 DEF SendPaymentLink, DecidePaymentLink, Decide
  <2>2. Live' = Live /\ NothingPublished
    BY <2>1 DEF Live, NothingPublished, MoneyInv, TypeOK, ListingTypeOK
  <2>3. CASE UNCHANGED order
    BY <2>2, <2>3, HidingStep
  <2>4. CASE \E lines \in 1..2 : CreateOrder(l, "new_listing", lines)
    BY <2>2, <2>4, AskingStep DEF MoneyInv
  <2> QED
    BY <1>3, <2>3, <2>4 DEF SendPaymentLink, QuoteNewListing
<1>4. ASSUME NEW m \in Moderator, NEW l \in Listing, NEW k \in 0..MaxImages,
             RequestChanges(m, l, k) \/ Suspend(m, l, k)
      PROVE  Deal!Next
  <2>1. /\ \/ status' = [status EXCEPT ![l] = "changes_requested"]
           \/ status' = [status EXCEPT ![l] = "suspended"]
        /\ UNCHANGED order
    BY <1>4 DEF RequestChanges, Suspend, DecideChanges, DecideSuspend, Decide, billingVars
  <2>2. NothingPublished
    BY <2>1 DEF NothingPublished, MoneyInv, TypeOK, ListingTypeOK
  <2> QED
    BY <2>1, <2>2, HidingStep
<1>5. ASSUME NEW m \in Moderator, NEW l \in Listing, NEW k \in 0..MaxImages, Reject(m, l, k)
      PROVE  Deal!Next
  BY <1>5, RefusingStep DEF Reject, DecideReject, Decide
<1> QED
  BY <1>1, <1>2, <1>3, <1>4, <1>5 DEF ModeratorNext

LEMMA StaffDeal ==
  ASSUME MoneyInv, StaffNext
  PROVE  Deal!Next \/ UNCHANGED dealVars
<1>1. ASSUME NEW o \in OrderId, ProcessPayment(o)
      PROVE  Deal!Next
  <2>1. CASE PayNewListing(o) \/ PayRenewal(o)
    BY <1>1, <2>1, SettlingStep
    DEF ProcessPayment, PayNewListing, PayRenewal, PublishPaid, PublishRenewed, MoneyInv
  <2>2. CASE PayTooEarly(o)
    BY <2>2, HidingStep DEF PayTooEarly, FailPayment, listingVars, NothingPublished
  <2> QED
    BY <1>1, <2>1, <2>2 DEF ProcessPayment
<1>2. ASSUME NEW l \in Listing, PublishDirect(l), UNCHANGED billingVars PROVE Deal!Next
  BY <1>2, ShowingStep DEF PublishDirect, billingVars, MoneyInv
<1>3. ASSUME NEW n \in ImagePolicy, SetImagePolicy(n), UNCHANGED billingVars PROVE Deal!Next
  BY <1>3, HidingStep DEF SetImagePolicy, billingVars, NothingPublished
<1> QED
  BY <1>1, <1>2, <1>3 DEF StaffNext, ConfirmPayment, ReplayPayment

LEMMA SchedulerDeal ==
  ASSUME MoneyInv, SchedulerNext
  PROVE  Deal!Next \/ UNCHANGED dealVars
<1>1. UNCHANGED order /\ NothingPublished
  BY DEF SchedulerNext, ExpireDue, Tick, billingVars, NothingPublished
<1> QED
  BY <1>1, HidingStep

\* The marketplace implements the deal: a charge is taken only in the transaction that publishes
\* its listing, returned only when the listing is rejected, and then in full.
THEOREM MarketplaceKeepsDeal == Spec => PlacementDeal
<1>1. Init => Deal!Init
  <2> SUFFICES ASSUME Init PROVE Deal!Init
    OBVIOUS
  <2>1. Live = [l \in Listing |-> FALSE]
    BY DEF Init, ListingInit, Live
  <2>2. \A o \in OrderId : order[o].status = "none" /\ order[o].listing = NoListing
    BY DEF Init, BillingInit, NoOrder
  <2>3. Charge = [o \in OrderId |-> "none"] /\ Payer = [o \in OrderId |-> NoListing]
    BY <2>2, ChargeValues DEF Charge, Payer
  <2> QED
    BY <2>1, <2>3 DEF Deal!Init, Live, Charge, Payer, ChargeOf
<1>2. MoneyInv /\ [Next]_vars => [Deal!Next]_dealVars
  <2> SUFFICES ASSUME MoneyInv, [Next]_vars PROVE Deal!Next \/ UNCHANGED dealVars
    OBVIOUS
  <2>1. CASE UNCHANGED vars
    BY <2>1 DEF vars, listingVars, billingVars, dealVars, Live, Charge, Payer
  <2> QED
    BY <2>1, SellerDeal, ModeratorDeal, StaffDeal, SchedulerDeal DEF Next
<1> QED
  BY <1>1, <1>2, MoneyInvariant, PTL DEF Spec, PlacementDeal, Deal!Spec, dealVars, Live, Charge,
    Payer, ChargeOf

-----------------------------------------------------------------------------
\* How far the disagreements between the documents and the code reach.

\* What buyers are shown, now or as a sold or expired listing, is not what its approver saw.
Shown(l) == status[l] \in {"published", "expired", "sold"}
Unseen(l) == Shown(l) /\ content[l] # reviewed[l]

\* What a step that takes no payment does to a listing: nothing a buyer or an approver could
\* tell, or it hides it, or approves what its approver saw, or ends its publication.
RowKept(l) == status'[l] = status[l] /\ content'[l] = content[l] /\ reviewed'[l] = reviewed[l]
Waits(l) == status[l] \in {"suspended", "awaiting_payment"}

Turn(l) ==
  \/ RowKept(l)
  \/ ~ Waits(l) /\ ~ Shown(l)' /\ status'[l] # "awaiting_payment"
  \/ ~ Waits(l) /\ status'[l] \in {"published", "awaiting_payment"} /\ content'[l] = reviewed'[l]
  \/ ~ Waits(l) /\ Shown(l) /\ Shown(l)' /\ content'[l] = content[l] /\ reviewed'[l] = reviewed[l]

\* What it does to the orders.
Bookkeeping ==
  \/ UNCHANGED order
  \/ \E l \in Listing : status[l] \in {"expired", "published"} /\ CreateOrder(l, "renewal", 1)
  \/ \E l \in Listing, lines \in 1..2 : CreateOrder(l, "new_listing", lines)
  \/ \E l \in Listing : RefundRejected(l)

Unpaid ==
  /\ \A l \in Listing : Turn(l)
  /\ Bookkeeping
  /\ \A l \in Listing : status'[l] = "awaiting_payment" /\ status[l] # "awaiting_payment"
                          => OrdersOf(l, "new_listing")' # {}

\* The payment of order o.
Paid(o) ==
  /\ order[o].status = "pending"
  /\ order' = [order EXCEPT ![o].status = "paid", ![o].paidAt = now]
  /\ status' = [status EXCEPT ![order[o].listing] = "published"]
  /\ UNCHANGED <<content, reviewed>>
  /\ \/ order[o].purpose = "new_listing" /\ status[order[o].listing] = "awaiting_payment"
     \/ order[o].purpose = "renewal" /\ ~ edited[order[o].listing]

LEMMA OthersTurn ==
  ASSUME TypeOK, NEW l \in Listing,
         \A x \in Listing \ {l} : RowKept(x),
         Turn(l), status'[l] = "awaiting_payment" => status[l] = "awaiting_payment",
         UNCHANGED order
  PROVE  Unpaid
  BY DEF Unpaid, Turn, Bookkeeping, RowKept

LEMMA NothingTurns ==
  ASSUME UNCHANGED <<status, content, reviewed>>, Bookkeeping
  PROVE  Unpaid
  BY DEF Unpaid, Turn, RowKept

LEMMA SellerTurns ==
  ASSUME ReviewInv, SellerNext
  PROVE  Unpaid
<1> USE DEF ReviewInv, TypeOK, ListingTypeOK
<1>1. ASSUME NEW l \in Listing, OwnerWrite(l), UNCHANGED billingVars PROVE Unpaid
  <2>1. UNCHANGED <<order, reviewed>> /\ status[l] \in OwnerEditable /\ content' = [content EXCEPT ![l] = @ + 1]
    BY <1>1 DEF OwnerWrite, billingVars
  <2>2. status' = [status EXCEPT ![l] = IF @ = "published" THEN "in_review" ELSE @]
    BY <1>1 DEF OwnerWrite, DepublishMaterialEdit
  <2>3. Turn(l) /\ (status'[l] = "awaiting_payment" => status[l] = "awaiting_payment")
    BY <2>1, <2>2 DEF Turn, Waits, Shown, OwnerEditable
  <2>4. \A x \in Listing \ {l} : RowKept(x)
    BY <2>1, <2>2 DEF RowKept
  <2> QED
    BY <2>1, <2>3, <2>4, OthersTurn
<1>2. ASSUME NEW l \in Listing, NEW from, NEW to \in {"archived", "draft", "sold", "in_review"}, UNCHANGED billingVars,
             status[l] \in from, from \subseteq Status \ {"suspended", "awaiting_payment"},
             to = "sold" => from = {"published"},
             status' = [status EXCEPT ![l] = to], UNCHANGED <<content, reviewed>>
      PROVE  Unpaid
  <2>1. Turn(l) /\ (status'[l] = "awaiting_payment" => status[l] = "awaiting_payment")
    BY <1>2 DEF Turn, Waits, Shown
  <2>2. UNCHANGED order /\ \A x \in Listing \ {l} : RowKept(x)
    BY <1>2 DEF RowKept, billingVars
  <2> QED
    BY <2>1, <2>2, OthersTurn
<1>3. ASSUME NEW l \in Listing, UNCHANGED billingVars,
             SubmitListing(l) \/ MarkSold(l) \/ Archive(l) \/ RestoreDraft(l)
      PROVE  Unpaid
  <2>1. CASE SubmitListing(l)
    <3>1. {"draft", "changes_requested"} \subseteq Status \ {"suspended", "awaiting_payment"}
      BY DEF Status
    <3> QED
      BY <1>2, <1>3, <2>1, <3>1 DEF SubmitListing
  <2>2. CASE MarkSold(l)
    BY <1>2, <1>3, <2>2 DEF MarkSold, OwnerTransition, Status
  <2>3. CASE Archive(l)
    <3>1. {"draft", "changes_requested", "rejected", "sold", "expired"} \subseteq Status \ {"suspended", "awaiting_payment"}
      BY DEF Status
    <3> QED
      BY <1>2, <1>3, <2>3, <3>1 DEF Archive, OwnerTransition
  <2>4. CASE RestoreDraft(l)
    BY <1>2, <1>3, <2>4 DEF RestoreDraft, OwnerTransition, Status
  <2> QED
    BY <1>3, <2>1, <2>2, <2>3, <2>4
<1>4. ASSUME NEW l \in Listing, UNCHANGED listingVars, BeginRenewal(l) \/ CreateRenewal(l) PROVE Unpaid
  <2>1. Bookkeeping
    BY <1>4 DEF BeginRenewal, CreateRenewal, Bookkeeping
  <2> QED
    BY <1>4, <2>1, NothingTurns DEF listingVars
<1> QED
  BY <1>1, <1>3, <1>4 DEF SellerNext, EditListing, AddImage, DeleteImage

\* A quote leaves a new-listing order behind.
LEMMA QuoteLeavesOrder ==
  ASSUME TypeOK, NEW l \in Listing, QuoteNewListing(l)
  PROVE  OrdersOf(l, "new_listing")' # {}
<1>1. CASE OrdersOf(l, "new_listing") # {} /\ UNCHANGED order
  BY <1>1 DEF OrdersOf
<1>2. ASSUME NEW lines \in 1..2, CreateOrder(l, "new_listing", lines) PROVE OrdersOf(l, "new_listing")' # {}
  <2>1. PICK o \in OrderId : order' = [order EXCEPT ![o] = [status |-> "pending", listing |-> l,
                                  purpose |-> "new_listing", lines |-> lines, paidAt |-> 0]]
    BY <1>2 DEF CreateOrder
  <2>2. order'[o] = [status |-> "pending", listing |-> l, purpose |-> "new_listing", lines |-> lines, paidAt |-> 0]
    BY <2>1 DEF TypeOK, BillingTypeOK
  <2>3. o \in OrdersOf(l, "new_listing")'
    BY <2>2 DEF OrdersOf
  <2> QED
    BY <2>3
<1> QED
  BY <1>1, <1>2 DEF QuoteNewListing

LEMMA ModeratorTurns ==
  ASSUME ReviewInv, ModeratorNext
  PROVE  Unpaid
<1> USE DEF ReviewInv, TypeOK, ListingTypeOK
<1>0. PICK m \in Moderator, l \in Listing :
        \/ (OpenReview(m, l) \/ ClaimListing(m, l)) /\ UNCHANGED billingVars
        \/ \E k \in 0..MaxImages : \/ Approve(m, l, k) \/ SendPaymentLink(m, l, k)
                                   \/ RequestChanges(m, l, k) \/ Reject(m, l, k) \/ Suspend(m, l, k)
  BY DEF ModeratorNext
<1>1. CASE (OpenReview(m, l) \/ ClaimListing(m, l)) /\ UNCHANGED billingVars
  BY <1>1, NothingTurns DEF OpenReview, ClaimListing, billingVars, Bookkeeping
<1>2. ASSUME NEW k, NEW from \in SUBSET {"in_review", "published"}, NEW to, Decide(m, l, k, from, to)
      PROVE  /\ status' = [status EXCEPT ![l] = to] /\ status'[l] = to /\ ~ Waits(l) /\ UNCHANGED content
             /\ Submits(m, l) /\ status[l] \in {"in_review", "published"}
  BY <1>2 DEF Decide, Waits
<1>3. ASSUME NEW k \in 0..MaxImages, Approve(m, l, k) \/ SendPaymentLink(m, l, k) PROVE Unpaid
  <2>1. PICK to \in {"published", "awaiting_payment"} : Decide(m, l, k, {"in_review"}, to)
    BY <1>3 DEF Approve, DecidePublish, SendPaymentLink, DecidePaymentLink
  <2>2. reviewed' = [reviewed EXCEPT ![l] = form[m].seen]
    BY <1>3 DEF Approve, SendPaymentLink, DecidePublish, DecidePaymentLink
  <2>3. /\ status' = [status EXCEPT ![l] = to] /\ status'[l] = to /\ ~ Waits(l) /\ UNCHANGED content
        /\ form[m].seen = content[l]
    BY <1>2, <2>1, DecidedContentSeen
  <2>4. \A x \in Listing : Turn(x)
    <3>1. Turn(l)
      BY <2>2, <2>3 DEF Turn
    <3>2. \A x \in Listing \ {l} : RowKept(x)
      BY <2>2, <2>3 DEF RowKept
    <3> QED
      BY <3>1, <3>2 DEF Turn
  <2>5. CASE Approve(m, l, k)
    <3>1. UNCHANGED order /\ to = "published"
      <4>1. Decide(m, l, k, {"in_review"}, "published") /\ UNCHANGED order
        BY <2>5 DEF Approve, DecidePublish, billingVars
      <4> QED
        BY <1>2, <2>3, <4>1
    <3> QED
      BY <2>3, <2>4, <3>1 DEF Unpaid, Bookkeeping
  <2>6. CASE SendPaymentLink(m, l, k)
    <3>1. QuoteNewListing(l)
      BY <2>6 DEF SendPaymentLink
    <3>2. Bookkeeping
      BY <3>1 DEF QuoteNewListing, Bookkeeping
    <3>3. OrdersOf(l, "new_listing")' # {}
      BY <3>1, QuoteLeavesOrder
    <3> QED
      BY <2>3, <2>4, <3>2, <3>3 DEF Unpaid
  <2> QED
    BY <1>3, <2>5, <2>6
<1>4. ASSUME NEW k \in 0..MaxImages, RequestChanges(m, l, k) \/ Reject(m, l, k) \/ Suspend(m, l, k) PROVE Unpaid
  <2>1. PICK from \in SUBSET {"in_review", "published"}, to \in {"changes_requested", "rejected", "suspended"} :
          Decide(m, l, k, from, to)
    <3>1. CASE RequestChanges(m, l, k)
      BY <3>1 DEF RequestChanges, DecideChanges
    <3>2. CASE Reject(m, l, k)
      BY <3>2 DEF Reject, DecideReject
    <3>3. CASE Suspend(m, l, k)
      BY <3>3 DEF Suspend, DecideSuspend
    <3> QED
      BY <1>4, <3>1, <3>2, <3>3
  <2>2. UNCHANGED reviewed /\ Bookkeeping
    BY <1>4 DEF RequestChanges, Reject, Suspend, DecideChanges, DecideReject, DecideSuspend, billingVars, Bookkeeping
  <2>3. status' = [status EXCEPT ![l] = to] /\ status'[l] = to /\ ~ Waits(l) /\ UNCHANGED content
    BY <1>2, <2>1
  <2>4. Turn(l) /\ \A x \in Listing \ {l} : RowKept(x)
    BY <2>2, <2>3 DEF Turn, Shown, RowKept
  <2> QED
    BY <2>2, <2>3, <2>4 DEF Unpaid, Turn, RowKept
<1> QED
  BY <1>0, <1>1, <1>3, <1>4

LEMMA StaffTurns ==
  ASSUME ReviewInv, StaffNext
  PROVE  Unpaid \/ \E o \in OrderId : Paid(o)
<1> USE DEF ReviewInv, TypeOK, ListingTypeOK
<1>1. ASSUME NEW o \in OrderId, ProcessPayment(o) PROVE Unpaid \/ Paid(o)
  <2>1. CASE PayTooEarly(o)
    BY <2>1, NothingTurns DEF PayTooEarly, FailPayment, listingVars, Bookkeeping
  <2>2. CASE PayNewListing(o)
    BY <1>1, <2>2 DEF ProcessPayment, PayNewListing, PublishPaid, BookPayment, Paid
  <2>3. CASE PayRenewal(o)
    BY <1>1, <2>3 DEF ProcessPayment, PayRenewal, PublishRenewed, RenewalOpen, BookPayment, Paid
  <2> QED
    BY <1>1, <2>1, <2>2, <2>3 DEF ProcessPayment
<1>2. ASSUME NEW l \in Listing, PublishDirect(l), UNCHANGED billingVars PROVE Unpaid
  <2>1. Turn(l) /\ status'[l] = "published"
    BY <1>2 DEF PublishDirect, Turn, Waits
  <2>2. UNCHANGED order /\ \A x \in Listing \ {l} : RowKept(x)
    BY <1>2 DEF PublishDirect, RowKept, billingVars
  <2> QED
    BY <2>1, <2>2, OthersTurn
<1>3. ASSUME NEW n \in ImagePolicy, SetImagePolicy(n), UNCHANGED billingVars PROVE Unpaid
  BY <1>3, NothingTurns DEF SetImagePolicy, billingVars, Bookkeeping
<1> QED
  BY <1>1, <1>2, <1>3 DEF StaffNext, ConfirmPayment, ReplayPayment

LEMMA SchedulerTurns ==
  ASSUME ReviewInv, SchedulerNext
  PROVE  Unpaid
<1> USE DEF ReviewInv, TypeOK, ListingTypeOK
<1>1. ASSUME NEW batch \in SUBSET Listing, ExpireDue(batch), UNCHANGED billingVars PROVE Unpaid
  <2>1. \A l \in Listing : Turn(l) /\ (status'[l] = "awaiting_payment" => status[l] = "awaiting_payment")
    BY <1>1 DEF ExpireDue, Due, Turn, Waits, Shown, RowKept
  <2> QED
    BY <1>1, <2>1 DEF Unpaid, Bookkeeping, billingVars
<1>2. CASE Tick /\ UNCHANGED billingVars
  BY <1>2, NothingTurns DEF Tick, billingVars, Bookkeeping
<1> QED
  BY <1>1, <1>2 DEF SchedulerNext

LEMMA EveryTurn ==
  ASSUME ReviewInv, [Next]_vars
  PROVE  Unpaid \/ \E o \in OrderId : Paid(o)
<1>1. CASE UNCHANGED vars
  BY <1>1, NothingTurns DEF vars, listingVars, billingVars, Bookkeeping
<1> QED
  BY <1>1, SellerTurns, ModeratorTurns, StaffTurns, SchedulerTurns DEF Next

\* Orders are never lost, nor is it forgotten that one was paid; and renewals are opened only
\* of listings that are published or expired.
LEMMA OrdersLast ==
  ASSUME ReviewInv, [Next]_vars, NEW l \in Listing
  PROVE  /\ OrdersOf(l, "new_listing") \subseteq OrdersOf(l, "new_listing")'
         /\ l \in Placed => l \in Placed'
         /\ status[l] \notin {"expired", "published"} => PendingRenewals(l)' \subseteq PendingRenewals(l)
<1> DEFINE Kept(o) == /\ order[o].status # "none" => /\ order'[o].status # "none"
                                                     /\ order'[o].listing = order[o].listing
                                                     /\ order'[o].purpose = order[o].purpose
                      /\ order[o].status \in {"paid", "refunded"} => order'[o].status \in {"paid", "refunded"}
           Opened(o) == order'[o].status = "pending" /\ order'[o].purpose = "renewal" /\ order'[o].listing = l
                          => order'[o] = order[o] \/ status[l] \in {"expired", "published"}
<1>1. ASSUME NEW x \in Listing, NEW purpose \in Purpose, NEW lines \in 1..2, CreateOrder(x, purpose, lines),
             purpose = "renewal" => status[x] \in {"expired", "published"}
      PROVE  \A o \in OrderId : Kept(o) /\ Opened(o)
  <2>1. PICK p \in OrderId : order[p] = NoOrder /\ order' = [order EXCEPT ![p] = [status |-> "pending", listing |-> x,
                                  purpose |-> purpose, lines |-> lines, paidAt |-> 0]]
    BY <1>1 DEF CreateOrder
  <2>2. order[p].status = "none"
        /\ order'[p] = [status |-> "pending", listing |-> x, purpose |-> purpose, lines |-> lines, paidAt |-> 0]
        /\ \A o \in OrderId \ {p} : order'[o] = order[o]
    BY <2>1 DEF NoOrder, ReviewInv, TypeOK, BillingTypeOK
  <2> QED
    BY <1>1, <2>2
<1>2. ASSUME NEW x \in Listing, RefundRejected(x) PROVE \A o \in OrderId : Kept(o) /\ Opened(o)
  <2>1. \A o \in OrderId : order'[o] \in {order[o], [order[o] EXCEPT !.status = "refunded"]}
                           /\ (order'[o] # order[o] => order[o].status = "paid")
    BY <1>2 DEF RefundRejected, PaidOrders
  <2>2. ASSUME NEW o \in OrderId, order[o].status = "paid" PROVE order[o] \in Order
    BY <2>2, PlacedOrder DEF OrderStatus, ReviewInv, TypeOK
  <2>3. ASSUME NEW o \in OrderId, order'[o] # order[o] PROVE Kept(o) /\ Opened(o)
    BY <2>1, <2>2, <2>3 DEF Order
  <2>4. ASSUME NEW o \in OrderId, order'[o] = order[o] PROVE Kept(o) /\ Opened(o)
    BY <2>4
  <2> QED
    BY <2>3, <2>4
<1>3. ASSUME NEW p \in OrderId, Paid(p) PROVE \A o \in OrderId : Kept(o) /\ Opened(o)
  <2>1. order[p] \in Order
    BY <1>3, PlacedOrder DEF Paid, OrderStatus, ReviewInv, TypeOK
  <2>2. /\ order'[p] = [order[p] EXCEPT !.status = "paid", !.paidAt = now]
        /\ \A o \in OrderId \ {p} : order'[o] = order[o]
    BY <1>3 DEF Paid, ReviewInv, TypeOK, BillingTypeOK
  <2>3. order[p].status = "pending" /\ order'[p].status = "paid" /\ order'[p].listing = order[p].listing
        /\ order'[p].purpose = order[p].purpose
    <3>1. order[p].status = "pending"
      BY <1>3 DEF Paid
    <3> QED
      BY <3>1, <2>1, <2>2 DEF Order
  <2>4. Kept(p) /\ Opened(p)
    BY <2>3
  <2> QED
    BY <2>2, <2>4
<1>4. \A o \in OrderId : Kept(o) /\ Opened(o)
  <2>1. CASE UNCHANGED order
    BY <2>1
  <2>2. CASE Bookkeeping /\ ~ UNCHANGED order
    BY <1>1, <1>2, <2>2 DEF Bookkeeping, Purpose
  <2> QED
    BY <1>3, <2>1, <2>2, EveryTurn DEF Unpaid
<1>5. OrdersOf(l, "new_listing") \subseteq OrdersOf(l, "new_listing")'
  BY <1>4 DEF OrdersOf
<1>6. l \in Placed => l \in Placed'
  <2> SUFFICES ASSUME l \in Placed PROVE l \in Placed'
    OBVIOUS
  <2>1. PICK o \in OrderId : /\ order[o].listing = l /\ order[o].purpose = "new_listing"
                             /\ order[o].status \in {"paid", "refunded"}
    BY DEF Placed
  <2>2. /\ order'[o].listing = l /\ order'[o].purpose = "new_listing"
        /\ order'[o].status \in {"paid", "refunded"}
    BY <1>4, <2>1
  <2> QED
    BY <2>2 DEF Placed
<1>7. status[l] \notin {"expired", "published"} => PendingRenewals(l)' \subseteq PendingRenewals(l)
  BY <1>4 DEF PendingRenewals, OrdersOf
<1> QED
  BY <1>5, <1>6, <1>7

RenewalPaid(l) == \E o \in PendingRenewals(l) : order'[o].status = "paid"

\* The payment of a renewal is one of the listing's.
LEMMA PaidRenewal ==
  ASSUME ReviewInv, NEW o \in OrderId, Paid(o), order[o].purpose = "renewal", NEW l \in Listing, order[o].listing = l
  PROVE  RenewalPaid(l) /\ ~ edited[l]
<1>1. o \in PendingRenewals(l)
  BY DEF Paid, PendingRenewals, OrdersOf
<1>2. order'[o].status = "paid"
  BY PlacedOrder DEF Paid, OrderStatus, Order, ReviewInv, TypeOK, BillingTypeOK
<1> QED
  BY <1>1, <1>2 DEF Paid, RenewalPaid

\* A listing that waits, suspended or to be paid for, moves by a payment alone.
LEMMA WaitingMoves ==
  ASSUME ReviewInv, [Next]_vars, NEW l \in Listing, Waits(l)
  PROVE  \/ RowKept(l)
         \/ status'[l] = "published" /\ RenewalPaid(l)
         \/ /\ status[l] = "awaiting_payment"
            /\ \E o \in OrderId : /\ order[o].status = "pending" /\ order[o].listing = l
                                  /\ order[o].purpose = "new_listing"
<1>1. CASE Unpaid
  BY <1>1 DEF Unpaid, Turn
<1>2. ASSUME NEW o \in OrderId, Paid(o), order[o].listing = l, order[o].purpose = "renewal"
      PROVE  status'[l] = "published" /\ RenewalPaid(l)
  <2>1. RenewalPaid(l)
    BY <1>2, PaidRenewal
  <2> QED
    BY <1>2, <2>1 DEF Paid, ReviewInv, TypeOK, ListingTypeOK
<1>3. ASSUME NEW o \in OrderId, Paid(o), order[o].listing = l, order[o].purpose = "new_listing"
      PROVE  status[l] = "awaiting_payment" /\ order[o].status = "pending"
  BY <1>3 DEF Paid
<1>4. ASSUME NEW o \in OrderId, Paid(o), order[o].listing # l PROVE RowKept(l)
  BY <1>4 DEF Paid, RowKept, ReviewInv, TypeOK, ListingTypeOK
<1>5. ASSUME NEW o \in OrderId, Paid(o) PROVE order[o].purpose \in {"new_listing", "renewal"}
  BY <1>5 DEF Paid
<1> QED
  BY <1>1, <1>2, <1>3, <1>4, <1>5, EveryTurn

\* A suspended listing stays suspended and no renewal of it is opened, until a renewal that was
\* already open when it was suspended is paid: that payment, and nothing else, publishes it.
SuspensionYields ==
  [][\A l \in Listing : status[l] = "suspended" =>
       /\ PendingRenewals(l)' \subseteq PendingRenewals(l)
       /\ status'[l] = "suspended" \/ (status'[l] = "published" /\ RenewalPaid(l))]_vars

\* SuspensionHolds fails no further than this: only a renewal opened before the suspension
\* undoes it, and suspending a listing that has none outstanding is final.
THEOREM SuspensionsYieldToRenewalsOnly == Spec => SuspensionYields
<1> DEFINE Yields == \A l \in Listing : status[l] = "suspended" =>
                       /\ PendingRenewals(l)' \subseteq PendingRenewals(l)
                       /\ status'[l] = "suspended" \/ (status'[l] = "published" /\ RenewalPaid(l))
<1>1. ReviewInv /\ [Next]_vars => Yields
  <2> SUFFICES ASSUME ReviewInv, [Next]_vars, NEW l \in Listing, status[l] = "suspended"
               PROVE  /\ PendingRenewals(l)' \subseteq PendingRenewals(l)
                      /\ status'[l] = "suspended" \/ (status'[l] = "published" /\ RenewalPaid(l))
    OBVIOUS
  <2>1. PendingRenewals(l)' \subseteq PendingRenewals(l)
    BY OrdersLast
  <2>2. RowKept(l) \/ (status'[l] = "published" /\ RenewalPaid(l))
    BY WaitingMoves DEF Waits
  <2> QED
    BY <2>1, <2>2 DEF RowKept
<1> HIDE DEF Yields
<1>2. ReviewInv /\ [Next]_vars => [Yields]_vars
  BY <1>1
<1>3. Spec => [][Yields]_vars
  BY <1>2, ReviewInvariant, PTL DEF Spec
<1> QED
  BY <1>3 DEF Yields, SuspensionYields

\* Unseen content gets onto a listing that was public by a renewal alone (_apply_paid_renewal):
\* one paid while the listing is not shown, and none of whose edits was recorded as material.
LateRenewals ==
  [][\A l \in Listing : Unseen(l)' /\ ~ Unseen(l) => ~ Shown(l) /\ ~ edited[l] /\ RenewalPaid(l)]_vars

\* RenewedContentReviewed fails only through a renewal paid for a listing that left publication
\* otherwise than by its expiry or its sale: an expired listing comes back as it was.
THEOREM UnseenContentIsRenewed == Spec => LateRenewals
<1> DEFINE Renewed == \A l \in Listing : Unseen(l)' /\ ~ Unseen(l) => ~ Shown(l) /\ ~ edited[l] /\ RenewalPaid(l)
<1>1. ReviewInv /\ [Next]_vars => Renewed
  <2> SUFFICES ASSUME ReviewInv, [Next]_vars, NEW l \in Listing, Unseen(l)', ~ Unseen(l)
               PROVE  ~ Shown(l) /\ ~ edited[l] /\ RenewalPaid(l)
    OBVIOUS
  <2>1. ~ Unpaid
    BY DEF Unpaid, Turn, RowKept, Shown, Unseen
  <2>2. PICK o \in OrderId : Paid(o)
    BY <2>1, EveryTurn
  <2>3. status' = [status EXCEPT ![order[o].listing] = "published"] /\ UNCHANGED <<content, reviewed>>
    BY <2>2 DEF Paid
  <2>4. ~ Shown(l)
    BY <2>3 DEF Unseen
  <2>5. order[o].listing = l
    BY <2>3 DEF Unseen, Shown, ReviewInv, TypeOK, ListingTypeOK
  <2>6. content[l] # reviewed[l]
    BY <2>3 DEF Unseen
  <2>7. order[o].purpose = "renewal"
    BY <2>2, <2>5, <2>6 DEF Paid, ReviewInv, ApprovedUnchanged
  <2> QED
    BY <2>2, <2>4, <2>5, <2>7, PaidRenewal
<1> HIDE DEF Renewed
<1>2. ReviewInv /\ [Next]_vars => [Renewed]_vars
  BY <1>1
<1>3. Spec => [][Renewed]_vars
  BY <1>2, ReviewInvariant, PTL DEF Spec
<1> QED
  BY <1>3 DEF Renewed, LateRenewals

\* A listing that awaits payment has been quoted for.
AwaitedIsQuoted == \A l \in Listing : status[l] = "awaiting_payment" => OrdersOf(l, "new_listing") # {}

\* A listing that awaits payment can be paid for unless its placement was paid before.
PayableUnlessPlaced ==
  \A l \in Listing :
    status[l] = "awaiting_payment" =>
      ((\E o \in OrdersOf(l, "new_listing") : order[o].status = "pending") <=> l \notin Placed)

\* AwaitingPaymentIsPayable fails for exactly the listings whose placement is already paid: a
\* second approval asks nobody for anything.
THEOREM PaymentIsDue == Spec => []PayableUnlessPlaced
<1>1. Init => AwaitedIsQuoted
  BY DEF Init, ListingInit, AwaitedIsQuoted
<1>2. AwaitedIsQuoted /\ ReviewInv /\ [Next]_vars => AwaitedIsQuoted'
  <2> SUFFICES ASSUME AwaitedIsQuoted, ReviewInv, [Next]_vars, NEW l \in Listing, status'[l] = "awaiting_payment"
               PROVE  OrdersOf(l, "new_listing")' # {}
    BY DEF AwaitedIsQuoted
  <2>1. CASE status[l] = "awaiting_payment"
    BY <2>1, OrdersLast DEF AwaitedIsQuoted
  <2>2. CASE Unpaid /\ status[l] # "awaiting_payment"
    BY <2>2 DEF Unpaid
  <2>3. ASSUME NEW o \in OrderId, Paid(o) PROVE status[l] = "awaiting_payment"
    BY <2>3 DEF Paid, ReviewInv, TypeOK, ListingTypeOK
  <2> QED
    BY <2>1, <2>2, <2>3, EveryTurn
<1>3. Spec => []AwaitedIsQuoted
  BY <1>1, <1>2, ReviewInvariant, PTL DEF Spec
<1>4. AwaitedIsQuoted /\ DemandInv => PayableUnlessPlaced
  <2> SUFFICES ASSUME AwaitedIsQuoted, DemandInv, NEW l \in Listing, status[l] = "awaiting_payment"
               PROVE  (\E o \in OrdersOf(l, "new_listing") : order[o].status = "pending") <=> l \notin Placed
    BY DEF PayableUnlessPlaced
  <2>1. PICK p \in OrdersOf(l, "new_listing") : TRUE
    BY DEF AwaitedIsQuoted
  <2>2. p \in OrderId /\ order[p].listing = l /\ order[p].purpose = "new_listing"
        /\ order[p].status \in {"pending", "paid", "refunded"}
    BY <2>1, OrderCases DEF OrdersOf, Order, OrderStatus
  <2>3. l \in Placed => \A o \in OrdersOf(l, "new_listing") : order[o].status # "pending"
    BY PlacedIsNotAsked DEF OrdersOf
  <2> QED
    BY <2>1, <2>2, <2>3 DEF Placed
<1> QED
  BY <1>3, <1>4, DemandInvariant, PTL

\* A listing nothing leads out of: suspended, or approved a second time, with no renewal open.
Standstill(l) ==
  /\ PendingRenewals(l) = {}
  /\ status[l] = "suspended" \/ (status[l] = "awaiting_payment" /\ l \in Placed)

\* Nothing the sellers, the moderators, the staff and the scheduler do moves such a listing.
StandsStill == [][\A l \in Listing : Standstill(l) => Standstill(l)' /\ status'[l] = status[l]]_vars

\* Without an open renewal order, the second approval of a paid listing is as final as a
\* suspension: no service leads out of either, however long and in whatever order the actors
\* go on.
THEOREM StandstillIsFinal == Spec => StandsStill
<1> DEFINE Stands == \A l \in Listing : Standstill(l) => Standstill(l)' /\ status'[l] = status[l]
<1>1. ReviewInv /\ DemandInv /\ [Next]_vars => Stands
  <2> SUFFICES ASSUME ReviewInv, DemandInv, [Next]_vars, NEW l \in Listing, Standstill(l)
               PROVE  Standstill(l)' /\ status'[l] = status[l]
    OBVIOUS
  <2>1. PendingRenewals(l) = {} /\ Waits(l)
    BY DEF Standstill, Waits
  <2>2. ~ RenewalPaid(l)
    BY <2>1 DEF RenewalPaid
  <2>3. status[l] = "awaiting_payment" => ~ \E o \in OrderId : /\ order[o].status = "pending" /\ order[o].listing = l
                                                               /\ order[o].purpose = "new_listing"
    BY PlacedIsNotAsked DEF Standstill
  <2>4. status'[l] = status[l]
    BY <2>1, <2>2, <2>3, WaitingMoves DEF RowKept
  <2>5. PendingRenewals(l)' = {}
    BY <2>1, OrdersLast DEF Waits
  <2>6. l \in Placed => l \in Placed'
    BY OrdersLast
  <2> QED
    BY <2>4, <2>5, <2>6 DEF Standstill
<1> HIDE DEF Stands
<1>2. ReviewInv /\ DemandInv /\ [Next]_vars => [Stands]_vars
  BY <1>1
<1>3. Spec => [][Stands]_vars
  BY <1>2, ReviewInvariant, DemandInvariant, PTL DEF Spec
<1> QED
  BY <1>3 DEF Stands, StandsStill
=============================================================================
