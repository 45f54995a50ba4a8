------------------------- MODULE Marketplace_proofs -------------------------
(***************************************************************************)
(* Theorems of Marketplace, for any listings, moderators, orders and       *)
(* bounds.                                                                 *)
(***************************************************************************)
EXTENDS Marketplace, TLAPS

-----------------------------------------------------------------------------
\* Type correctness.

\* What the services write keeps the listing half of the state typed.
LEMMA OwnerWriteType ==
  ASSUME ListingTypeOK, NEW l \in Listing, OwnerWrite(l),
         images' \in [Listing -> [Decision -> Nat]]
  PROVE  ListingTypeOK'
<1>1. revision' \in [Listing -> Nat] /\ status' \in [Listing -> Status]
      /\ edited' \in [Listing -> BOOLEAN]
  <2>1. CASE status[l] = "published"
    <3>0. /\ status' = [status EXCEPT ![l] = "in_review"]
          /\ edited' = [edited EXCEPT ![l] = TRUE]
          /\ Advance(l, 1)
      BY <2>1 DEF OwnerWrite, DepublishMaterialEdit
    <3>1. revision' \in [Listing -> Nat]
      BY <3>0 DEF ListingTypeOK, Advance
    <3>2. status' \in [Listing -> Status]
      BY <3>0 DEF ListingTypeOK, Status
    <3>3. edited' \in [Listing -> BOOLEAN]
      BY <3>0 DEF ListingTypeOK
    <3> QED
      BY <3>1, <3>2, <3>3
  <2>2. CASE status[l] # "published"
    BY <2>2 DEF ListingTypeOK, OwnerWrite, DepublishMaterialEdit
  <2> QED
    BY <2>1, <2>2
<1>2. content' \in [Listing -> Nat]
  BY DEF ListingTypeOK, OwnerWrite
<1> QED
  BY <1>1, <1>2 DEF ListingTypeOK, OwnerWrite

LEMMA OwnerTransitionType ==
  ASSUME ListingTypeOK, NEW l \in Listing, NEW from, NEW to \in Status,
         OwnerTransition(l, from, to)
  PROVE  ListingTypeOK'
  BY DEF ListingTypeOK, OwnerTransition, Advance

LEMMA DecideImagesType ==
  ASSUME ListingTypeOK, NEW l \in Listing, NEW k \in Nat, DecideImages(l, k)
  PROVE  images' \in [Listing -> [Decision -> Nat]]
<1> DEFINE after == [d \in Decision |-> CASE d = "pending"  -> 0
                                          [] d = "approved" -> images[l][d] + k
                                          [] d = "rejected" -> images[l][d] + images[l]["pending"] - k]
<1>1. after \in [Decision -> Nat]
  BY DEF ListingTypeOK, DecideImages, Decision
<1>2. images' = [images EXCEPT ![l] = after]
  BY DEF DecideImages
<1> HIDE DEF after
<1> QED
  BY <1>1, <1>2 DEF ListingTypeOK

\* moderate_listing, for every outcome; the outcome's own variables are typed by its caller.
LEMMA DecideType ==
  ASSUME ListingTypeOK, NEW m \in Moderator, NEW l \in Listing, NEW k \in Nat, NEW from,
         NEW to \in Status, Decide(m, l, k, from, to),
         edited' \in [Listing -> BOOLEAN], expiresAt' \in [Listing -> Nat],
         indexed' \in [Listing -> Nat], reviewed' \in [Listing -> Nat],
         publishedBy' \in [Listing -> Route]
  PROVE  ListingTypeOK'
<1>1. images' \in [Listing -> [Decision -> Nat]]
  BY DecideImagesType DEF Decide
<1>2. revision' \in [Listing -> Nat] /\ status' \in [Listing -> Status]
      /\ assigned' \in [Listing -> Moderator \cup {NoModerator}]
  BY DEF ListingTypeOK, Decide, Advance
<1> QED
  BY <1>1, <1>2 DEF ListingTypeOK, Decide

\* What the publications outside moderation and the scheduler write is typed as well.
LEMMA PublicationType ==
  ASSUME ListingTypeOK, NEW l \in Listing, NEW expiry \in Nat,
         PublishPaid(l, expiry) \/ PublishRenewed(l, expiry) \/ PublishDirect(l)
  PROVE  ListingTypeOK'
<1>0. "published" \in Status /\ "payment" \in Route /\ "renewal" \in Route /\ "direct" \in Route
  BY DEF Status, Route
<1>1. CASE PublishPaid(l, expiry)
  <2>1. expiresAt' \in [Listing -> Nat]
    BY <1>1 DEF PublishPaid, ListingTypeOK
  <2> QED
    BY <1>0, <1>1, <2>1 DEF PublishPaid, ListingTypeOK, Advance
<1>2. CASE PublishRenewed(l, expiry)
  BY <1>0, <1>2 DEF PublishRenewed, ListingTypeOK, Advance
<1>3. CASE PublishDirect(l)
  BY <1>0, <1>3 DEF PublishDirect, ListingTypeOK, Advance
<1> QED
  BY <1>1, <1>2, <1>3

\* The ledger half: a new order, a booked or failed payment, refunds.
LEMMA CreateOrderType ==
  ASSUME BillingTypeOK, NEW l \in Listing, NEW purpose \in Purpose, NEW lines \in 1..2,
         CreateOrder(l, purpose, lines)
  PROVE  order' \in [OrderId -> Order \cup {NoOrder}]
<1>1. PICK o \in OrderId :
        order' = [order EXCEPT ![o] = [status |-> "pending", listing |-> l, purpose |-> purpose,
                                       lines |-> lines, paidAt |-> 0]]
  BY DEF CreateOrder
<1>2. [status |-> "pending", listing |-> l, purpose |-> purpose, lines |-> lines, paidAt |-> 0]
        \in Order
  BY DEF Order, OrderStatus
<1> QED
  BY <1>1, <1>2 DEF BillingTypeOK

\* An order that exists has a listing.
LEMMA PlacedOrder ==
  ASSUME BillingTypeOK, NEW o \in OrderId, order[o].status \in OrderStatus
  PROVE  order[o] \in Order
  BY DEF BillingTypeOK, NoOrder, OrderStatus

LEMMA BookPaymentType ==
  ASSUME BillingTypeOK, now \in Nat, NEW o \in OrderId, order[o].status = "pending",
         BookPayment(o) \/ FailPayment(o)
  PROVE  BillingTypeOK'
<1>1. CASE BookPayment(o)
  <2>1. [order[o] EXCEPT !.status = "paid", !.paidAt = now] \in Order
    BY PlacedOrder DEF Order, OrderStatus
  <2>2. order' = [order EXCEPT ![o] = [order[o] EXCEPT !.status = "paid", !.paidAt = now]]
    BY <1>1 DEF BookPayment, BillingTypeOK
  <2>3. order' \in [OrderId -> Order \cup {NoOrder}]
    BY <2>1, <2>2 DEF BillingTypeOK
  <2> QED
    BY <1>1, <2>3 DEF BookPayment, BillingTypeOK
<1>2. CASE FailPayment(o)
  BY <1>2 DEF FailPayment, BillingTypeOK
<1> QED
  BY <1>1, <1>2

LEMMA RefundType ==
  ASSUME BillingTypeOK, NEW l \in Listing, RefundRejected(l)
  PROVE  /\ order' \in [OrderId -> Order \cup {NoOrder}]
         /\ refundEvent' \in [OrderId -> {"none", "processed"}]
<1>1. \A o \in PaidOrders(l) : [order[o] EXCEPT !.status = "refunded"] \in Order
  BY PlacedOrder DEF PaidOrders, Order, OrderStatus
<1> QED
  BY <1>1 DEF RefundRejected, BillingTypeOK, PaidOrders

LEMMA InitType == Init => TypeOK
<1> SUFFICES ASSUME Init PROVE TypeOK
  OBVIOUS
<1>1. ListingTypeOK
  BY DEF Init, ListingInit, ListingTypeOK, Status, Route, Decision
<1>2. BillingTypeOK
  BY DEF Init, BillingInit, BillingTypeOK
<1> QED
  BY <1>1, <1>2 DEF TypeOK

LEMMA SellerType ==
  ASSUME TypeOK, SellerNext
  PROVE  TypeOK'
<1> USE DEF TypeOK
<1>0. PICK l \in Listing :
        \/ EditListing(l) /\ UNCHANGED billingVars
        \/ AddImage(l) /\ UNCHANGED billingVars
        \/ \E d \in Decision : DeleteImage(l, d) /\ UNCHANGED billingVars
        \/ SubmitListing(l) /\ UNCHANGED billingVars
        \/ MarkSold(l) /\ UNCHANGED billingVars
        \/ Archive(l) /\ UNCHANGED billingVars
        \/ RestoreDraft(l) /\ UNCHANGED billingVars
        \/ BeginRenewal(l) /\ UNCHANGED listingVars
        \/ CreateRenewal(l) /\ UNCHANGED listingVars
  BY DEF SellerNext
<1>a. ASSUME UNCHANGED billingVars PROVE BillingTypeOK'
  BY <1>a DEF billingVars, BillingTypeOK
<1>b. ASSUME UNCHANGED listingVars PROVE ListingTypeOK'
  BY <1>b DEF listingVars, ListingTypeOK
<1>1. CASE EditListing(l) /\ UNCHANGED billingVars
  BY <1>1, <1>a, OwnerWriteType DEF EditListing, ListingTypeOK
<1>2. CASE AddImage(l) /\ UNCHANGED billingVars
  <2>1. images' \in [Listing -> [Decision -> Nat]]
    BY <1>2 DEF AddImage, ListingTypeOK, Decision
  <2> QED
    BY <1>2, <2>1, <1>a, OwnerWriteType DEF AddImage
<1>3. CASE \E d \in Decision : DeleteImage(l, d) /\ UNCHANGED billingVars
  <2>1. PICK d \in Decision : DeleteImage(l, d) /\ UNCHANGED billingVars
    BY <1>3
  <2>2. images' \in [Listing -> [Decision -> Nat]]
    BY <2>1 DEF DeleteImage, ListingTypeOK
  <2> QED
    BY <2>1, <2>2, <1>a, OwnerWriteType DEF DeleteImage
<1>4. CASE SubmitListing(l) /\ UNCHANGED billingVars
  BY <1>4, <1>a DEF SubmitListing, ListingTypeOK, Advance, Status
<1>5. CASE MarkSold(l) /\ UNCHANGED billingVars
  BY <1>5, <1>a, OwnerTransitionType DEF MarkSold, Status
<1>6. CASE Archive(l) /\ UNCHANGED billingVars
  BY <1>6, <1>a, OwnerTransitionType DEF Archive, Status
<1>7. CASE RestoreDraft(l) /\ UNCHANGED billingVars
  BY <1>7, <1>a, OwnerTransitionType DEF RestoreDraft, Status
<1>8. CASE BeginRenewal(l) /\ UNCHANGED listingVars
  BY <1>8, <1>b DEF BeginRenewal, BillingTypeOK
<1>9. CASE CreateRenewal(l) /\ UNCHANGED listingVars
  <2>1. order' \in [OrderId -> Order \cup {NoOrder}]
    BY <1>9, CreateOrderType DEF CreateRenewal, BillingTypeOK, Purpose
  <2> QED
    BY <1>9, <2>1, <1>b DEF CreateRenewal, BillingTypeOK
<1> QED
  BY <1>0, <1>1, <1>2, <1>3, <1>4, <1>5, <1>6, <1>7, <1>8, <1>9

LEMMA ModeratorType ==
  ASSUME TypeOK, ModeratorNext
  PROVE  TypeOK'
<1> USE DEF TypeOK
<1>0. PICK m \in Moderator, l \in Listing :
        \/ OpenReview(m, l) /\ UNCHANGED billingVars
        \/ ClaimListing(m, l) /\ UNCHANGED billingVars
        \/ \E k \in 0..MaxImages :
             \/ Approve(m, l, k)
             \/ SendPaymentLink(m, l, k)
             \/ RequestChanges(m, l, k)
             \/ Reject(m, l, k)
             \/ Suspend(m, l, k)
  BY DEF ModeratorNext
<1>a. ASSUME UNCHANGED billingVars PROVE BillingTypeOK'
  BY <1>a DEF billingVars, BillingTypeOK
<1>b. ASSUME Submits(m, l) PROVE form[m].seen \in Nat
  BY <1>b DEF Submits, ListingTypeOK, ReviewForm
<1>1. CASE OpenReview(m, l) /\ UNCHANGED billingVars
  <2>1. [listing |-> l, revision |-> revision[l], seen |-> content[l]] \in ReviewForm
    BY DEF ListingTypeOK, ReviewForm
  <2> QED
    BY <1>1, <1>a, <2>1 DEF OpenReview, ListingTypeOK
<1>2. CASE ClaimListing(m, l) /\ UNCHANGED billingVars
  BY <1>2, <1>a DEF ClaimListing, ListingTypeOK, Advance
<1>3. ASSUME NEW k \in 0..MaxImages, Approve(m, l, k) PROVE TypeOK'
  <2>1. PICK expiry \in Nat : DecidePublish(m, l, k, expiry)
    BY <1>3, BillingAssumption DEF Approve, ListingTypeOK
  <2>2. Submits(m, l)
    BY <2>1 DEF DecidePublish, Decide
  <2>3. "published" \in Status /\ "moderator" \in Route /\ k \in Nat
    BY DEF Status, Route
  <2>4. Decide(m, l, k, {"in_review"}, "published")
    BY <2>1 DEF DecidePublish
  <2>5. /\ edited' \in [Listing -> BOOLEAN]
        /\ expiresAt' \in [Listing -> Nat]
        /\ indexed' \in [Listing -> Nat]
        /\ reviewed' \in [Listing -> Nat]
        /\ publishedBy' \in [Listing -> Route]
    BY <2>1, <2>2, <2>3, <1>b DEF DecidePublish, ListingTypeOK
  <2>6. ListingTypeOK'
    BY <2>3, <2>4, <2>5, DecideType
  <2> QED
    BY <1>3, <2>6, <1>a DEF Approve
<1>4. ASSUME NEW k \in 0..MaxImages, SendPaymentLink(m, l, k) PROVE TypeOK'
  <2>1. Decide(m, l, k, {"in_review"}, "awaiting_payment") /\ Submits(m, l)
    BY <1>4 DEF SendPaymentLink, DecidePaymentLink, Decide
  <2>2. "awaiting_payment" \in Status /\ k \in Nat
    BY DEF Status
  <2>3. /\ edited' \in [Listing -> BOOLEAN]
        /\ expiresAt' \in [Listing -> Nat]
        /\ indexed' \in [Listing -> Nat]
        /\ reviewed' \in [Listing -> Nat]
        /\ publishedBy' \in [Listing -> Route]
    BY <1>4, <2>1, <1>b DEF SendPaymentLink, DecidePaymentLink, ListingTypeOK
  <2>4. ListingTypeOK'
    BY <2>1, <2>2, <2>3, DecideType
  <2>5. order' \in [OrderId -> Order \cup {NoOrder}]
    BY <1>4, CreateOrderType DEF SendPaymentLink, QuoteNewListing, BillingTypeOK, Purpose
  <2> QED
    BY <1>4, <2>4, <2>5 DEF SendPaymentLink, BillingTypeOK
<1>5. ASSUME NEW k \in 0..MaxImages,
             RequestChanges(m, l, k) \/ Reject(m, l, k) \/ Suspend(m, l, k)
      PROVE  TypeOK'
  <2>1. PICK from \in SUBSET Status, to \in Status : Decide(m, l, k, from, to)
    <3>1. CASE RequestChanges(m, l, k)
      BY <3>1 DEF RequestChanges, DecideChanges, Status
    <3>2. CASE Reject(m, l, k)
      BY <3>2 DEF Reject, DecideReject, Status
    <3>3. CASE Suspend(m, l, k)
      BY <3>3 DEF Suspend, DecideSuspend, Status
    <3> QED
      BY <1>5, <3>1, <3>2, <3>3
  <2>2. UNCHANGED <<edited, expiresAt, indexed, reviewed, publishedBy>>
    BY <1>5 DEF RequestChanges, Reject, Suspend, DecideChanges, DecideReject, DecideSuspend
  <2>3. k \in Nat
    OBVIOUS
  <2>4. ListingTypeOK'
    BY <2>1, <2>2, <2>3, DecideType DEF ListingTypeOK
  <2>5. BillingTypeOK'
    <3>1. CASE Reject(m, l, k)
      BY <3>1, RefundType DEF Reject, BillingTypeOK
    <3>2. CASE RequestChanges(m, l, k) \/ Suspend(m, l, k)
      BY <3>2, <1>a DEF RequestChanges, Suspend
    <3> QED
      BY <1>5, <3>1, <3>2
  <2> QED
    BY <2>4, <2>5
<1> QED
  BY <1>0, <1>1, <1>2, <1>3, <1>4, <1>5

LEMMA StaffType ==
  ASSUME TypeOK, StaffNext
  PROVE  TypeOK'
<1> USE DEF TypeOK
<1>a. ASSUME UNCHANGED billingVars PROVE BillingTypeOK'
  BY <1>a DEF billingVars, BillingTypeOK
<1>1. ASSUME NEW o \in OrderId, ProcessPayment(o) PROVE TypeOK'
  <2> DEFINE l == order[o].listing
  <2>0. now \in Nat /\ now + Duration \in Nat /\ l \in Listing /\ order[o].status = "pending"
    BY <1>1, BillingAssumption, PlacedOrder DEF ListingTypeOK, ProcessPayment, Order, OrderStatus
  <2> HIDE DEF l
  <2>1. CASE PayNewListing(o) \/ PayRenewal(o)
    <3>1. PublishPaid(l, now + Duration) \/ PublishRenewed(l, now + Duration)
      BY <2>1 DEF PayNewListing, PayRenewal, l
    <3>2. BookPayment(o)
      BY <2>1 DEF PayNewListing, PayRenewal
    <3>3. BillingTypeOK'
      BY <2>0, <3>2, BookPaymentType
    <3> QED
      BY <2>0, <3>1, <3>3, PublicationType
  <2>2. CASE PayTooEarly(o)
    BY <2>0, <2>2, BookPaymentType DEF PayTooEarly, listingVars, ListingTypeOK
  <2> QED
    BY <1>1, <2>1, <2>2 DEF ProcessPayment
<1>2. ASSUME NEW l \in Listing, PublishDirect(l), UNCHANGED billingVars PROVE TypeOK'
  BY <1>2, <1>a, PublicationType
<1>3. ASSUME NEW n \in ImagePolicy, SetImagePolicy(n), UNCHANGED billingVars PROVE TypeOK'
  BY <1>3, <1>a DEF SetImagePolicy, ListingTypeOK
<1> QED
  BY <1>1, <1>2, <1>3 DEF StaffNext, ConfirmPayment, ReplayPayment

LEMMA SchedulerType ==
  ASSUME TypeOK, SchedulerNext
  PROVE  TypeOK'
<1> USE DEF TypeOK
<1>a. UNCHANGED billingVars => BillingTypeOK'
  BY DEF billingVars, BillingTypeOK
<1>1. ASSUME NEW due \in SUBSET Listing, ExpireDue(due), UNCHANGED billingVars PROVE TypeOK'
  BY <1>1, <1>a DEF ExpireDue, ListingTypeOK, Status
<1>2. CASE Tick /\ UNCHANGED billingVars
  BY <1>2, <1>a DEF Tick, ListingTypeOK
<1> QED
  BY <1>1, <1>2 DEF SchedulerNext

\* Every step of every behaviour keeps the rows of both applications well formed: a listing
\* has a status of its enumeration, counters never go below zero, an order belongs to a
\* listing and has one or two lines.
THEOREM TypeCorrect == Spec => []TypeOK
<1>1. TypeOK /\ [Next]_vars => TypeOK'
  <2> SUFFICES ASSUME TypeOK, [Next]_vars PROVE TypeOK'
    OBVIOUS
  <2>1. CASE Next
    BY <2>1, SellerType, ModeratorType, StaffType, SchedulerType DEF Next
  <2>2. CASE UNCHANGED vars
    BY <2>2 DEF vars, listingVars, billingVars, TypeOK, ListingTypeOK, BillingTypeOK
  <2> QED
    BY <2>1, <2>2
<1> QED
  BY InitType, <1>1, PTL DEF Spec

-----------------------------------------------------------------------------
\* Reviews.  That published content was seen by its approver is not inductive: between the
\* approval and the payment nothing may change the content, and between the page load and the
\* decision nothing may change it without a new revision.

FormsNotAhead ==
  \A m \in Moderator : form[m] # NoForm => form[m].revision <= revision[form[m].listing]

ApprovedUnchanged ==
  \A l \in Listing :
    \/ status[l] = "awaiting_payment"
    \/ status[l] = "published" /\ publishedBy[l] # "renewal"
    => content[l] = reviewed[l]

ReviewInv == TypeOK /\ FormsNotAhead /\ AcceptedFormIsFresh /\ ApprovedUnchanged

\* What every step but a page load does to the forms that are open: it leaves them alone,
\* and whatever it changes about a listing a moderator may decide on has a new revision.
Versioned ==
  /\ form' = form
  /\ \A l \in Listing :
       \/ revision'[l] > revision[l]
       \/ /\ revision'[l] = revision[l]
          /\ \/ status'[l] = status[l] /\ content'[l] = content[l]
             \/ status'[l] \in {"draft", "changes_requested"}

LEMMA FormTyped ==
  ASSUME ListingTypeOK, NEW m \in Moderator, form[m] # NoForm
  PROVE  form[m] \in ReviewForm
  BY DEF ListingTypeOK

LEMMA VersionedKeepsForms ==
  ASSUME ReviewInv, TypeOK', Versioned
  PROVE  FormsNotAhead' /\ AcceptedFormIsFresh'
<1>1. ASSUME NEW m \in Moderator, form'[m] # NoForm
      PROVE  /\ form'[m].revision <= revision'[form'[m].listing]
             /\ LET l == form'[m].listing
                IN  form'[m].revision = revision'[l] /\ status'[l] \in {"in_review", "published"}
                      => form'[m].seen = content'[l]
  <2> DEFINE l == form[m].listing
  <2>1. form'[m] = form[m] /\ form[m] \in ReviewForm
    BY <1>1, FormTyped DEF ReviewInv, TypeOK, Versioned
  <2>2. l \in Listing /\ form[m].revision \in Nat /\ revision[l] \in Nat /\ revision'[l] \in Nat
    BY <2>1 DEF ReviewInv, TypeOK, ListingTypeOK, ReviewForm
  <2>3. form[m].revision <= revision[l]
    BY <1>1, <2>1 DEF ReviewInv, FormsNotAhead
  <2>4. form[m].revision = revision[l] /\ status[l] \in {"in_review", "published"}
          => form[m].seen = content[l]
    BY <1>1, <2>1 DEF ReviewInv, AcceptedFormIsFresh
  <2>5. \/ revision'[l] > revision[l]
        \/ /\ revision'[l] = revision[l]
           /\ \/ status'[l] = status[l] /\ content'[l] = content[l]
              \/ status'[l] \in {"draft", "changes_requested"}
    BY <2>2 DEF Versioned
  <2> HIDE DEF l
  <2>6. /\ form[m].revision <= revision'[l]
        /\ form[m].revision = revision'[l] /\ status'[l] \in {"in_review", "published"}
             => form[m].seen = content'[l]
    BY <2>2, <2>3, <2>4, <2>5
  <2> QED
    BY <2>1, <2>6 DEF l
<1>2. NoForm' = NoForm
  BY DEF NoForm
<1> QED
  BY <1>1, <1>2 DEF FormsNotAhead, AcceptedFormIsFresh

\* Services of the seller.
LEMMA OwnerWriteReview ==
  ASSUME ReviewInv, NEW l \in Listing, OwnerWrite(l)
  PROVE  Versioned /\ ApprovedUnchanged'
<1>1. CASE status[l] = "published"
  <2>1. /\ status' = [status EXCEPT ![l] = "in_review"]
        /\ Advance(l, 1)
    BY <1>1 DEF OwnerWrite, DepublishMaterialEdit
  <2> QED
    BY <2>1 DEF OwnerWrite, Advance, Versioned, ApprovedUnchanged, ReviewInv, TypeOK, ListingTypeOK
<1>2. CASE status[l] # "published"
  <2>1. UNCHANGED <<status, revision>> /\ status[l] \in {"draft", "changes_requested"}
    BY <1>2 DEF OwnerWrite, DepublishMaterialEdit, OwnerEditable
  <2> QED
    BY <2>1 DEF OwnerWrite, Versioned, ApprovedUnchanged, ReviewInv, TypeOK, ListingTypeOK
<1> QED
  BY <1>1, <1>2

LEMMA OwnerTransitionReview ==
  ASSUME ReviewInv, NEW l \in Listing, NEW from, NEW to \in {"sold", "archived", "draft"},
         OwnerTransition(l, from, to)
  PROVE  Versioned /\ ApprovedUnchanged'
  BY DEF OwnerTransition, Advance, Versioned, ApprovedUnchanged, ReviewInv, TypeOK, ListingTypeOK

LEMMA ListingUntouchedReview ==
  ASSUME ReviewInv, UNCHANGED listingVars
  PROVE  Versioned /\ ApprovedUnchanged'
  BY DEF listingVars, Versioned, ApprovedUnchanged, ReviewInv

LEMMA SellerReview ==
  ASSUME ReviewInv, SellerNext
  PROVE  Versioned /\ ApprovedUnchanged'
<1>1. ASSUME NEW l \in Listing, SubmitListing(l) PROVE Versioned /\ ApprovedUnchanged'
  BY <1>1 DEF SubmitListing, Advance, Versioned, ApprovedUnchanged, ReviewInv, TypeOK, ListingTypeOK
<1>2. ASSUME NEW l \in Listing, EditListing(l) \/ AddImage(l) \/ \E d \in Decision : DeleteImage(l, d)
      PROVE  Versioned /\ ApprovedUnchanged'
  BY <1>2, OwnerWriteReview DEF EditListing, AddImage, DeleteImage
<1>3. ASSUME NEW l \in Listing, MarkSold(l) \/ Archive(l) \/ RestoreDraft(l)
      PROVE  Versioned /\ ApprovedUnchanged'
  BY <1>3, OwnerTransitionReview DEF MarkSold, Archive, RestoreDraft
<1> QED
  BY <1>1, <1>2, <1>3, ListingUntouchedReview DEF SellerNext

\* A decision is taken on the content its moderator saw.
LEMMA DecidedContentSeen ==
  ASSUME ReviewInv, NEW m \in Moderator, NEW l \in Listing, Submits(m, l),
         status[l] \in {"in_review", "published"}
  PROVE  form[m].seen = content[l]
  BY DEF ReviewInv, AcceptedFormIsFresh, Submits

LEMMA DecideVersioned ==
  ASSUME ReviewInv, NEW m \in Moderator, NEW l \in Listing, NEW k, NEW from, NEW to,
         Decide(m, l, k, from, to)
  PROVE  Versioned
  BY DEF Decide, Advance, Versioned, ReviewInv, TypeOK, ListingTypeOK

LEMMA ModeratorReview ==
  ASSUME ReviewInv, ModeratorNext
  PROVE  /\ Versioned \/ \E m \in Moderator, l \in Listing : OpenReview(m, l)
         /\ ApprovedUnchanged'
<1>0. PICK m \in Moderator, l \in Listing :
        \/ OpenReview(m, l)
        \/ ClaimListing(m, l)
        \/ \E k \in 0..MaxImages :
             \/ Approve(m, l, k)
             \/ SendPaymentLink(m, l, k)
             \/ RequestChanges(m, l, k)
             \/ Reject(m, l, k)
             \/ Suspend(m, l, k)
  BY DEF ModeratorNext
<1>1. CASE OpenReview(m, l)
  BY <1>1 DEF OpenReview, ApprovedUnchanged, ReviewInv
<1>2. CASE ClaimListing(m, l)
  BY <1>2 DEF ClaimListing, Advance, Versioned, ApprovedUnchanged, ReviewInv, TypeOK, ListingTypeOK
<1>3. ASSUME NEW k, Approve(m, l, k) \/ SendPaymentLink(m, l, k)
      PROVE  Versioned /\ ApprovedUnchanged'
  <2>1. PICK to \in {"published", "awaiting_payment"} : Decide(m, l, k, {"in_review"}, to)
    <3>1. CASE Approve(m, l, k)
      BY <3>1 DEF Approve, DecidePublish
    <3>2. CASE SendPaymentLink(m, l, k)
      BY <3>2 DEF SendPaymentLink, DecidePaymentLink
    <3> QED
      BY <1>3, <3>1, <3>2
  <2>2. reviewed' = [reviewed EXCEPT ![l] = content[l]]
    <3>1. reviewed' = [reviewed EXCEPT ![l] = form[m].seen]
      BY <1>3 DEF Approve, SendPaymentLink, DecidePublish, DecidePaymentLink
    <3>2. form[m].seen = content[l]
      BY <2>1, DecidedContentSeen DEF Decide
    <3> QED
      BY <3>1, <3>2
  <2>3. \A x \in Listing \ {l} : publishedBy'[x] = publishedBy[x]
    BY <1>3 DEF Approve, SendPaymentLink, DecidePublish, DecidePaymentLink, ReviewInv, TypeOK,
      ListingTypeOK
  <2>4. content' = content /\ status' = [status EXCEPT ![l] = to]
    BY <2>1 DEF Decide
  <2>5. ApprovedUnchanged'
    BY <2>2, <2>3, <2>4 DEF ApprovedUnchanged, ReviewInv, TypeOK, ListingTypeOK
  <2> QED
    BY <2>1, <2>5, DecideVersioned
<1>4. ASSUME NEW k, RequestChanges(m, l, k) \/ Reject(m, l, k) \/ Suspend(m, l, k)
      PROVE  Versioned /\ ApprovedUnchanged'
  <2>1. PICK from \in SUBSET Status, to \in {"changes_requested", "rejected", "suspended"} :
          Decide(m, l, k, from, to)
    <3>1. CASE RequestChanges(m, l, k)
      <4>1. Decide(m, l, k, {"in_review"}, "changes_requested")
        BY <3>1 DEF RequestChanges, DecideChanges
      <4> QED
        BY <4>1 DEF Status
    <3>2. CASE Reject(m, l, k)
      <4>1. Decide(m, l, k, {"in_review", "published"}, "rejected")
        BY <3>2 DEF Reject, DecideReject
      <4> QED
        BY <4>1 DEF Status
    <3>3. CASE Suspend(m, l, k)
      <4>1. Decide(m, l, k, {"in_review", "published"}, "suspended")
        BY <3>3 DEF Suspend, DecideSuspend
      <4> QED
        BY <4>1 DEF Status
    <3> QED
      BY <1>4, <3>1, <3>2, <3>3
  <2>2. UNCHANGED <<reviewed, publishedBy>>
    BY <1>4 DEF RequestChanges, Reject, Suspend, DecideChanges, DecideReject, DecideSuspend
  <2>3. ApprovedUnchanged'
    BY <2>1, <2>2 DEF Decide, ApprovedUnchanged, ReviewInv, TypeOK, ListingTypeOK
  <2> QED
    BY <2>1, <2>3, DecideVersioned
<1> QED
  BY <1>0, <1>1, <1>2, <1>3, <1>4

\* Publications that no moderator decides.
LEMMA StaffReview ==
  ASSUME ReviewInv, StaffNext
  PROVE  Versioned /\ ApprovedUnchanged'
<1>1. ASSUME NEW o \in OrderId, ProcessPayment(o) PROVE Versioned /\ ApprovedUnchanged'
  <2> DEFINE l == order[o].listing
  <2>0. l \in Listing
    BY <1>1, PlacedOrder DEF ProcessPayment, Order, OrderStatus, ReviewInv, TypeOK
  <2>1. CASE PayNewListing(o)
    <3>1. status[l] = "awaiting_payment" /\ PublishPaid(l, now + Duration)
      BY <2>1 DEF PayNewListing
    <3> HIDE DEF l
    <3> QED
      BY <2>0, <3>1 DEF PublishPaid, Advance, Versioned, ApprovedUnchanged, ReviewInv, TypeOK,
        ListingTypeOK
  <2>2. CASE PayRenewal(o)
    <3>1. PublishRenewed(l, now + Duration)
      BY <2>2 DEF PayRenewal
    <3> HIDE DEF l
    <3> QED
      BY <2>0, <3>1 DEF PublishRenewed, Advance, Versioned, ApprovedUnchanged, ReviewInv, TypeOK,
        ListingTypeOK
  <2>3. CASE PayTooEarly(o)
    BY <2>3, ListingUntouchedReview DEF PayTooEarly
  <2> QED
    BY <1>1, <2>1, <2>2, <2>3 DEF ProcessPayment
<1>2. ASSUME NEW l \in Listing, PublishDirect(l) PROVE Versioned /\ ApprovedUnchanged'
  BY <1>2 DEF PublishDirect, Advance, Versioned, ApprovedUnchanged, ReviewInv, TypeOK, ListingTypeOK
<1>3. ASSUME NEW n \in ImagePolicy, SetImagePolicy(n) PROVE Versioned /\ ApprovedUnchanged'
  BY <1>3 DEF SetImagePolicy, Versioned, ApprovedUnchanged, ReviewInv
<1> QED
  BY <1>1, <1>2, <1>3 DEF StaffNext, ConfirmPayment, ReplayPayment

LEMMA SchedulerReview ==
  ASSUME ReviewInv, SchedulerNext
  PROVE  Versioned /\ ApprovedUnchanged'
<1>1. ASSUME NEW due \in SUBSET Listing, ExpireDue(due) PROVE Versioned /\ ApprovedUnchanged'
  BY <1>1 DEF ExpireDue, Versioned, ApprovedUnchanged, ReviewInv, TypeOK, ListingTypeOK
<1>2. CASE Tick
  BY <1>2 DEF Tick, Versioned, ApprovedUnchanged, ReviewInv
<1> QED
  BY <1>1, <1>2 DEF SchedulerNext

\* A page load shows the content and the revision of one instant.
LEMMA OpenReviewKeepsForms ==
  ASSUME ReviewInv, TypeOK', NEW m \in Moderator, NEW l \in Listing, OpenReview(m, l)
  PROVE  FormsNotAhead' /\ AcceptedFormIsFresh'
<1> DEFINE page == [listing |-> l, revision |-> revision[l], seen |-> content[l]]
<1>1. form' = [form EXCEPT ![m] = page] /\ UNCHANGED <<status, revision, content>>
  BY DEF OpenReview
<1>2. \A n \in Moderator : form'[n] = page \/ form'[n] = form[n]
  BY <1>1 DEF ReviewInv, TypeOK, ListingTypeOK
<1>3. NoForm' = NoForm
  BY DEF NoForm
<1>4. revision[l] \in Nat
  BY DEF ReviewInv, TypeOK, ListingTypeOK
<1>5. /\ page.revision <= revision'[page.listing]
      /\ page.seen = content'[page.listing]
  BY <1>1, <1>4
<1> HIDE DEF page
<1> QED
  BY <1>1, <1>2, <1>3, <1>5 DEF ReviewInv, FormsNotAhead, AcceptedFormIsFresh

THEOREM ReviewInvariant == Spec => []ReviewInv
<1>1. Init => ReviewInv
  BY InitType DEF Init, ListingInit, ReviewInv, FormsNotAhead, AcceptedFormIsFresh, ApprovedUnchanged
<1>2. ReviewInv /\ TypeOK' /\ [Next]_vars => ReviewInv'
  <2> SUFFICES ASSUME ReviewInv, TypeOK', [Next]_vars PROVE ReviewInv'
    OBVIOUS
  <2>1. ASSUME Versioned, ApprovedUnchanged' PROVE ReviewInv'
    BY <2>1, VersionedKeepsForms DEF ReviewInv
  <2>2. CASE SellerNext
    BY <2>2, <2>1, SellerReview
  <2>3. CASE ModeratorNext
    BY <2>3, <2>1, ModeratorReview, OpenReviewKeepsForms DEF ReviewInv
  <2>4. CASE StaffNext
    BY <2>4, <2>1, StaffReview
  <2>5. CASE SchedulerNext
    BY <2>5, <2>1, SchedulerReview
  <2>6. CASE UNCHANGED vars
    BY <2>6, <2>1, ListingUntouchedReview DEF vars
  <2> QED
    BY <2>2, <2>3, <2>4, <2>5, <2>6 DEF Next
<1> QED
  BY <1>1, <1>2, TypeCorrect, PTL DEF Spec

\* No decision is taken on content its moderator has not seen: the revision check of
\* moderate_listing is enough, for any number of moderators and edits.
THEOREM DecisionsAreFresh == Spec => []AcceptedFormIsFresh
<1>1. ReviewInv => AcceptedFormIsFresh
  BY DEF ReviewInv
<1> QED
  BY <1>1, ReviewInvariant, PTL

\* Whatever is public by moderation, payment or direct approval was seen by its approver, in
\* the version that is public.
THEOREM PublicContentIsReviewed == Spec => []PublicContentReviewed
<1>1. ReviewInv => PublicContentReviewed
  BY DEF ReviewInv, ApprovedUnchanged, PublicContentReviewed
<1> QED
  BY <1>1, ReviewInvariant, PTL

-----------------------------------------------------------------------------
\* Publications: what they index, and the images they need.

\* A listing approved for payment has no image left to decide on, and no owner may add one.
AwaitedDecided == \A l \in Listing : status[l] = "awaiting_payment" => images[l]["pending"] = 0

PublicationInv == TypeOK /\ SearchDocumentCurrent /\ AwaitedDecided

ImagesApproved ==
  \A l \in Listing :
    status[l] # "published" /\ status'[l] = "published" /\ publishedBy'[l] \in {"moderator", "payment"}
      => images'[l]["approved"] >= required /\ images'[l]["pending"] = 0

PublicationKept == SearchDocumentCurrent' /\ AwaitedDecided' /\ ImagesApproved

\* A step that leaves a listing alone or takes it out of public and out of payment.
LEMMA QuietStep ==
  ASSUME PublicationInv,
         \A l \in Listing :
           \/ /\ status'[l] = status[l] /\ content'[l] = content[l] /\ images'[l] = images[l]
              /\ indexed'[l] = indexed[l] /\ publishedBy'[l] = publishedBy[l]
           \/ status'[l] \notin {"published", "awaiting_payment"}
  PROVE  PublicationKept
  BY DEF PublicationKept, PublicationInv, SearchDocumentCurrent, AwaitedDecided, ImagesApproved

LEMMA SellerPublication ==
  ASSUME PublicationInv, SellerNext
  PROVE  PublicationKept
<1> USE DEF PublicationInv, TypeOK, ListingTypeOK
<1>1. ASSUME NEW l \in Listing, OwnerWrite(l), \A x \in Listing \ {l} : images'[x] = images[x]
      PROVE  PublicationKept
  BY <1>1, QuietStep DEF OwnerWrite, OwnerEditable, DepublishMaterialEdit
<1>2. ASSUME NEW l \in Listing, EditListing(l) \/ AddImage(l) \/ \E d \in Decision : DeleteImage(l, d)
      PROVE  PublicationKept
  <2>1. OwnerWrite(l) /\ \A x \in Listing \ {l} : images'[x] = images[x]
    BY <1>2 DEF EditListing, AddImage, DeleteImage
  <2> QED
    BY <1>1, <2>1
<1>3. ASSUME NEW l \in Listing, SubmitListing(l) PROVE PublicationKept
  BY <1>3, QuietStep DEF SubmitListing
<1>4. ASSUME NEW l \in Listing, MarkSold(l) \/ Archive(l) \/ RestoreDraft(l) PROVE PublicationKept
  <2>1. PICK to \in {"sold", "archived", "draft"} : \E from : OwnerTransition(l, from, to)
    BY <1>4 DEF MarkSold, Archive, RestoreDraft
  <2> QED
    BY <2>1, QuietStep DEF OwnerTransition
<1>5. CASE UNCHANGED listingVars
  BY <1>5, QuietStep DEF listingVars
<1> QED
  BY <1>2, <1>3, <1>4, <1>5 DEF SellerNext

\* A decision: all pending images are decided, and an approval has enough of them.
LEMMA DecidedPublication ==
  ASSUME PublicationInv, NEW m \in Moderator, NEW l \in Listing, NEW k \in Nat, NEW from, NEW to,
         Decide(m, l, k, from, to),
         to = "published" => indexed' = [indexed EXCEPT ![l] = content[l]] /\ EnoughApproved(l, k),
         to # "published" => UNCHANGED <<indexed, publishedBy>>,
         \A x \in Listing \ {l} : publishedBy'[x] = publishedBy[x]
  PROVE  PublicationKept
<1> USE DEF PublicationInv, TypeOK, ListingTypeOK
<1>1. status'[l] = to /\ \A x \in Listing \ {l} : status'[x] = status[x] /\ images'[x] = images[x]
  BY DEF Decide, DecideImages
<1>2. images'[l]["pending"] = 0 /\ images'[l]["approved"] = images[l]["approved"] + k
  BY DEF Decide, DecideImages, Decision
<1>3. content' = content /\ \A x \in Listing \ {l} : indexed'[x] = indexed[x]
  BY DEF Decide
<1>4. to = "published" => indexed'[l] = content[l]
  OBVIOUS
<1>5. SearchDocumentCurrent'
  BY <1>1, <1>3, <1>4 DEF SearchDocumentCurrent
<1>6. AwaitedDecided'
  BY <1>1, <1>2 DEF AwaitedDecided
<1>7. ImagesApproved
  BY <1>1, <1>2 DEF ImagesApproved, EnoughApproved
<1> QED
  BY <1>5, <1>6, <1>7 DEF PublicationKept

LEMMA ModeratorPublication ==
  ASSUME PublicationInv, ModeratorNext
  PROVE  PublicationKept
<1>0. PICK m \in Moderator, l \in Listing :
        \/ OpenReview(m, l) \/ ClaimListing(m, l)
        \/ \E k \in 0..MaxImages : \/ Approve(m, l, k) \/ SendPaymentLink(m, l, k)
                                   \/ RequestChanges(m, l, k) \/ Reject(m, l, k) \/ Suspend(m, l, k)
  BY DEF ModeratorNext
<1>1. CASE OpenReview(m, l) \/ ClaimListing(m, l)
  BY <1>1, QuietStep DEF OpenReview, ClaimListing
<1>2. ASSUME NEW k \in 0..MaxImages, Approve(m, l, k) PROVE PublicationKept
  <2>1. PICK expiry : DecidePublish(m, l, k, expiry)
    BY <1>2 DEF Approve
  <2>2. \A x \in Listing \ {l} : publishedBy'[x] = publishedBy[x]
    BY <2>1 DEF DecidePublish, PublicationInv, TypeOK, ListingTypeOK
  <2>3. /\ k \in Nat /\ Decide(m, l, k, {"in_review"}, "published")
        /\ indexed' = [indexed EXCEPT ![l] = content[l]] /\ EnoughApproved(l, k)
    BY <2>1, ListingAssumption DEF DecidePublish
  <2> QED
    BY <2>2, <2>3, DecidedPublication
<1>3. ASSUME NEW k \in 0..MaxImages,
             SendPaymentLink(m, l, k) \/ RequestChanges(m, l, k) \/ Reject(m, l, k) \/ Suspend(m, l, k)
      PROVE  PublicationKept
  <2>1. PICK to \in {"awaiting_payment", "changes_requested", "rejected", "suspended"} :
          \E from : Decide(m, l, k, from, to)
    BY <1>3 DEF SendPaymentLink, DecidePaymentLink, RequestChanges, DecideChanges, Reject, DecideReject,
      Suspend, DecideSuspend
  <2>2. UNCHANGED <<indexed, publishedBy>>
    BY <1>3 DEF SendPaymentLink, DecidePaymentLink, RequestChanges, DecideChanges, Reject, DecideReject,
      Suspend, DecideSuspend
  <2> QED
    BY <2>1, <2>2, DecidedPublication
<1> QED
  BY <1>0, <1>1, <1>2, <1>3

LEMMA StaffPublication ==
  ASSUME PublicationInv, StaffNext
  PROVE  PublicationKept
<1> USE DEF PublicationInv, TypeOK, ListingTypeOK
<1>1. ASSUME NEW o \in OrderId, ProcessPayment(o) PROVE PublicationKept
  <2> DEFINE l == order[o].listing
  <2>1. l \in Listing
    BY <1>1, PlacedOrder DEF ProcessPayment, Order, OrderStatus
  <2>2. CASE PayNewListing(o)
    <3>1. /\ status[l] = "awaiting_payment" /\ images[l]["approved"] >= required
          /\ PublishPaid(l, now + Duration)
      BY <2>2 DEF PayNewListing
    <3> HIDE DEF l
    <3> QED
      BY <2>1, <3>1 DEF PublishPaid, PublicationKept, SearchDocumentCurrent, AwaitedDecided, ImagesApproved
  <2>3. CASE PayTooEarly(o)
    BY <2>3, QuietStep DEF PayTooEarly, listingVars
  <2>4. CASE PayRenewal(o)
    <3>1. PublishRenewed(l, now + Duration)
      BY <2>4 DEF PayRenewal
    <3> HIDE DEF l
    <3> QED
      BY <2>1, <3>1 DEF PublishRenewed, PublicationKept, SearchDocumentCurrent, AwaitedDecided, ImagesApproved
  <2> QED
    BY <1>1, <2>2, <2>3, <2>4 DEF ProcessPayment
<1>2. ASSUME NEW l \in Listing, PublishDirect(l) PROVE PublicationKept
  BY <1>2 DEF PublishDirect, PublicationKept, SearchDocumentCurrent, AwaitedDecided, ImagesApproved
<1>3. ASSUME NEW n \in ImagePolicy, SetImagePolicy(n) PROVE PublicationKept
  BY <1>3, QuietStep DEF SetImagePolicy
<1> QED
  BY <1>1, <1>2, <1>3 DEF StaffNext, ConfirmPayment, ReplayPayment

LEMMA SchedulerPublication ==
  ASSUME PublicationInv, SchedulerNext
  PROVE  PublicationKept
<1>1. ASSUME NEW batch \in SUBSET Listing, ExpireDue(batch) PROVE PublicationKept
  BY <1>1, QuietStep DEF ExpireDue, PublicationInv, TypeOK, ListingTypeOK
<1>2. CASE Tick
  BY <1>2, QuietStep DEF Tick
<1> QED
  BY <1>1, <1>2 DEF SchedulerNext

LEMMA NextPublication ==
  ASSUME PublicationInv, [Next]_vars
  PROVE  PublicationKept
<1>1. CASE UNCHANGED vars
  BY <1>1, QuietStep DEF vars, listingVars
<1> QED
  BY <1>1, SellerPublication, ModeratorPublication, StaffPublication, SchedulerPublication DEF Next

THEOREM PublicationInvariant == Spec => []PublicationInv
<1>1. Init => PublicationInv
  BY InitType DEF Init, ListingInit, PublicationInv, SearchDocumentCurrent, AwaitedDecided
<1>2. PublicationInv /\ TypeOK' /\ [Next]_vars => PublicationInv'
  BY NextPublication DEF PublicationInv, PublicationKept
<1> QED
  BY <1>1, <1>2, TypeCorrect, PTL DEF Spec

\* Full-text search never matches a listing published by approval or payment by content it no
\* longer has: every such publication rebuilds the document, and every edit hides the listing.
THEOREM SearchIsCurrent == Spec => []SearchDocumentCurrent
<1>1. PublicationInv => SearchDocumentCurrent
  BY DEF PublicationInv
<1> QED
  BY <1>1, PublicationInvariant, PTL

\* An approval, and the payment that may follow it much later, publish a listing only with
\* enough approved images and none undecided.
THEOREM PublishedImagesApproved == Spec => PublishedWithApprovedImages
<1>1. PublicationInv /\ [Next]_vars => [ImagesApproved]_vars
  BY NextPublication DEF PublicationKept
<1>2. [ImagesApproved]_vars =>
        [\A l \in Listing :
           status[l] # "published" /\ status'[l] = "published"
             /\ publishedBy'[l] \in {"moderator", "payment"}
           => images'[l]["approved"] >= required /\ images'[l]["pending"] = 0]_vars
  BY DEF ImagesApproved
<1> QED
  BY <1>1, <1>2, PublicationInvariant, PTL DEF Spec, PublishedWithApprovedImages
=============================================================================
