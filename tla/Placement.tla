----------------------------- MODULE Placement ------------------------------
(***************************************************************************)
(* What the marketplace promises about money, without its lifecycle: a     *)
(* seller is asked for a charge, the charge is taken only in the step that *)
(* puts the listing before buyers, it is returned only when the listing is *)
(* refused, then in full, and nothing else ever moves money.               *)
(***************************************************************************)
CONSTANTS Listing, OrderId, NoListing

VARIABLES
  live,     \* the listings buyers can be shown
  charge,   \* the state of each charge
  payer     \* the listing each charge is for

Init ==
  /\ live = [l \in Listing |-> FALSE]
  /\ charge = [o \in OrderId |-> "none"]
  /\ payer = [o \in OrderId |-> NoListing]

Ask(o, l) ==
  /\ charge[o] = "none"
  /\ charge' = [charge EXCEPT ![o] = "asked"]
  /\ payer' = [payer EXCEPT ![o] = l]
  /\ UNCHANGED live

\* A charge is taken and its listing shown, in one step.
Settle(o) ==
  /\ charge[o] = "asked"
  /\ charge' = [charge EXCEPT ![o] = "held"]
  /\ live' = [live EXCEPT ![payer[o]] = TRUE]
  /\ UNCHANGED payer

\* A listing is shown on what was paid before, or for free.
Show(l) ==
  /\ live' = [live EXCEPT ![l] = TRUE]
  /\ UNCHANGED <<charge, payer>>

Hide(batch) ==
  /\ live' = [l \in Listing |-> live[l] /\ l \notin batch]
  /\ UNCHANGED <<charge, payer>>

\* A listing is refused: it is hidden and every charge held for it is returned.
Refuse(l) ==
  /\ live' = [live EXCEPT ![l] = FALSE]
  /\ charge' = [o \in OrderId |-> IF charge[o] = "held" /\ payer[o] = l THEN "returned"
                                                                      ELSE charge[o]]
  /\ UNCHANGED payer

Next ==
  \/ \E o \in OrderId : Settle(o) \/ \E l \in Listing : Ask(o, l)
  \/ \E l \in Listing : Show(l) \/ Refuse(l)
  \/ \E batch \in SUBSET Listing : Hide(batch)

Spec == Init /\ [][Next]_<<live, charge, payer>>
=============================================================================
