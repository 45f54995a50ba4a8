--------------------------- MODULE MCMarketplace ----------------------------
(***************************************************************************)
(* Finite instances of Marketplace.  Orders and moderators are             *)
(* interchangeable: no service compares their identities.                  *)
(***************************************************************************)
EXTENDS Marketplace, TLC

CONSTANTS l1, m1, m2, o1, o2, o3

OneListing == {l1}
OneModerator == {m1}
TwoModerators == {m1, m2}
OneOrder == {o1}
TwoOrders == {o1, o2}
ThreeOrders == {o1, o2, o3}
ZeroOrOneImage == {0, 1}
NoMinimum == {0}
Nothing == {}

Symmetry == Permutations(Moderator) \cup Permutations(OrderId)
=============================================================================
