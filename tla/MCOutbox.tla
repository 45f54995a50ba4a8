------------------------------ MODULE MCOutbox ------------------------------
(***************************************************************************)
(* Finite instances of Outbox: a mail the worker can send, one whose event *)
(* type no handler knows, and two workers.                                 *)
(***************************************************************************)
EXTENDS Outbox, TLC

CONSTANTS approved, paymentReady, w1, w2

OneEvent == {approved}
TwoEvents == {approved, paymentReady}
NoHandler == {paymentReady}
NoneUnsupported == {}
TwoWorkers == {w1, w2}

\* Workers are interchangeable; used by the safety runs only.
Symmetry == Permutations(Worker)
=============================================================================
