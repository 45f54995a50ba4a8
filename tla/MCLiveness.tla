----------------------------- MODULE MCLiveness -----------------------------
(***************************************************************************)
(* What must eventually happen, in one run: the deliveries of the outbox,  *)
(* the scheduled commands of the storefront, and the cleanup of uploads.   *)
(* Each behaviour is a behaviour of one of the three, named by part, while *)
(* the other two rest.                                                     *)
(***************************************************************************)
EXTENDS Outbox, Storefront, Media

VARIABLE part

liveVars == <<part, vars, storefrontVars, mediaVars>>

LiveInit == part \in {"outbox", "storefront", "media"} /\ Init /\ StorefrontInit /\ MediaInit

OutboxStep(A) == part = "outbox" /\ A /\ UNCHANGED <<part, storefrontVars, mediaVars>>
StorefrontStep(A) == part = "storefront" /\ A /\ UNCHANGED <<part, vars, mediaVars>>
MediaStep(A) == part = "media" /\ A /\ UNCHANGED <<part, vars, storefrontVars>>

LiveNext == OutboxStep(Next) \/ StorefrontStep(StorefrontNext) \/ MediaStep(MediaNext)

\* FairSpec, StorefrontFairness and MediaFairness, each for the behaviours of its part.
LiveSpec ==
    /\ LiveInit /\ [][LiveNext]_liveVars
    /\ \A w \in Worker : WF_liveVars(OutboxStep(WorkerStep(w)))
    /\ WF_liveVars(OutboxStep(Tick))
    /\ WF_liveVars(StorefrontStep(LetGo))
    /\ SF_liveVars(StorefrontStep(ExpireListings))
    /\ SF_liveVars(StorefrontStep(ScheduleReminders))
    /\ WF_liveVars(MediaStep(Clean))
    /\ \A i \in Items : WF_liveVars(MediaStep(Progress(i)))
    /\ \A i \in Images : WF_liveVars(MediaStep(Lapse(i) \/ Age(i)))

CONSTANTS approved, w1, w2

OneEvent == {approved}
TwoWorkers == {w1, w2}
=============================================================================
