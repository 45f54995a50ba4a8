------------------------------- MODULE Outbox -------------------------------
(***************************************************************************)
(* The transactional outbox of src/src/apps/core/outbox.py.  Domain        *)
(* transactions record events; worker processes lease batches of them and  *)
(* deliver each event in three separate steps: a transaction that checks   *)
(* the lease, the handler that sends the mail with no transaction open,    *)
(* and a transaction that records the outcome.  Workers may be slow, may   *)
(* crash between any two steps, and an operator may replay events.         *)
(*                                                                         *)
(* Time is kept as ages and waits, so the model needs no bound on it.      *)
(***************************************************************************)
EXTENDS Naturals, FiniteSets

CONSTANTS
  Event,         \* the rows of OutboxEvent
  Unsupported,   \* the events whose type _handler_for does not know
  Worker,        \* the worker processes, by their worker_id
  NoWorker,      \* the empty locked_by
  Idle,          \* what a worker that delivers nothing is doing
  BatchSize,     \* how many events one claim leases
  Lease,         \* OUTBOX_LEASE_SECONDS, in ticks
  RetryDelay,    \* _retry_delay, in ticks: 2 to 256 seconds
  MaxAttempts,   \* OUTBOX_MAX_ATTEMPTS
  \* Bounds of the model checker, with no counterpart in the code.
  MaxCrashes,    \* how many times workers crash
  MaxLapses,     \* how many times workers outlive their leases
  MaxReplays     \* how many times the operator replays an event

ASSUME OutboxAssumption ==
  /\ Unsupported \subseteq Event
  /\ NoWorker \notin Worker /\ IsFiniteSet(Worker)
  /\ Idle \notin [event : Event, stage : {"handling", "sent", "raised"}]
  /\ BatchSize \in Nat \ {0} /\ Lease \in Nat \ {0} /\ MaxAttempts \in Nat \ {0}
  /\ RetryDelay \in Nat \ {0}
  /\ MaxCrashes \in Nat /\ MaxLapses \in Nat /\ MaxReplays \in Nat

VARIABLES
  recorded,    \* the events enqueued by a committed transaction
  wait,        \* ticks until available_at
  lockedBy,    \* OutboxEvent.locked_by
  age,         \* ticks since locked_at, as far as a lease can tell
  attempts,    \* OutboxEvent.attempt_count
  processed,   \* processed_at is set
  failed,      \* failed_at is set
  attempt,     \* what the latest OutboxDeliveryAttempt row records
  batch,       \* the claimed events a worker has not come to yet
  doing,       \* the event a worker delivers, and how far it is
  held,        \* ticks since a worker's claim, as far as a lease can tell
  sends,       \* history: the mails sent for an event, counted to 2
  excused,     \* history: the events that may be mailed twice, see SingleMail
  crashes, lapses, replays

bounds == <<crashes, lapses, replays>>
eventVars == <<recorded, wait, lockedBy, age, attempts, processed, failed, attempt>>
workerVars == <<batch, doing, held>>
vars == <<eventVars, workerVars, sends, excused, bounds>>

Stage == {"handling", "sent", "raised"}
Delivery == [event : Event, stage : Stage]
AgeRange == 0..(Lease + 1)

TypeOK ==
  /\ recorded \in SUBSET Event
  /\ wait \in [Event -> 0..RetryDelay]
  /\ lockedBy \in [Event -> Worker \cup {NoWorker}]
  /\ age \in [Event -> AgeRange]
  /\ attempts \in [Event -> Nat]
  /\ processed \in [Event -> BOOLEAN]
  /\ failed \in [Event -> BOOLEAN]
  /\ attempt \in [Event -> SUBSET {"succeeded", "error"}]
  /\ batch \in [Worker -> SUBSET Event]
  /\ doing \in [Worker -> Delivery \cup {Idle}]
  /\ held \in [Worker -> AgeRange]
  /\ sends \in [Event -> 0..2]
  /\ excused \in SUBSET Event
  /\ crashes \in 0..MaxCrashes
  /\ lapses \in 0..MaxLapses
  /\ replays \in 0..MaxReplays

Init ==
  /\ recorded = {}
  /\ wait = [e \in Event |-> 0]
  /\ lockedBy = [e \in Event |-> NoWorker]
  /\ age = [e \in Event |-> 0]
  /\ attempts = [e \in Event |-> 0]
  /\ processed = [e \in Event |-> FALSE]
  /\ failed = [e \in Event |-> FALSE]
  /\ attempt = [e \in Event |-> {}]
  /\ batch = [w \in Worker |-> {}]
  /\ doing = [w \in Worker |-> Idle]
  /\ held = [w \in Worker |-> 0]
  /\ sends = [e \in Event |-> 0]
  /\ excused = {}
  /\ crashes = 0
  /\ lapses = 0
  /\ replays = 0

-----------------------------------------------------------------------------
Settled(e) == processed[e] \/ failed[e]
Doing(w, e, stages) == doing[w] # Idle /\ doing[w].event = e /\ doing[w].stage \in stages
Busy(w) == doing[w] # Idle \/ batch[w] # {}

\* Plausible bugs: a lease ends a tick early; a lease never ends.
BugLeaseEndsEarly(e) == lockedBy[e] = NoWorker \/ age[e] >= Lease
BugLeaseNeverEnds(e) == lockedBy[e] = NoWorker

\* locked_at IS NULL or locked_at < now - lease.
Unleased(e) == lockedBy[e] = NoWorker \/ age[e] > Lease

Claimable == {e \in recorded : ~Settled(e) /\ wait[e] = 0 /\ Unleased(e)}

Unlock(e) ==
  /\ lockedBy' = [lockedBy EXCEPT ![e] = NoWorker]
  /\ age' = [age EXCEPT ![e] = 0]

-----------------------------------------------------------------------------
\* A domain transaction commits with the event it enqueued.
Enqueue(e) ==
  /\ e \notin recorded
  /\ recorded' = recorded \cup {e}
  /\ UNCHANGED <<wait, lockedBy, age, attempts, processed, failed, attempt, workerVars, sends,
                 excused, bounds>>

\* claim_events: rows locked by another claim are skipped, so any of them may be missing.
Claim(w) ==
  /\ ~Busy(w)
  /\ \E claim \in SUBSET Claimable :
       /\ claim # {} /\ Cardinality(claim) <= BatchSize
       /\ attempts' = [e \in Event |-> IF e \in claim THEN attempts[e] + 1 ELSE attempts[e]]
       /\ lockedBy' = [e \in Event |-> IF e \in claim THEN w ELSE lockedBy[e]]
       /\ age' = [e \in Event |-> IF e \in claim THEN 0 ELSE age[e]]
       /\ attempt' = [e \in Event |-> IF e \in claim THEN {} ELSE attempt[e]]
       /\ batch' = [batch EXCEPT ![w] = claim]
  /\ held' = [held EXCEPT ![w] = 0]
  /\ UNCHANGED <<recorded, wait, processed, failed, doing, sends, excused, bounds>>

\* A plausible bug: the worker trusts its claim and does not look at the lease again.
BugLeaseNotRechecked(w, e) == ~Settled(e) /\ w \in Worker

\* The conditions of deliver_event's first transaction.
HoldsLease(w, e) == ~Settled(e) /\ lockedBy[e] = w

\* The next event of the batch: its delivery begins, or it is skipped.
Begin(w) ==
  /\ doing[w] = Idle
  /\ \E e \in batch[w] :
       /\ batch' = [batch EXCEPT ![w] = @ \ {e}]
       /\ \/ /\ HoldsLease(w, e)
             /\ doing' = [doing EXCEPT ![w] = [event |-> e, stage |-> "handling"]]
             /\ excused' = IF held[w] > Lease THEN excused \cup {e} ELSE excused
          \/ /\ ~HoldsLease(w, e)
             /\ UNCHANGED <<doing, excused>>
  /\ UNCHANGED <<eventVars, held, sends, bounds>>

Mailed(e) == sends' = [sends EXCEPT ![e] = IF @ = 2 THEN 2 ELSE @ + 1]

\* The handler returns: the mail is sent.
Send(w) ==
  \E e \in Event \ Unsupported :
    /\ Doing(w, e, {"handling"})
    /\ doing' = [doing EXCEPT ![w].stage = "sent"]
    /\ Mailed(e)
    /\ UNCHANGED <<eventVars, batch, held, excused, bounds>>

\* The handler raises.  The mail backend may fail after it has accepted the mail.
Raise(w) ==
  \E e \in Event :
    /\ Doing(w, e, {"handling"})
    /\ doing' = [doing EXCEPT ![w].stage = "raised"]
    /\ \/ UNCHANGED <<sends, excused>>
       \/ e \notin Unsupported /\ Mailed(e) /\ excused' = excused \cup {e}
    /\ UNCHANGED <<eventVars, batch, held, bounds>>

\* The last transaction of a delivery that succeeded.  It does not look at the lease: by now
\* the event and its latest attempt may be another worker's.
Succeed(w) ==
  \E e \in Event :
    /\ Doing(w, e, {"sent"})
    /\ doing' = [doing EXCEPT ![w] = Idle]
    /\ processed' = [processed EXCEPT ![e] = TRUE]
    /\ attempt' = [attempt EXCEPT ![e] = @ \cup {"succeeded"}]
    /\ Unlock(e)
    /\ UNCHANGED <<recorded, wait, attempts, failed, batch, held, sends, excused, bounds>>

\* A plausible bug: the delay grows with every attempt and is not capped.
BugDelayUncapped(e) ==
  /\ attempt' = [attempt EXCEPT ![e] = @ \cup {"error"}]
  /\ wait' = [wait EXCEPT ![e] = RetryDelay * attempts[e]]
  /\ UNCHANGED failed

\* A plausible bug: only the event, not the attempt, records a terminal failure.
BugTerminalFailureUnlogged(e) ==
  \/ /\ attempts[e] >= MaxAttempts
     /\ failed' = [failed EXCEPT ![e] = TRUE]
     /\ UNCHANGED <<wait, attempt>>
  \/ /\ attempts[e] < MaxAttempts
     /\ wait' = [wait EXCEPT ![e] = RetryDelay]
     /\ attempt' = [attempt EXCEPT ![e] = @ \cup {"error"}]
     /\ UNCHANGED failed

\* A plausible bug: the last attempt is retried once more.
BugOneAttemptMore(e) ==
  /\ attempt' = [attempt EXCEPT ![e] = @ \cup {"error"}]
  /\ \/ /\ attempts[e] > MaxAttempts
        /\ failed' = [failed EXCEPT ![e] = TRUE]
        /\ UNCHANGED wait
     \/ /\ attempts[e] <= MaxAttempts
        /\ wait' = [wait EXCEPT ![e] = RetryDelay]
        /\ UNCHANGED failed

\* A failure is terminal after the last attempt, and retried after a delay before that.
RecordFailure(e) ==
  /\ attempt' = [attempt EXCEPT ![e] = @ \cup {"error"}]
  /\ \/ /\ attempts[e] >= MaxAttempts
        /\ failed' = [failed EXCEPT ![e] = TRUE]
        /\ UNCHANGED wait
     \/ /\ attempts[e] < MaxAttempts
        /\ wait' = [wait EXCEPT ![e] = RetryDelay]
        /\ UNCHANGED failed

\* The last transaction of a delivery that raised.  It does not look at the lease either.
Fail(w) ==
  \E e \in Event :
    /\ Doing(w, e, {"raised"})
    /\ doing' = [doing EXCEPT ![w] = Idle]
    /\ RecordFailure(e)
    /\ Unlock(e)
    /\ UNCHANGED <<recorded, attempts, processed, batch, held, sends, excused, bounds>>

\* A worker process dies; what it has claimed stays leased.
Crash(w) ==
  /\ Busy(w)
  /\ crashes < MaxCrashes
  /\ crashes' = crashes + 1
  /\ batch' = [batch EXCEPT ![w] = {}]
  /\ doing' = [doing EXCEPT ![w] = Idle]
  /\ excused' = excused \cup {e \in Event : Doing(w, e, {"sent"})}
  /\ UNCHANGED <<eventVars, held, sends, lapses, replays>>

\* replay_failed_event, which accepts any event that is not processed.
Replay(e) ==
  /\ e \in recorded /\ ~processed[e]
  /\ replays < MaxReplays
  /\ replays' = replays + 1
  /\ failed' = [failed EXCEPT ![e] = FALSE]
  /\ wait' = [wait EXCEPT ![e] = 0]
  /\ Unlock(e)
  /\ excused' = excused \cup {f \in {e} : \E w \in Worker : Doing(w, e, Stage)}
  /\ UNCHANGED <<recorded, attempts, processed, attempt, workerVars, sends, crashes, lapses>>

\* The busy workers whose lease has just reached its last tick.
AtLeaseEnd == {w \in Worker : Busy(w) /\ held[w] = Lease}
Older(t) == IF t > Lease THEN t ELSE t + 1

Tick ==
  /\ lapses + Cardinality(AtLeaseEnd) <= MaxLapses
  /\ lapses' = lapses + Cardinality(AtLeaseEnd)
  /\ wait' = [e \in Event |-> IF wait[e] = 0 THEN 0 ELSE wait[e] - 1]
  /\ age' = [e \in Event |-> IF lockedBy[e] = NoWorker THEN 0 ELSE Older(age[e])]
  /\ held' = [w \in Worker |-> IF Busy(w) THEN Older(held[w]) ELSE 0]
  /\ excused' = excused \cup {e \in Event : \E w \in Worker : Doing(w, e, Stage) /\ held'[w] > Lease}
  /\ UNCHANGED <<recorded, lockedBy, attempts, processed, failed, attempt, batch, doing, sends,
                 crashes, replays>>

WorkerStep(w) == Claim(w) \/ Begin(w) \/ Send(w) \/ Raise(w) \/ Succeed(w) \/ Fail(w)

Next ==
  \/ \E e \in Event : Enqueue(e) \/ Replay(e)
  \/ \E w \in Worker : WorkerStep(w) \/ Crash(w)
  \/ Tick

Spec == Init /\ [][Next]_vars

\* The worker command is started again and again, its steps end, and time passes.  Nothing is
\* assumed of the transactions that enqueue, of the operator, or of the mail backend.
FairSpec ==
  /\ Spec
  /\ \A w \in Worker : WF_vars(WorkerStep(w))
  /\ WF_vars(Tick)

-----------------------------------------------------------------------------
\* What the rows say of an event is what happened to it, after whatever crashes, lapsed leases
\* and replays: it is processed only if a mail was sent for it, by whichever worker, and its
\* latest attempt, which the operator inspects, records a success when it is processed and an
\* error when it failed for good.
LogTellsOutcome ==
  \A e \in Event : /\ processed[e] => sends[e] > 0 /\ "succeeded" \in attempt[e]
                   /\ failed[e] => "error" \in attempt[e]

\* No handler raises for ever: beyond OUTBOX_MAX_ATTEMPTS, an event is claimed once more for
\* each death of a worker, each lease outlived and each replay, and for nothing else, although
\* attempt_count is compared only when a handler raises and late workers free leases they
\* have lost.
AttemptsBounded == \A e \in Event : attempts[e] <= MaxAttempts + crashes + lapses + replays

\* A second mail needs an excuse: a worker that outlived its lease or died after sending, a
\* mail backend that failed after sending, or a replay of an event being delivered.  Two
\* workers that finish within their leases never send the same mail.
SingleMail == \A e \in Event : sends[e] > 1 => e \in excused

\* Every recorded event is processed or fails for good, though workers crash and leases lapse.
EventsSettle == \A e \in Event : e \in recorded ~> Settled(e)

-----------------------------------------------------------------------------
\* What the repository's documents say of the same code; the runs of these properties are
\* expected to find a counterexample, and the findings quote the documents.

\* "Leased events are not concurrently processed": two workers inside their leases never
\* handle the same event.
LeaseExclusion ==
  \A v, w \in Worker, e \in Event :
    v # w /\ Doing(v, e, {"handling"}) /\ Doing(w, e, {"handling"})
      => held[v] > Lease \/ held[w] > Lease

\* "Terminal failures can be explicitly replayed": replay_failed_event leaves processed events
\* alone, so an event that failed for good must not be processed as well.
FailuresAreReplayable == \A e \in Event : failed[e] => ~processed[e]
=============================================================================
