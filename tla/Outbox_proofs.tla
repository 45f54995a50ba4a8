--------------------------- MODULE Outbox_proofs ---------------------------
(***************************************************************************)
(* Proofs about the outbox, for any number of events and workers, any      *)
(* batch, lease, delay and number of attempts, crashes, lapses, replays.   *)
(***************************************************************************)
EXTENDS Outbox, FiniteSetTheorems, TLAPS

LEMMA IdleIsNoDelivery == Idle \notin Delivery
BY OutboxAssumption DEF Delivery, Stage

LEMMA LapsesCount == Cardinality(AtLeaseEnd) \in Nat
<1>1. IsFiniteSet(AtLeaseEnd)
  BY OutboxAssumption, FS_Subset DEF AtLeaseEnd
<1>2. QED
  BY <1>1, FS_CardinalityType

-----------------------------------------------------------------------------
\* The events and their bookkeeping.
LEMMA TypeOfOperator ==
    ASSUME TypeOK, NEW e \in Event, Enqueue(e) \/ Replay(e)
    PROVE  TypeOK'
<1>1. CASE Enqueue(e)
  BY <1>1 DEF Enqueue, TypeOK, workerVars, bounds
<1>2. CASE Replay(e)
  BY <1>2, OutboxAssumption DEF Replay, Unlock, TypeOK, workerVars, AgeRange
<1>3. QED
  BY <1>1, <1>2

LEMMA TypeOfClaim == ASSUME TypeOK, NEW w \in Worker, Claim(w) PROVE TypeOK'
BY OutboxAssumption DEF Claim, Claimable, TypeOK, AgeRange, bounds

LEMMA TypeOfBegin == ASSUME TypeOK, NEW w \in Worker, Begin(w) PROVE TypeOK'
<1>1. PICK e \in batch[w] :
        /\ batch' = [batch EXCEPT ![w] = @ \ {e}]
        /\ \/ /\ doing' = [doing EXCEPT ![w] = [event |-> e, stage |-> "handling"]]
              /\ excused' = IF held[w] > Lease THEN excused \cup {e} ELSE excused
           \/ UNCHANGED <<doing, excused>>
  BY DEF Begin
<1>2. e \in Event
  BY <1>1 DEF TypeOK
<1>3. UNCHANGED <<eventVars, held, sends, bounds>>
  BY DEF Begin
<1>4. batch' \in [Worker -> SUBSET Event] /\ doing' \in [Worker -> Delivery \cup {Idle}] /\ excused' \in SUBSET Event
  BY <1>1, <1>2 DEF TypeOK, Delivery, Stage
<1>5. QED
  BY <1>3, <1>4 DEF TypeOK, eventVars, bounds

\* A delivery at a stage is a record, whose stage may be replaced.
LEMMA StageReplaced ==
    ASSUME TypeOK, NEW w \in Worker, doing[w] # Idle, NEW s \in Stage
    PROVE  /\ [doing EXCEPT ![w].stage = s] \in [Worker -> Delivery \cup {Idle}]
           /\ [doing EXCEPT ![w].stage = s][w] = [event |-> doing[w].event, stage |-> s]
           /\ \A v \in Worker \ {w} : [doing EXCEPT ![w].stage = s][v] = doing[v]
BY DEF TypeOK, Delivery

LEMMA TypeOfHandler == ASSUME TypeOK, NEW w \in Worker, Send(w) \/ Raise(w) PROVE TypeOK'
<1>1. PICK e \in Event, s \in Stage :
        /\ doing[w] # Idle /\ doing' = [doing EXCEPT ![w].stage = s]
        /\ Mailed(e) \/ UNCHANGED sends
        /\ excused' \in {excused, excused \cup {e}}
  BY DEF Send, Raise, Doing, Stage
<1>2. UNCHANGED <<eventVars, batch, held, bounds>>
  BY DEF Send, Raise
<1>3. doing' \in [Worker -> Delivery \cup {Idle}]
  BY <1>1, StageReplaced
<1>4. sends' \in [Event -> 0..2] /\ excused' \in SUBSET Event
  BY <1>1 DEF TypeOK, Mailed
<1>5. QED
  BY <1>2, <1>3, <1>4 DEF TypeOK, eventVars, bounds

LEMMA TypeOfRecord == ASSUME TypeOK, NEW w \in Worker, Succeed(w) \/ Fail(w) PROVE TypeOK'
<1>1. CASE Succeed(w)
  BY <1>1, OutboxAssumption DEF Succeed, Unlock, TypeOK, AgeRange, bounds
<1>2. CASE Fail(w)
  <2>1. PICK e \in Event : RecordFailure(e) /\ Unlock(e)
    BY <1>2 DEF Fail
  <2>2. wait' \in [Event -> 0..RetryDelay] /\ failed' \in [Event -> BOOLEAN]
    <3>1. RetryDelay \in 0..RetryDelay
      BY OutboxAssumption
    <3>2. wait' \in {wait, [wait EXCEPT ![e] = RetryDelay]} /\ failed' \in {failed, [failed EXCEPT ![e] = TRUE]}
      BY <2>1, Zenon DEF RecordFailure
    <3>3. QED
      BY <3>1, <3>2 DEF TypeOK
  <2>3. attempt' \in [Event -> SUBSET {"succeeded", "error"}]
    BY <2>1 DEF RecordFailure, TypeOK
  <2>4. lockedBy' \in [Event -> Worker \cup {NoWorker}] /\ age' \in [Event -> AgeRange]
    BY <2>1, OutboxAssumption DEF Unlock, TypeOK, AgeRange
  <2>5. doing' \in [Worker -> Delivery \cup {Idle}]
    BY <1>2 DEF Fail, TypeOK
  <2>6. UNCHANGED <<recorded, attempts, processed, batch, held, sends, excused, bounds>>
    BY <1>2 DEF Fail
  <2>7. QED
    BY <2>2, <2>3, <2>4, <2>5, <2>6 DEF TypeOK, bounds
<1>3. QED
  BY <1>1, <1>2

LEMMA TypeOfCrash == ASSUME TypeOK, NEW w \in Worker, Crash(w) PROVE TypeOK'
<1>1. crashes' \in 0..MaxCrashes
  BY OutboxAssumption DEF Crash, TypeOK
<1>2. QED
  BY <1>1 DEF Crash, TypeOK, eventVars

LEMMA TypeOfTick == ASSUME TypeOK, Tick PROVE TypeOK'
<1>1. lapses' \in 0..MaxLapses
  BY LapsesCount, OutboxAssumption DEF Tick, TypeOK
<1>2. \A t \in AgeRange : Older(t) \in AgeRange
  BY OutboxAssumption DEF Older, AgeRange
<1>3. age' \in [Event -> AgeRange] /\ held' \in [Worker -> AgeRange] /\ wait' \in [Event -> 0..RetryDelay]
  BY <1>2, OutboxAssumption DEF Tick, TypeOK, AgeRange
<1>4. excused' \in SUBSET Event
  BY DEF Tick, TypeOK
<1>5. QED
  BY <1>1, <1>3, <1>4 DEF Tick, TypeOK

\* Every event, lease and worker is in a state its columns allow.
THEOREM OutboxTypeCorrect == Spec => []TypeOK
<1>1. Init => TypeOK
  BY OutboxAssumption DEF Init, TypeOK, AgeRange
<1>2. TypeOK /\ [Next]_vars => TypeOK'
  <2> SUFFICES ASSUME TypeOK, [Next]_vars PROVE TypeOK'
    OBVIOUS
  <2>1. CASE UNCHANGED vars
    BY <2>1 DEF vars, eventVars, workerVars, bounds, TypeOK
  <2>2. CASE Next
    BY <2>2, TypeOfOperator, TypeOfClaim, TypeOfBegin, TypeOfHandler, TypeOfRecord, TypeOfCrash, TypeOfTick
    DEF Next, WorkerStep
  <2>3. QED
    BY <2>1, <2>2
<1>3. QED
  BY <1>1, <1>2, PTL DEF Spec

-----------------------------------------------------------------------------
\* What a delivery past its handler says of the mails.
SentIsMailed ==
    \A e \in Event : /\ processed[e] => sends[e] > 0
                     /\ \A w \in Worker : Doing(w, e, {"sent"}) => sends[e] > 0

\* An event no excuse is known for is in the hands of one worker at most, which holds its
\* lease and has not outlived it; it has a mail only when that worker has just sent it,
\* or when it is processed.
Owned ==
    \A e \in Event \ excused, w \in Worker : Doing(w, e, Stage) =>
        /\ lockedBy[e] = w /\ age[e] = held[w] /\ held[w] <= Lease
        /\ ~ processed[e]
        /\ Doing(w, e, {"handling", "raised"}) => sends[e] = 0

SentOnce ==
    \A e \in Event \ excused :
        /\ sends[e] <= 1
        /\ sends[e] = 1 => processed[e] \/ \E w \in Worker : Doing(w, e, {"sent"})

\* A worker that still holds the lease of an event of its batch has it since its last claim.
Aligned ==
    \A w \in Worker, e \in Event : e \in batch[w] /\ lockedBy[e] = w => age[e] = held[w]

\* The latest attempt row of a finished event.
RowsTell ==
    \A e \in Event : /\ processed[e] => "succeeded" \in attempt[e]
                     /\ failed[e] => "error" \in attempt[e]

DeliveryInv == TypeOK /\ SentIsMailed /\ Owned /\ SentOnce /\ Aligned /\ RowsTell

\* The operator: an event is enqueued, or replayed, which excuses it if a worker has it.
LEMMA OperatorKeeps ==
    ASSUME DeliveryInv, NEW e \in Event, Enqueue(e) \/ Replay(e)
    PROVE  SentIsMailed' /\ Owned' /\ SentOnce' /\ Aligned' /\ RowsTell'
<1> USE DEF DeliveryInv
<1>1. CASE Enqueue(e)
  BY <1>1 DEF Enqueue, workerVars, bounds, SentIsMailed, Owned, SentOnce, Aligned, RowsTell, Doing
<1>2. CASE Replay(e)
  <2>1. /\ \A f \in Event \ {e} : lockedBy'[f] = lockedBy[f] /\ age'[f] = age[f] /\ failed'[f] = failed[f]
        /\ lockedBy'[e] = NoWorker /\ failed'[e] = FALSE
        /\ UNCHANGED <<processed, attempt, batch, doing, held, sends>>
        /\ excused \subseteq excused'
        /\ e \notin excused' => \A w \in Worker : ~ Doing(w, e, Stage)
    BY <1>2 DEF Replay, Unlock, TypeOK, workerVars
  <2>2. NoWorker \notin Worker
    BY OutboxAssumption
  <2>3. SentIsMailed' /\ RowsTell'
    BY <2>1 DEF SentIsMailed, RowsTell, Doing
  <2>4. Owned'
    BY <2>1 DEF Owned, Doing, Stage
  <2>5. SentOnce' /\ Aligned'
    BY <2>1, <2>2 DEF SentOnce, Aligned, Doing
  <2>6. QED
    BY <2>3, <2>4, <2>5
<1>3. QED
  BY <1>1, <1>2

\* A claim takes no event that a worker inside its lease delivers.
LEMMA ClaimKeeps ==
    ASSUME DeliveryInv, NEW w \in Worker, Claim(w)
    PROVE  SentIsMailed' /\ Owned' /\ SentOnce' /\ Aligned' /\ RowsTell'
<1> USE DEF DeliveryInv
<1>1. PICK claim \in SUBSET Claimable :
        /\ lockedBy' = [e \in Event |-> IF e \in claim THEN w ELSE lockedBy[e]]
        /\ age' = [e \in Event |-> IF e \in claim THEN 0 ELSE age[e]]
        /\ attempt' = [e \in Event |-> IF e \in claim THEN {} ELSE attempt[e]]
        /\ batch' = [batch EXCEPT ![w] = claim]
  BY DEF Claim
<1>2. ~ Busy(w) /\ held' = [held EXCEPT ![w] = 0] /\ UNCHANGED <<processed, failed, doing, sends, excused>>
  BY DEF Claim
<1>3. \A e \in claim : ~ processed[e] /\ ~ failed[e] /\ (lockedBy[e] = NoWorker \/ age[e] > Lease)
  BY DEF Claimable, Settled, Unleased
<1>4. SentIsMailed' /\ SentOnce'
  BY <1>2 DEF SentIsMailed, SentOnce, Doing
<1>5. RowsTell'
  BY <1>1, <1>2, <1>3 DEF RowsTell, TypeOK
<1>6. Aligned'
  BY <1>1, <1>2 DEF Aligned, TypeOK
<1>7. Owned'
  <2> SUFFICES ASSUME NEW e \in Event \ excused, NEW v \in Worker, Doing(v, e, Stage)
               PROVE  lockedBy'[e] = v /\ age'[e] = held'[v] /\ held'[v] <= Lease
    BY <1>2 DEF Owned, Doing
  <2>1. lockedBy[e] = v /\ age[e] = held[v] /\ held[v] <= Lease
    BY DEF Owned
  <2>2. v # w
    BY <1>2 DEF Busy, Doing
  <2>3. e \notin claim
    <3>1. age[e] \in Nat /\ Lease \in Nat /\ v # NoWorker
      BY OutboxAssumption DEF TypeOK, AgeRange
    <3>2. QED
      BY <1>3, <2>1, <3>1
  <2>4. QED
    BY <1>1, <1>2, <2>1, <2>2, <2>3 DEF TypeOK
<1>8. QED
  BY <1>4, <1>5, <1>6, <1>7

\* A delivery begins under the lease, checked in the table.
LEMMA BeginKeeps ==
    ASSUME DeliveryInv, NEW w \in Worker, Begin(w)
    PROVE  SentIsMailed' /\ Owned' /\ SentOnce' /\ Aligned' /\ RowsTell'
<1> USE DEF DeliveryInv
<1>1. PICK e \in batch[w] :
        /\ batch' = [batch EXCEPT ![w] = @ \ {e}]
        /\ \/ /\ HoldsLease(w, e)
              /\ doing' = [doing EXCEPT ![w] = [event |-> e, stage |-> "handling"]]
              /\ excused' = IF held[w] > Lease THEN excused \cup {e} ELSE excused
           \/ UNCHANGED <<doing, excused>>
  BY DEF Begin
<1>2. e \in Event /\ doing[w] = Idle /\ UNCHANGED <<lockedBy, age, processed, failed, attempt, held, sends>>
  BY <1>1 DEF Begin, eventVars, TypeOK
<1>3. Aligned' /\ RowsTell'
  BY <1>1, <1>2 DEF Aligned, RowsTell, TypeOK
<1>4. CASE UNCHANGED <<doing, excused>>
  BY <1>2, <1>3, <1>4 DEF SentIsMailed, Owned, SentOnce, Doing
<1>5. CASE /\ HoldsLease(w, e)
           /\ doing' = [doing EXCEPT ![w] = [event |-> e, stage |-> "handling"]]
           /\ excused' = IF held[w] > Lease THEN excused \cup {e} ELSE excused
  <2>1. /\ doing'[w] = [event |-> e, stage |-> "handling"]
        /\ \A v \in Worker \ {w} : doing'[v] = doing[v]
    BY <1>5 DEF TypeOK
  <2>2. \A v \in Worker, f \in Event : Doing(v, f, {"sent"})' <=> Doing(v, f, {"sent"})
    BY <1>2, <2>1 DEF Doing
  <2>3. SentIsMailed' /\ SentOnce'
    BY <1>2, <1>5, <2>2 DEF SentIsMailed, SentOnce
  <2>4. ~ processed[e] /\ lockedBy[e] = w /\ age[e] = held[w]
    BY <1>1, <1>2, <1>5 DEF HoldsLease, Settled, Aligned
  <2>5. e \notin excused' => held[w] <= Lease /\ sends[e] = 0
    <3> SUFFICES ASSUME e \notin excused' PROVE held[w] <= Lease /\ sends[e] = 0
      OBVIOUS
    <3>1. e \notin excused /\ ~ held[w] > Lease /\ held[w] \in Nat /\ Lease \in Nat /\ sends[e] \in Nat
      BY <1>2, <1>5, OutboxAssumption DEF TypeOK, AgeRange
    <3>2. \A v \in Worker : ~ Doing(v, e, {"sent"})
      BY <1>2, <2>4, <3>1 DEF Owned, Doing, Stage
    <3>3. QED
      BY <1>2, <2>4, <3>1, <3>2 DEF SentOnce
  <2>6. Owned'
    <3> SUFFICES ASSUME NEW f \in Event \ excused', NEW v \in Worker, Doing(v, f, Stage)'
                 PROVE  /\ lockedBy[f] = v /\ age[f] = held[v] /\ held[v] <= Lease /\ ~ processed[f]
                        /\ Doing(v, f, {"handling", "raised"})' => sends[f] = 0
      BY <1>2 DEF Owned
    <3>1. CASE v = w
      BY <2>1, <2>4, <2>5, <3>1 DEF Doing
    <3>2. CASE v # w
      BY <1>5, <2>1, <3>2 DEF Owned, Doing
    <3>3. QED
      BY <3>1, <3>2
  <2>7. QED
    BY <1>3, <2>3, <2>6
<1>6. QED
  BY <1>1, <1>4, <1>5

\* The handler: a mail, an error, or a mail and an error, which is an excuse.
LEMMA HandlerKeeps ==
    ASSUME DeliveryInv, NEW w \in Worker, Send(w) \/ Raise(w)
    PROVE  SentIsMailed' /\ Owned' /\ SentOnce' /\ Aligned' /\ RowsTell'
<1> USE DEF DeliveryInv
<1>1. PICK e \in Event :
        /\ Doing(w, e, {"handling"})
        /\ \/ /\ doing' = [doing EXCEPT ![w].stage = "sent"] /\ Mailed(e) /\ excused' = excused
           \/ /\ doing' = [doing EXCEPT ![w].stage = "raised"]
              /\ \/ UNCHANGED <<sends, excused>>
                 \/ Mailed(e) /\ excused' = excused \cup {e}
  BY DEF Send, Raise
<1>2. UNCHANGED <<lockedBy, age, processed, failed, attempt, batch, held>>
  BY DEF Send, Raise, eventVars
<1>3. PICK s \in {"sent", "raised"} :
        /\ doing' = [doing EXCEPT ![w].stage = s]
        /\ s = "sent" => Mailed(e) /\ excused' = excused
        /\ s = "raised" => UNCHANGED sends \/ e \in excused'
  BY <1>1
<1>4. /\ doing'[w] = [event |-> e, stage |-> s]
      /\ \A v \in Worker \ {w} : doing'[v] = doing[v]
      /\ doing'[w] # Idle
  <2>1. doing[w] # Idle /\ doing[w].event = e /\ s \in Stage
    BY <1>1, <1>3 DEF Doing, Stage
  <2>2. doing'[w] = [event |-> e, stage |-> s] /\ \A v \in Worker \ {w} : doing'[v] = doing[v]
    BY <1>3, <2>1, StageReplaced
  <2>3. [event |-> e, stage |-> s] \in Delivery
    BY <2>1 DEF Delivery
  <2>4. QED
    BY <2>2, <2>3, IdleIsNoDelivery
<1>5. /\ \A f \in Event : sends'[f] >= sends[f] /\ sends'[f] \in 0..2
      /\ \A f \in Event \ {e} : sends'[f] = sends[f]
      /\ Mailed(e) => sends'[e] > 0
  <2>1. Mailed(e) \/ UNCHANGED sends
    BY <1>1
  <2>2. CASE Mailed(e)
    BY <2>2 DEF Mailed, TypeOK
  <2>3. CASE UNCHANGED sends /\ ~ Mailed(e)
    BY <2>3 DEF TypeOK
  <2>4. QED
    BY <2>1, <2>2, <2>3
<1>6. excused' \in {excused, excused \cup {e}}
  BY <1>1
<1>7. SentIsMailed'
  <2>1. \A f \in Event : processed[f] => sends'[f] > 0
    BY <1>5 DEF SentIsMailed, TypeOK
  <2>2. ASSUME NEW f \in Event, NEW v \in Worker, Doing(v, f, {"sent"})' PROVE sends'[f] > 0
    <3>1. CASE v = w
      BY <1>3, <1>4, <1>5, <2>2, <3>1 DEF Doing
    <3>2. CASE v # w
      <4>1. Doing(v, f, {"sent"})
        BY <1>4, <2>2, <3>2 DEF Doing
      <4>2. QED
        BY <1>5, <4>1 DEF SentIsMailed, TypeOK
    <3>3. QED
      BY <3>1, <3>2
  <2>3. QED
    BY <1>2, <2>1, <2>2 DEF SentIsMailed
\* Nobody else has the event of a delivery without an excuse.
<1>8. e \notin excused => /\ lockedBy[e] = w /\ age[e] = held[w] /\ held[w] <= Lease /\ ~ processed[e] /\ sends[e] = 0
                         /\ \A v \in Worker \ {w} : ~ Doing(v, e, Stage)
  BY <1>1 DEF Owned, Doing, Stage
<1>9. e \notin excused' => (s = "raised" => sends' = sends) /\ (s = "sent" => sends'[e] = 1)
  <2> SUFFICES ASSUME e \notin excused' PROVE (s = "raised" => sends' = sends) /\ (s = "sent" => sends'[e] = 1)
    OBVIOUS
  <2>1. s = "raised" => sends' = sends
    BY <1>3
  <2>2. s = "sent" => sends'[e] = 1
    BY <1>3, <1>8 DEF Mailed, TypeOK
  <2>3. QED
    BY <2>1, <2>2
<1>10. Owned'
  <2> SUFFICES ASSUME NEW f \in Event \ excused', NEW v \in Worker, Doing(v, f, Stage)'
               PROVE  /\ lockedBy[f] = v /\ age[f] = held[v] /\ held[v] <= Lease /\ ~ processed[f]
                      /\ Doing(v, f, {"handling", "raised"})' => sends'[f] = 0
    BY <1>2 DEF Owned
  <2>1. f \notin excused
    BY <1>6
  <2>2. CASE v = w
    <3>1. f = e
      BY <1>4, <2>2 DEF Doing
    <3>2. QED
      BY <1>4, <1>8, <1>9, <2>1, <2>2, <3>1 DEF Doing
  <2>3. CASE v # w
    <3>1. Doing(v, f, Stage) /\ (Doing(v, f, {"handling", "raised"})' => Doing(v, f, {"handling", "raised"}))
      BY <1>4, <2>3 DEF Doing
    <3>2. f # e
      BY <1>8, <2>1, <2>3, <3>1
    <3>3. QED
      BY <1>5, <2>1, <3>1, <3>2 DEF Owned
  <2>4. QED
    BY <2>2, <2>3
<1>11. SentOnce'
  <2> SUFFICES ASSUME NEW f \in Event \ excused'
               PROVE  sends'[f] <= 1 /\ (sends'[f] = 1 => processed[f] \/ \E v \in Worker : Doing(v, f, {"sent"})')
    BY <1>2 DEF SentOnce
  <2>1. f \notin excused
    BY <1>6
  <2>2. CASE f = e
    BY <1>3, <1>4, <1>8, <1>9, <2>1, <2>2 DEF Doing
  <2>3. CASE f # e
    <3>1. \A v \in Worker : Doing(v, f, {"sent"}) => Doing(v, f, {"sent"})'
      BY <1>1, <1>4, <2>3 DEF Doing
    <3>2. QED
      BY <1>5, <2>1, <2>3, <3>1 DEF SentOnce
  <2>4. QED
    BY <2>2, <2>3
<1>12. Aligned' /\ RowsTell'
  BY <1>2 DEF Aligned, RowsTell
<1>13. QED
  BY <1>7, <1>10, <1>11, <1>12

\* The record of a delivery, whoever holds the lease by then.
LEMMA RecordKeeps ==
    ASSUME DeliveryInv, NEW w \in Worker, Succeed(w) \/ Fail(w)
    PROVE  SentIsMailed' /\ Owned' /\ SentOnce' /\ Aligned' /\ RowsTell'
<1> USE DEF DeliveryInv
<1>1. PICK e \in Event :
        /\ doing' = [doing EXCEPT ![w] = Idle] /\ Unlock(e)
        /\ \/ /\ Doing(w, e, {"sent"})
              /\ processed' = [processed EXCEPT ![e] = TRUE]
              /\ attempt' = [attempt EXCEPT ![e] = @ \cup {"succeeded"}]
              /\ failed' = failed
           \/ /\ Doing(w, e, {"raised"})
              /\ processed' = processed
              /\ attempt' = [attempt EXCEPT ![e] = @ \cup {"error"}]
              /\ failed' \in {failed, [failed EXCEPT ![e] = TRUE]}
  BY DEF Succeed, Fail, RecordFailure
<1>2. UNCHANGED <<batch, held, sends, excused>>
  BY DEF Succeed, Fail
<1>3. /\ doing'[w] = Idle /\ \A v \in Worker \ {w} : doing'[v] = doing[v]
      /\ lockedBy'[e] = NoWorker /\ NoWorker \notin Worker
      /\ \A f \in Event \ {e} : lockedBy'[f] = lockedBy[f] /\ age'[f] = age[f] /\ processed'[f] = processed[f]
  BY <1>1, OutboxAssumption DEF Unlock, TypeOK
<1>4. e \notin excused => \A v \in Worker \ {w} : ~ Doing(v, e, Stage)
  BY <1>1 DEF Owned, Doing, Stage
<1>5. \A v \in Worker, f \in Event : Doing(v, f, {"sent"})' => Doing(v, f, {"sent"})
  BY <1>3 DEF Doing
<1>6. SentIsMailed'
  <2>1. processed'[e] => sends[e] > 0
    BY <1>1 DEF SentIsMailed
  <2>2. QED
    BY <1>2, <1>3, <1>5, <2>1 DEF SentIsMailed
<1>7. Owned'
  <2> SUFFICES ASSUME NEW f \in Event \ excused, NEW v \in Worker, Doing(v, f, Stage)'
               PROVE  /\ lockedBy'[f] = v /\ age'[f] = held[v] /\ held[v] <= Lease /\ ~ processed'[f]
                      /\ Doing(v, f, {"handling", "raised"})' => sends[f] = 0
    BY <1>2 DEF Owned
  <2>1. v # w /\ doing'[v] = doing[v]
    BY <1>3 DEF Doing
  <2>2. Doing(v, f, Stage) /\ (Doing(v, f, {"handling", "raised"})' => Doing(v, f, {"handling", "raised"}))
    BY <2>1 DEF Doing
  <2>3. f # e
    BY <1>4, <2>1, <2>2
  <2>4. QED
    BY <1>3, <2>2, <2>3 DEF Owned
<1>8. SentOnce'
  <2> SUFFICES ASSUME NEW f \in Event \ excused
               PROVE  sends[f] <= 1 /\ (sends[f] = 1 => processed'[f] \/ \E v \in Worker : Doing(v, f, {"sent"})')
    BY <1>2 DEF SentOnce
  <2>1. CASE f # e
    <3>1. \A v \in Worker : Doing(v, f, {"sent"}) => Doing(v, f, {"sent"})'
      BY <1>1, <1>3, <2>1 DEF Doing
    <3>2. QED
      BY <1>3, <2>1, <3>1 DEF SentOnce
  <2>2. CASE f = e
    <3>1. CASE processed'[e]
      BY <2>2, <3>1 DEF SentOnce
    <3>2. CASE ~ processed'[e]
      <4>1. Doing(w, e, {"raised"})
        BY <1>1, <3>2 DEF TypeOK
      <4>2. sends[e] = 0
        BY <2>2, <4>1 DEF Owned, Doing, Stage
      <4>3. QED
        BY <2>2, <4>2
    <3>3. QED
      BY <3>1, <3>2
  <2>3. QED
    BY <2>1, <2>2
<1>9. Aligned'
  BY <1>2, <1>3 DEF Aligned
<1>10. RowsTell'
  <2>1. CASE /\ processed' = [processed EXCEPT ![e] = TRUE]
             /\ attempt' = [attempt EXCEPT ![e] = @ \cup {"succeeded"}] /\ failed' = failed
    BY <2>1 DEF RowsTell, TypeOK
  <2>2. CASE /\ processed' = processed /\ attempt' = [attempt EXCEPT ![e] = @ \cup {"error"}]
             /\ failed' \in {failed, [failed EXCEPT ![e] = TRUE]}
    BY <2>2 DEF RowsTell, TypeOK
  <2>3. QED
    BY <1>1, <2>1, <2>2
<1>11. QED
  BY <1>6, <1>7, <1>8, <1>9, <1>10

\* A worker that dies after its mail leaves an excuse.
LEMMA CrashKeeps ==
    ASSUME DeliveryInv, NEW w \in Worker, Crash(w)
    PROVE  SentIsMailed' /\ Owned' /\ SentOnce' /\ Aligned' /\ RowsTell'
<1> USE DEF DeliveryInv
<1>1. /\ doing'[w] = Idle /\ \A v \in Worker \ {w} : doing'[v] = doing[v] /\ batch'[v] = batch[v]
      /\ batch'[w] = {}
      /\ excused' = excused \cup {e \in Event : Doing(w, e, {"sent"})}
      /\ UNCHANGED <<lockedBy, age, processed, failed, attempt, held, sends>>
  BY DEF Crash, TypeOK, eventVars
<1>2. SentIsMailed' /\ RowsTell' /\ Aligned'
  BY <1>1 DEF SentIsMailed, RowsTell, Aligned, Doing
<1>3. Owned'
  BY <1>1 DEF Owned, Doing
<1>4. SentOnce'
  BY <1>1 DEF SentOnce, Doing
<1>5. QED
  BY <1>2, <1>3, <1>4

\* Time passes for a lease and for the worker that holds it alike.
LEMMA TickKeeps ==
    ASSUME DeliveryInv, Tick
    PROVE  SentIsMailed' /\ Owned' /\ SentOnce' /\ Aligned' /\ RowsTell'
<1> USE DEF DeliveryInv
<1>1. UNCHANGED <<lockedBy, processed, failed, attempt, batch, doing, sends>>
  BY DEF Tick
<1>2. /\ \A e \in Event : lockedBy[e] # NoWorker => age'[e] = Older(age[e])
      /\ \A w \in Worker : Busy(w) => held'[w] = Older(held[w])
      /\ \A e \in Event : \A w \in Worker : Doing(w, e, Stage) /\ held'[w] > Lease => e \in excused'
      /\ excused \subseteq excused' /\ NoWorker \notin Worker
  BY OutboxAssumption DEF Tick
<1>3. SentIsMailed' /\ RowsTell'
  BY <1>1 DEF SentIsMailed, RowsTell, Doing
<1>4. SentOnce'
  BY <1>1, <1>2 DEF SentOnce, Doing
<1>5. Aligned'
  BY <1>1, <1>2 DEF Aligned, Busy
<1>6. Owned'
  <2> SUFFICES ASSUME NEW e \in Event \ excused', NEW w \in Worker, Doing(w, e, Stage)
               PROVE  /\ lockedBy[e] = w /\ age'[e] = held'[w] /\ held'[w] <= Lease /\ ~ processed[e]
                      /\ Doing(w, e, {"handling", "raised"}) => sends[e] = 0
    BY <1>1 DEF Owned, Doing
  <2>1. /\ lockedBy[e] = w /\ age[e] = held[w] /\ ~ processed[e]
        /\ Doing(w, e, {"handling", "raised"}) => sends[e] = 0
    BY <1>2 DEF Owned
  <2>2. age'[e] = held'[w]
    BY <1>2, <2>1 DEF Busy, Doing
  <2>3. ~ held'[w] > Lease
    BY <1>2
  <2>4. held'[w] \in Nat /\ Lease \in Nat
    BY TypeOfTick, OutboxAssumption DEF TypeOK, AgeRange
  <2>5. QED
    BY <2>1, <2>2, <2>3, <2>4
<1>7. QED
  BY <1>3, <1>4, <1>5, <1>6

\* The inductive invariant of deliveries.  That two mails need an excuse rests on Owned:
\* without an excuse an event is one worker's, so the mails of two workers cannot meet.
THEOREM DeliveryInvariant == Spec => []DeliveryInv
<1>1. Init => DeliveryInv
  BY OutboxAssumption DEF Init, DeliveryInv, TypeOK, AgeRange, SentIsMailed, Owned, SentOnce, Aligned, RowsTell, Doing
<1>2. DeliveryInv /\ TypeOK' /\ [Next]_vars => DeliveryInv'
  <2> SUFFICES ASSUME DeliveryInv, TypeOK', [Next]_vars PROVE DeliveryInv'
    OBVIOUS
  <2>1. CASE UNCHANGED vars
    BY <2>1 DEF vars, eventVars, workerVars, DeliveryInv, SentIsMailed, Owned, SentOnce, Aligned, RowsTell, Doing
  <2>2. CASE Next
    BY <2>2, OperatorKeeps, ClaimKeeps, BeginKeeps, HandlerKeeps, RecordKeeps, CrashKeeps, TickKeeps
    DEF Next, WorkerStep, DeliveryInv
  <2>3. QED
    BY <2>1, <2>2
<1>3. QED
  BY <1>1, <1>2, OutboxTypeCorrect, PTL DEF Spec

\* What the rows say of an event that is finished is what happened to it.
THEOREM LogsTellOutcomes == Spec => []LogTellsOutcome
<1>1. DeliveryInv => LogTellsOutcome
  BY DEF DeliveryInv, SentIsMailed, RowsTell, LogTellsOutcome
<1>2. QED
  BY <1>1, DeliveryInvariant, PTL

\* A second mail has a cause: a lapsed lease, a death, a raising backend, or a replay.
THEOREM SecondMailsAreExcused == Spec => []SingleMail
<1>1. DeliveryInv => SingleMail
  <2> SUFFICES ASSUME DeliveryInv, NEW e \in Event, sends[e] > 1, e \notin excused PROVE FALSE
    BY DEF SingleMail
  <2>1. sends[e] \in Nat /\ sends[e] <= 1
    BY DEF DeliveryInv, TypeOK, SentOnce
  <2>2. QED
    BY <2>1
<1>2. QED
  BY <1>1, DeliveryInvariant, PTL

-----------------------------------------------------------------------------
\* How often an event is claimed.

\* The events that a worker has yet to come to, or delivers.
Carries(w, e) == e \in batch[w] \/ Doing(w, e, Stage)

\* The age of a lease is the same in the table and in the view of its holder, also while it
\* delivers.
Level == \A w \in Worker, e \in Event : Carries(w, e) /\ lockedBy[e] = w => age[e] = held[w]

\* An event whose latest claim may still end without a death, a lapse or a replay.
InHand(e) == \E w \in Worker : Carries(w, e) /\ lockedBy[e] = w /\ held[w] <= Lease

Budget == MaxAttempts + crashes + lapses + replays

\* From the last attempt on, an event that can be claimed again has a claim to its credit.
Spent ==
    \A e \in Event :
        /\ attempts[e] <= Budget
        /\ attempts[e] >= MaxAttempts /\ ~ Settled(e) /\ ~ InHand(e) => attempts[e] < Budget

\* Without a lapse or a replay, whoever carries an event holds its lease, inside of it.
Punctual ==
    lapses = 0 /\ replays = 0 =>
        \A w \in Worker :
            /\ Busy(w) => held[w] <= Lease
            /\ \A e \in Event : Carries(w, e) => lockedBy[e] = w /\ ~ Settled(e)
            /\ doing[w] # Idle => doing[w].event \notin batch[w]

ClaimInv == TypeOK /\ Level /\ Spent /\ Punctual

\* A lease that a claim may take is in nobody's hand.
LEMMA ClaimableIsFree ==
    ASSUME TypeOK, Level, NEW e \in Claimable
    PROVE  ~ InHand(e) /\ ~ Settled(e)
<1> SUFFICES ASSUME NEW w \in Worker, Carries(w, e), lockedBy[e] = w, held[w] <= Lease PROVE FALSE
  BY DEF InHand, Claimable
<1>1. age[e] = held[w] /\ (lockedBy[e] = NoWorker \/ age[e] > Lease) /\ e \in Event
  BY DEF Level, Claimable, Unleased, TypeOK
<1>2. age[e] \in Nat /\ Lease \in Nat /\ NoWorker \notin Worker
  BY <1>1, OutboxAssumption DEF TypeOK, AgeRange
<1>3. QED
  BY <1>1, <1>2

LEMMA BudgetIsNat ==
    ASSUME TypeOK
    PROVE  /\ MaxAttempts \in Nat /\ crashes \in Nat /\ lapses \in Nat /\ replays \in Nat
           /\ Lease \in Nat /\ Budget \in Nat /\ MaxAttempts <= Budget
           /\ attempts \in [Event -> Nat] /\ \A w \in Worker : held[w] \in Nat
BY OutboxAssumption DEF TypeOK, Budget, AgeRange

\* An event that is not claimed keeps its credit, unless it is freed at the price of a death, a
\* lapse or a replay, or before its last attempt.
LEMMA CreditKept ==
    ASSUME TypeOK, TypeOK', Spent, NEW e \in Event, attempts'[e] = attempts[e], Budget' >= Budget,
           attempts[e] >= MaxAttempts /\ ~ Settled(e)' /\ ~ InHand(e)'
             => (~ Settled(e) /\ ~ InHand(e)) \/ Budget' > Budget
    PROVE  /\ attempts'[e] <= Budget'
           /\ attempts'[e] >= MaxAttempts /\ ~ Settled(e)' /\ ~ InHand(e)' => attempts'[e] < Budget'
<1>1. Budget \in Nat /\ Budget' \in Nat /\ attempts[e] \in Nat /\ MaxAttempts \in Nat
  <2>1. crashes' \in Nat /\ lapses' \in Nat /\ replays' \in Nat /\ MaxAttempts \in Nat
    BY OutboxAssumption DEF TypeOK
  <2>2. Budget' \in Nat
    BY <2>1 DEF Budget
  <2>3. QED
    BY <2>2, BudgetIsNat
<1>2. attempts[e] <= Budget /\ (attempts[e] >= MaxAttempts /\ ~ Settled(e) /\ ~ InHand(e) => attempts[e] < Budget)
  BY DEF Spent
<1>3. QED
  BY <1>1, <1>2

LEMMA OperatorSpends ==
    ASSUME ClaimInv, TypeOK', NEW e \in Event, Enqueue(e) \/ Replay(e)
    PROVE  Level' /\ Spent' /\ Punctual'
<1> USE DEF ClaimInv
<1>1. CASE Enqueue(e)
  BY <1>1 DEF Enqueue, workerVars, bounds, Level, Spent, Punctual, Carries, Doing, InHand, Settled, Budget, Busy
<1>2. CASE Replay(e)
  <2>1. /\ lockedBy'[e] = NoWorker /\ NoWorker \notin Worker
        /\ \A f \in Event \ {e} : lockedBy'[f] = lockedBy[f] /\ age'[f] = age[f]
        /\ UNCHANGED <<batch, doing, held, attempts, crashes, lapses>>
        /\ replays' = replays + 1
    BY <1>2, OutboxAssumption DEF Replay, Unlock, TypeOK, workerVars
  <2>2. Level'
    BY <2>1 DEF Level, Carries, Doing
  <2>3. Punctual'
    BY <2>1, BudgetIsNat DEF Punctual
  <2>4. Budget' > Budget /\ Budget' >= Budget
    BY <2>1, BudgetIsNat DEF Budget
  <2>5. Spent'
    BY <2>1, <2>4, CreditKept DEF Spent
  <2>6. QED
    BY <2>2, <2>3, <2>5
<1>3. QED
  BY <1>1, <1>2

LEMMA ClaimSpends ==
    ASSUME ClaimInv, TypeOK', NEW w \in Worker, Claim(w)
    PROVE  Level' /\ Spent' /\ Punctual'
<1> USE DEF ClaimInv
<1>1. PICK claim \in SUBSET Claimable :
        /\ attempts' = [e \in Event |-> IF e \in claim THEN attempts[e] + 1 ELSE attempts[e]]
        /\ lockedBy' = [e \in Event |-> IF e \in claim THEN w ELSE lockedBy[e]]
        /\ age' = [e \in Event |-> IF e \in claim THEN 0 ELSE age[e]]
        /\ batch' = [batch EXCEPT ![w] = claim]
  BY DEF Claim
<1>2. /\ doing[w] = Idle /\ batch[w] = {} /\ held' = [held EXCEPT ![w] = 0]
      /\ UNCHANGED <<processed, failed, doing, crashes, lapses, replays>>
  BY DEF Claim, Busy, bounds
<1>3. /\ \A e \in Event : ~ Carries(w, e) /\ (Carries(w, e)' <=> e \in claim)
      /\ \A v \in Worker \ {w}, e \in Event : Carries(v, e)' <=> Carries(v, e)
      /\ \A v \in Worker \ {w} : held'[v] = held[v] /\ (Busy(v)' <=> Busy(v)) /\ batch'[v] = batch[v]
      /\ held'[w] = 0
  BY <1>1, <1>2 DEF Carries, Doing, Busy, TypeOK
<1>4. /\ \A e \in claim : lockedBy'[e] = w /\ age'[e] = 0 /\ attempts'[e] = attempts[e] + 1
      /\ \A e \in Event \ claim : lockedBy'[e] = lockedBy[e] /\ age'[e] = age[e] /\ attempts'[e] = attempts[e]
      /\ claim \subseteq Event
  BY <1>1 DEF Claimable, TypeOK
<1>5. \A e \in claim : ~ InHand(e) /\ ~ Settled(e)
  BY ClaimableIsFree
<1>6. Budget' = Budget /\ \A e \in Event : Settled(e)' <=> Settled(e)
  BY <1>2 DEF Budget, Settled
<1>7. Level'
  BY <1>3, <1>4 DEF Level
<1>8. Spent'
  <2> SUFFICES ASSUME NEW e \in Event
               PROVE  /\ attempts'[e] <= Budget'
                      /\ attempts'[e] >= MaxAttempts /\ ~ Settled(e)' /\ ~ InHand(e)' => attempts'[e] < Budget'
    BY DEF Spent
  <2>1. CASE e \in claim
    <3>1. InHand(e)'
      BY <1>3, <1>4, <2>1, BudgetIsNat DEF InHand
    <3>2. attempts[e] < Budget
      <4>1. attempts[e] >= MaxAttempts => attempts[e] < Budget
        BY <1>5, <2>1 DEF Spent
      <4>2. attempts[e] \in Nat /\ MaxAttempts \in Nat /\ Budget \in Nat /\ MaxAttempts <= Budget
        BY BudgetIsNat
      <4>3. QED
        BY <4>1, <4>2
    <3>3. attempts[e] \in Nat /\ Budget \in Nat
      BY BudgetIsNat
    <3>4. QED
      BY <1>4, <1>6, <2>1, <3>1, <3>2, <3>3
  <2>2. CASE e \notin claim
    <3>1. InHand(e) => InHand(e)'
      BY <1>3, <1>4, <2>2 DEF InHand
    <3>2. Budget' >= Budget
      BY <1>6, BudgetIsNat
    <3>3. QED
      BY <1>4, <1>6, <2>2, <3>1, <3>2, CreditKept
  <2>3. QED
    BY <2>1, <2>2
<1>9. Punctual'
  <2> SUFFICES ASSUME lapses = 0, replays = 0, NEW v \in Worker
               PROVE  /\ Busy(v)' => held'[v] <= Lease
                      /\ \A e \in Event : Carries(v, e)' => lockedBy'[e] = v /\ ~ Settled(e)'
                      /\ doing'[v] # Idle => doing'[v].event \notin batch'[v]
    BY <1>2 DEF Punctual
  <2>1. CASE v = w
    BY <1>2, <1>3, <1>4, <1>5, <1>6, <2>1, BudgetIsNat
  <2>2. CASE v # w
    <3>1. /\ Busy(v) => held[v] <= Lease
          /\ \A e \in Event : Carries(v, e) => lockedBy[e] = v /\ ~ Settled(e)
          /\ doing[v] # Idle => doing[v].event \notin batch[v]
      BY DEF Punctual
    <3>2. \A e \in Event : Carries(v, e) => Busy(v)
      BY DEF Carries, Busy, Doing
    <3>3. \A e \in Event : Carries(v, e) => e \notin claim
      BY <1>5, <3>1, <3>2 DEF InHand
    <3>4. QED
      BY <1>2, <1>3, <1>4, <1>6, <2>2, <3>1, <3>3
  <2>3. QED
    BY <2>1, <2>2
<1>10. QED
  BY <1>7, <1>8, <1>9

LEMMA BeginSpends ==
    ASSUME ClaimInv, TypeOK', NEW w \in Worker, Begin(w)
    PROVE  Level' /\ Spent' /\ Punctual'
<1> USE DEF ClaimInv
<1>1. PICK e \in batch[w] :
        /\ batch' = [batch EXCEPT ![w] = @ \ {e}]
        /\ \/ HoldsLease(w, e) /\ doing' = [doing EXCEPT ![w] = [event |-> e, stage |-> "handling"]]
           \/ ~ HoldsLease(w, e) /\ UNCHANGED doing
  BY DEF Begin
<1>2. doing[w] = Idle /\ e \in Event
      /\ UNCHANGED <<lockedBy, age, processed, failed, held, attempts, crashes, lapses, replays>>
  BY <1>1 DEF Begin, eventVars, bounds, TypeOK
<1>3. /\ \A v \in Worker, f \in Event : Carries(v, f)' => Carries(v, f)
      /\ \A v \in Worker, f \in Event : Carries(v, f) /\ ~ Carries(v, f)' => v = w /\ f = e /\ ~ HoldsLease(w, e)
      /\ \A v \in Worker : Busy(v)' => Busy(v)
      /\ \A v \in Worker \ {w} : doing'[v] = doing[v] /\ batch'[v] = batch[v]
      /\ doing'[w] # Idle => doing'[w].event = e /\ e \notin batch'[w]
  <2>1. CASE HoldsLease(w, e) /\ doing' = [doing EXCEPT ![w] = [event |-> e, stage |-> "handling"]]
    <3>1. doing'[w] = [event |-> e, stage |-> "handling"] /\ \A v \in Worker \ {w} : doing'[v] = doing[v]
      BY <2>1 DEF TypeOK
    <3>2. batch'[w] = batch[w] \ {e} /\ \A v \in Worker \ {w} : batch'[v] = batch[v]
      BY <1>1 DEF TypeOK
    <3>3. doing'[w] # Idle
      BY <1>2, <3>1, IdleIsNoDelivery DEF Delivery, Stage
    <3>4. \A f \in Event : Carries(w, f)' <=> Carries(w, f)
      BY <1>1, <1>2, <3>1, <3>2, <3>3 DEF Carries, Doing, Stage
    <3>5. QED
      BY <1>1, <1>2, <3>1, <3>2, <3>4 DEF Carries, Doing, Busy
  <2>2. CASE ~ HoldsLease(w, e) /\ UNCHANGED doing
    BY <1>1, <1>2, <2>2 DEF Carries, Doing, Busy, TypeOK
  <2>3. QED
    BY <1>1, <2>1, <2>2
<1>4. Budget' = Budget /\ \A f \in Event : Settled(f)' <=> Settled(f)
  BY <1>2 DEF Budget, Settled
<1>5. Level'
  BY <1>2, <1>3 DEF Level
<1>6. Spent'
  <2>1. \A f \in Event : ~ Settled(f) /\ InHand(f) => InHand(f)'
    BY <1>2, <1>3 DEF InHand, HoldsLease
  <2>2. Budget' >= Budget
    BY <1>4, BudgetIsNat
  <2>3. QED
    BY <1>2, <1>4, <2>1, <2>2, CreditKept DEF Spent
<1>7. Punctual'
  BY <1>2, <1>3, <1>4 DEF Punctual
<1>8. QED
  BY <1>5, <1>6, <1>7

LEMMA HandlerSpends ==
    ASSUME ClaimInv, TypeOK', NEW w \in Worker, Send(w) \/ Raise(w)
    PROVE  Level' /\ Spent' /\ Punctual'
<1> USE DEF ClaimInv
<1>1. PICK e \in Event, s \in Stage : Doing(w, e, {"handling"}) /\ doing' = [doing EXCEPT ![w].stage = s]
  BY DEF Send, Raise, Stage
<1>2. UNCHANGED <<lockedBy, age, processed, failed, held, batch, attempts, crashes, lapses, replays>>
  BY DEF Send, Raise, eventVars, bounds
<1>3. doing'[w] = [event |-> e, stage |-> s] /\ doing'[w] # Idle /\ \A v \in Worker \ {w} : doing'[v] = doing[v]
  <2>1. doing[w] # Idle /\ doing[w].event = e
    BY <1>1 DEF Doing
  <2>2. doing'[w] = [event |-> e, stage |-> s] /\ \A v \in Worker \ {w} : doing'[v] = doing[v]
    BY <1>1, <2>1, StageReplaced
  <2>3. [event |-> e, stage |-> s] \in Delivery
    BY DEF Delivery
  <2>4. QED
    BY <2>2, <2>3, IdleIsNoDelivery
<1>4. /\ \A v \in Worker, f \in Event : Carries(v, f)' <=> Carries(v, f)
      /\ \A v \in Worker : Busy(v)' <=> Busy(v)
  BY <1>1, <1>2, <1>3 DEF Carries, Doing, Busy, Stage
<1>5. Budget' = Budget /\ \A f \in Event : (Settled(f)' <=> Settled(f)) /\ (InHand(f)' <=> InHand(f))
  BY <1>2, <1>4 DEF Budget, Settled, InHand
<1>6. Level'
  BY <1>2, <1>4 DEF Level
<1>7. Spent'
  BY <1>2, <1>5 DEF Spent
<1>8. Punctual'
  <2>1. doing[w] # Idle /\ doing'[w].event = doing[w].event
    BY <1>1, <1>3 DEF Doing
  <2>2. QED
    BY <1>2, <1>3, <1>4, <1>5, <2>1 DEF Punctual
<1>9. QED
  BY <1>6, <1>7, <1>8

\* A recorded outcome frees the event, but not from its last attempt on.
LEMMA RecordSpends ==
    ASSUME ClaimInv, TypeOK', NEW w \in Worker, Succeed(w) \/ Fail(w)
    PROVE  Level' /\ Spent' /\ Punctual'
<1> USE DEF ClaimInv
<1>1. PICK e \in Event :
        /\ Doing(w, e, Stage) /\ doing' = [doing EXCEPT ![w] = Idle] /\ Unlock(e)
        /\ \/ processed' = [processed EXCEPT ![e] = TRUE] /\ failed' = failed
           \/ /\ processed' = processed
              /\ \/ attempts[e] >= MaxAttempts /\ failed' = [failed EXCEPT ![e] = TRUE]
                 \/ attempts[e] < MaxAttempts /\ failed' = failed
  BY DEF Succeed, Fail, RecordFailure, Doing, Stage
<1>2. UNCHANGED <<held, batch, attempts, crashes, lapses, replays>>
  BY DEF Succeed, Fail, bounds
<1>3. /\ doing'[w] = Idle /\ \A v \in Worker \ {w} : doing'[v] = doing[v]
      /\ lockedBy'[e] = NoWorker /\ NoWorker \notin Worker
      /\ \A f \in Event \ {e} : lockedBy'[f] = lockedBy[f] /\ age'[f] = age[f]
      /\ \A f \in Event \ {e} : processed'[f] = processed[f] /\ failed'[f] = failed[f]
      /\ attempts[e] >= MaxAttempts => processed'[e] \/ failed'[e]
  <2>1. /\ doing'[w] = Idle /\ \A v \in Worker \ {w} : doing'[v] = doing[v]
        /\ lockedBy'[e] = NoWorker /\ NoWorker \notin Worker
        /\ \A f \in Event \ {e} : lockedBy'[f] = lockedBy[f] /\ age'[f] = age[f]
        /\ \A f \in Event \ {e} : processed'[f] = processed[f] /\ failed'[f] = failed[f]
    BY <1>1, OutboxAssumption DEF Unlock, TypeOK
  <2>2. attempts[e] \in Nat /\ MaxAttempts \in Nat
    BY BudgetIsNat
  <2>3. attempts[e] >= MaxAttempts => processed'[e] \/ failed'[e]
    BY <1>1, <2>2 DEF TypeOK
  <2>4. QED
    BY <2>1, <2>3
<1>4. /\ \A v \in Worker, f \in Event : Carries(v, f)' => Carries(v, f)
      /\ \A v \in Worker, f \in Event : Carries(v, f) /\ ~ Carries(v, f)' => v = w /\ f = e
      /\ \A v \in Worker : Busy(v)' => Busy(v)
      /\ Carries(w, e)
  BY <1>1, <1>2, <1>3 DEF Carries, Doing, Busy
<1>5. /\ Budget' = Budget /\ \A f \in Event \ {e} : Settled(f)' <=> Settled(f)
      /\ attempts[e] >= MaxAttempts => Settled(e)'
  BY <1>2, <1>3 DEF Budget, Settled
<1>6. Level'
  BY <1>2, <1>3, <1>4 DEF Level
<1>7. Spent'
  <2>1. \A f \in Event \ {e} : InHand(f) => InHand(f)'
    BY <1>2, <1>3, <1>4 DEF InHand
  <2>2. Budget' >= Budget
    BY <1>5, BudgetIsNat
  <2>3. ASSUME NEW f \in Event
        PROVE  /\ attempts'[f] <= Budget'
               /\ attempts'[f] >= MaxAttempts /\ ~ Settled(f)' /\ ~ InHand(f)' => attempts'[f] < Budget'
    BY <1>2, <1>5, <2>1, <2>2, <2>3, CreditKept
  <2>4. QED
    BY <2>3 DEF Spent
<1>8. Punctual'
  <2> SUFFICES ASSUME lapses = 0, replays = 0, NEW v \in Worker
               PROVE  /\ Busy(v)' => held[v] <= Lease
                      /\ \A f \in Event : Carries(v, f)' => lockedBy'[f] = v /\ ~ Settled(f)'
                      /\ doing'[v] # Idle => doing'[v].event \notin batch[v]
    BY <1>2 DEF Punctual
  <2>1. \A u \in Worker : /\ Busy(u) => held[u] <= Lease
                          /\ \A f \in Event : Carries(u, f) => lockedBy[f] = u /\ ~ Settled(f)
                          /\ doing[u] # Idle => doing[u].event \notin batch[u]
    BY DEF Punctual
  <2>2. ~ Carries(v, e)'
    <3> SUFFICES ASSUME Carries(v, e)' PROVE FALSE
      OBVIOUS
    <3>1. v = w
      BY <1>4, <2>1
    <3>2. e \in batch[w]
      BY <1>2, <1>3, <3>1 DEF Carries, Doing
    <3>3. QED
      BY <1>1, <2>1, <3>2 DEF Doing
  <2>3. QED
    BY <1>3, <1>4, <1>5, <2>1, <2>2
<1>9. QED
  BY <1>6, <1>7, <1>8

LEMMA CrashSpends ==
    ASSUME ClaimInv, TypeOK', NEW w \in Worker, Crash(w)
    PROVE  Level' /\ Spent' /\ Punctual'
<1> USE DEF ClaimInv
<1>1. /\ doing'[w] = Idle /\ \A v \in Worker \ {w} : doing'[v] = doing[v] /\ batch'[v] = batch[v]
      /\ batch'[w] = {}
      /\ UNCHANGED <<lockedBy, age, processed, failed, held, attempts, lapses, replays>>
      /\ crashes' = crashes + 1
  BY DEF Crash, TypeOK, eventVars
<1>2. /\ \A v \in Worker, f \in Event : Carries(v, f)' => Carries(v, f)
      /\ \A v \in Worker : Busy(v)' => Busy(v)
  BY <1>1 DEF Carries, Doing, Busy
<1>3. Level'
  BY <1>1, <1>2 DEF Level
<1>4. Budget' > Budget /\ Budget' >= Budget
  BY <1>1, BudgetIsNat DEF Budget
<1>5. Spent'
  BY <1>1, <1>4, CreditKept DEF Spent
<1>6. Punctual'
  BY <1>1, <1>2 DEF Punctual, Settled
<1>7. QED
  BY <1>3, <1>5, <1>6

LEMMA TickSpends ==
    ASSUME ClaimInv, TypeOK', Tick
    PROVE  Level' /\ Spent' /\ Punctual'
<1> USE DEF ClaimInv
<1>1. UNCHANGED <<lockedBy, processed, failed, attempts, batch, doing, crashes, replays>>
      /\ lapses' = lapses + Cardinality(AtLeaseEnd) /\ Cardinality(AtLeaseEnd) \in Nat
  BY LapsesCount DEF Tick
<1>2. /\ \A e \in Event : lockedBy[e] # NoWorker => age'[e] = Older(age[e])
      /\ \A w \in Worker : Busy(w) => held'[w] = Older(held[w])
      /\ NoWorker \notin Worker
  BY OutboxAssumption DEF Tick
<1>3. /\ \A w \in Worker, e \in Event : Carries(w, e)' <=> Carries(w, e)
      /\ \A w \in Worker : Busy(w)' <=> Busy(w)
      /\ \A e \in Event : Settled(e)' <=> Settled(e)
      /\ \A w \in Worker, e \in Event : Carries(w, e) => Busy(w)
  BY <1>1 DEF Carries, Doing, Busy, Settled
<1>4. Level'
  BY <1>1, <1>2, <1>3 DEF Level
\* A tick at which no lease ends keeps every worker inside its lease.
<1>5. lapses' = lapses => \A w \in Worker : Busy(w) /\ held[w] <= Lease => held'[w] <= Lease
  <2> SUFFICES ASSUME lapses' = lapses, NEW w \in Worker, Busy(w), held[w] <= Lease PROVE held'[w] <= Lease
    OBVIOUS
  <2>1. Cardinality(AtLeaseEnd) = 0
    BY <1>1, BudgetIsNat
  <2>2. IsFiniteSet(AtLeaseEnd)
    BY OutboxAssumption, FS_Subset DEF AtLeaseEnd
  <2>3. held[w] # Lease
    BY <2>1, <2>2, FS_EmptySet DEF AtLeaseEnd
  <2>4. held[w] \in Nat /\ Lease \in Nat
    BY BudgetIsNat
  <2>5. QED
    BY <1>2, <2>3, <2>4 DEF Older
<1>6. Spent'
  <2>1. Budget' >= Budget /\ (lapses' # lapses => Budget' > Budget)
    BY <1>1, BudgetIsNat DEF Budget
  <2>2. lapses' = lapses => \A e \in Event : InHand(e) => InHand(e)'
    BY <1>1, <1>3, <1>5 DEF InHand
  <2>3. ASSUME NEW e \in Event
        PROVE  /\ attempts'[e] <= Budget'
               /\ attempts'[e] >= MaxAttempts /\ ~ Settled(e)' /\ ~ InHand(e)' => attempts'[e] < Budget'
    BY <1>1, <1>3, <2>1, <2>2, CreditKept
  <2>4. QED
    BY <2>3 DEF Spent
<1>7. Punctual'
  <2> SUFFICES ASSUME lapses' = 0, replays = 0 PROVE Punctual'
    BY <1>1 DEF Punctual
  <2>1. lapses = 0
    BY <1>1, BudgetIsNat
  <2>2. QED
    BY <1>1, <1>3, <1>5, <2>1 DEF Punctual
<1>8. QED
  BY <1>4, <1>6, <1>7

\* The inductive invariant of claims.  The bound alone is not inductive: a claim adds one to
\* the count and nothing to the budget, so an event that can be claimed must have credit left.
THEOREM ClaimInvariant == Spec => []ClaimInv
<1>1. Init => ClaimInv
  <2> SUFFICES ASSUME Init PROVE ClaimInv
    OBVIOUS
  <2>1. TypeOK
    BY OutboxAssumption DEF Init, TypeOK, AgeRange
  <2>2. \A w \in Worker : ~ Busy(w) /\ \A e \in Event : ~ Carries(w, e)
    BY DEF Init, Carries, Doing, Busy
  <2>3. \A e \in Event : attempts[e] = 0
    BY DEF Init
  <2>4. MaxAttempts \in Nat \ {0} /\ Budget \in Nat
    BY <2>1, BudgetIsNat, OutboxAssumption
  <2>5. Spent
    BY <2>3, <2>4 DEF Spent
  <2>6. Level /\ Punctual
    BY <2>2 DEF Level, Punctual, Busy
  <2>7. QED
    BY <2>1, <2>5, <2>6 DEF ClaimInv
<1>2. ClaimInv /\ TypeOK' /\ [Next]_vars => ClaimInv'
  <2> SUFFICES ASSUME ClaimInv, TypeOK', [Next]_vars PROVE ClaimInv'
    OBVIOUS
  <2>1. CASE UNCHANGED vars
    BY <2>1 DEF vars, eventVars, workerVars, bounds, ClaimInv, Level, Spent, Punctual, Carries, Doing,
                InHand, Settled, Budget, Busy
  <2>2. CASE Next
    BY <2>2, OperatorSpends, ClaimSpends, BeginSpends, HandlerSpends, RecordSpends, CrashSpends, TickSpends
    DEF Next, WorkerStep, ClaimInv
  <2>3. QED
    BY <2>1, <2>2
<1>3. QED
  BY <1>1, <1>2, OutboxTypeCorrect, PTL DEF Spec

\* A death, a lapse and a replay each cost one claim beyond OUTBOX_MAX_ATTEMPTS at most, and
\* nothing else does.
THEOREM ClaimsAreBounded == Spec => []AttemptsBounded
<1>1. ClaimInv => AttemptsBounded
  BY DEF ClaimInv, Spent, Budget, AttemptsBounded
<1>2. QED
  BY <1>1, ClaimInvariant, PTL

\* What the documents say of leases and of replay is true as long as no worker outlives its
\* lease and nobody replays, whoever dies and whatever the mail backend does: no two workers
\* handle the same event, and no event that failed for good is processed.
THEOREM PunctualWorkersExclude == Spec => [](lapses = 0 /\ replays = 0 => LeaseExclusion /\ FailuresAreReplayable)
<1> DEFINE Exclusive == lapses = 0 /\ replays = 0 => FailuresAreReplayable
<1>1. Init => Exclusive
  BY DEF Init, FailuresAreReplayable
<1>2. ClaimInv /\ Exclusive /\ [Next]_vars => Exclusive'
  <2> SUFFICES ASSUME ClaimInv, Exclusive, [Next]_vars, lapses' = 0, replays' = 0
               PROVE  FailuresAreReplayable'
    OBVIOUS
  <2>1. lapses = 0 /\ replays = 0
    BY LapsesCount, BudgetIsNat DEF ClaimInv, Next, WorkerStep, Enqueue, Replay, Claim, Begin, Send, Raise, Succeed,
       Fail, Crash, Tick, vars, bounds
  <2>2. ASSUME NEW w \in Worker, Succeed(w) \/ Fail(w) PROVE FailuresAreReplayable'
    <3>1. PICK e \in Event : /\ Doing(w, e, Stage)
                             /\ \/ processed' = [processed EXCEPT ![e] = TRUE] /\ failed' = failed
                                \/ processed' = processed /\ failed' \in {failed, [failed EXCEPT ![e] = TRUE]}
      BY <2>2 DEF Succeed, Fail, RecordFailure, Doing, Stage
    <3>2. ~ processed[e] /\ ~ failed[e]
      BY <2>1, <3>1 DEF ClaimInv, Punctual, Carries, Settled
    <3>3. QED
      BY <2>1, <3>1, <3>2 DEF ClaimInv, TypeOK, FailuresAreReplayable
  <2>3. ASSUME UNCHANGED <<processed, failed>> PROVE FailuresAreReplayable'
    BY <2>1, <2>3 DEF FailuresAreReplayable
  <2>4. ASSUME NEW e \in Event, Enqueue(e) \/ Replay(e) PROVE UNCHANGED <<processed, failed>>
    BY <2>1, <2>4, BudgetIsNat DEF ClaimInv, Enqueue, Replay
  <2>5. ASSUME NEW w \in Worker, Claim(w) \/ Begin(w) \/ Send(w) \/ Raise(w) \/ Crash(w)
        PROVE  UNCHANGED <<processed, failed>>
    BY <2>5 DEF Claim, Begin, Send, Raise, Crash, eventVars
  <2>6. ASSUME Tick \/ UNCHANGED vars PROVE UNCHANGED <<processed, failed>>
    BY <2>6 DEF Tick, vars, eventVars
  <2>7. QED
    BY <2>2, <2>3, <2>4, <2>5, <2>6 DEF Next, WorkerStep
<1>3. ClaimInv => (lapses = 0 /\ replays = 0 => LeaseExclusion)
  BY DEF ClaimInv, Punctual, LeaseExclusion, Carries, Doing, Stage
<1>4. QED
  BY <1>1, <1>2, <1>3, ClaimInvariant, PTL DEF Spec
=============================================================================
