------------------------- MODULE ModbusCore_proofs -------------------------
(***************************************************************************)
(* Proofs about ModbusCore, for every set of requests, every capacity of   *)
(* the ring and every retry budget.                                        *)
(***************************************************************************)
EXTENDS ModbusCore, SequenceTheorems, TLAPS

\* The ring's successor stays in the array and wraps at its end.
LEMMA SuccWraps ==
    ASSUME NEW i \in 0 .. Cap - 1
    PROVE  Succ(i) = IF i = Cap - 1 THEN 0 ELSE i + 1
  BY CapAssumption DEF Succ

\* So it is an index of the array again.
LEMMA SuccInRange == \A i \in 0 .. Cap - 1 : Succ(i) \in 0 .. Cap - 1
  BY CapAssumption DEF Succ

\* Whatever libmodbus answers, the worker's result code is a status.
LEMMA ResultIsStatus ==
    ASSUME NEW k, NEW reply
    PROVE  RequestResult(k, reply) \in Statuses
  BY DEF RequestResult, MapError, Statuses

\* The object of a request not in use has some kind.
LEMMA AnyKindIsKind == AnyKind \in Kinds
  BY KindsAssumption DEF AnyKind
-----------------------------------------------------------------------------
\* TypeOK holds when the context has not been started.
LEMMA InitTypeOK == Init => TypeOK
<1> SUFFICES ASSUME Init PROVE TypeOK
  OBVIOUS
<1>1. /\ 0 \in 0 .. Cap - 1 /\ 0 \in 0 .. Cap
      /\ 0 \in 0 .. ReconnectMax
  BY CapAssumption, ReconnectAssumption
<1>2. /\ slots \in [0 .. Cap - 1 -> Requests \cup {NoReq}]
      /\ kind \in [Requests -> Kinds]
  BY AnyKindIsKind DEF Init
<1>3. QED
  BY <1>1, <1>2 DEF Init, TypeOK, CallerStates, WorkerStates, Statuses

\* No step of a caller breaks TypeOK.
LEMMA CallerTypeOK ==
    ASSUME TypeOK, NEW r \in Requests, Caller(r)
    PROVE  TypeOK'
<1> USE DEF TypeOK, CallerStates, Statuses, vars, queue, worker, results, seen
<1>1. ASSUME NEW k \in Kinds, Submit(r, k) PROVE TypeOK'
  BY <1>1 DEF Submit
<1>2. CASE PushAccept(r)
  <2>1. Succ(tail) \in 0 .. Cap - 1
    BY SuccInRange
  <2>2. wpc' \in WorkerStates
    BY <1>2 DEF PushAccept, WokenWorker, WorkerStates
  <2>3. pc' \in [Requests -> CallerStates]
    BY <1>2 DEF PushAccept, WokenCallers
  <2>4. QED
    BY <1>2, <2>1, <2>2, <2>3, CapAssumption DEF PushAccept
<1>3. CASE PushBlock(r)
  BY <1>3 DEF PushBlock
<1>4. CASE PushReject(r)
  BY <1>4, AnyKindIsKind DEF PushReject
<1>5. CASE StartWait(r)
  BY <1>5 DEF StartWait
<1>6. CASE Wait(r)
  BY <1>6 DEF Wait
<1>7. CASE Timeout(r)
  BY <1>7 DEF Timeout
<1>8. CASE WaitExpired(r)
  BY <1>8 DEF WaitExpired
<1>9. CASE Poll(r)
  BY <1>9 DEF Poll
<1>10. CASE Cleanup(r)
  BY <1>10, AnyKindIsKind DEF Cleanup
<1>11. CASE SpuriousWake(r)
  BY <1>11 DEF SpuriousWake
<1>12. QED
  BY <1>1, <1>2, <1>3, <1>4, <1>5, <1>6, <1>7, <1>8, <1>9, <1>10, <1>11
     DEF Caller, Push

\* No step of the worker breaks TypeOK.
LEMMA WorkerTypeOK ==
    ASSUME TypeOK, Worker \/ PopSpuriousWake
    PROVE  TypeOK'
<1> USE DEF TypeOK, WorkerStates, vars, queue, worker, results, seen
<1>1. CASE WorkerLoop
  BY <1>1 DEF WorkerLoop
<1>2. CASE PopTake
  <2>1. Succ(head) \in 0 .. Cap - 1
    BY SuccInRange
  <2>2. pc' \in [Requests -> CallerStates]
    BY <1>2 DEF PopTake, WokenCallers, CallerStates
  <2>3. cur' \in Requests \cup {NoReq} /\ count' \in 0 .. Cap
    BY <1>2, CapAssumption DEF PopTake
  <2>4. QED
    BY <1>2, <2>1, <2>2, <2>3 DEF PopTake, Statuses
<1>3. CASE PopEmpty
  BY <1>3 DEF PopEmpty
<1>4. CASE StartAttempt
  BY <1>4 DEF StartAttempt
<1>5. CASE Exec
  <2>1. PICK rc \in Statuses : Settle(rc)
    BY <1>5, ResultIsStatus DEF Exec
  <2>2. exchanges' \in [Requests -> Nat]
    <3>1. exchanges' = [exchanges EXCEPT ![cur] = exchanges[cur] + 1]
      BY <2>1 DEF Settle
    <3>2. CASE cur \in Requests
      BY <3>1, <3>2
    <3>3. CASE cur \notin Requests
      BY <3>1, <3>3
    <3>4. QED
      BY <3>2, <3>3
  <2>3. last' \in [Requests -> Statuses \cup {"none"}]
    BY <2>1 DEF Settle
  <2>4. attempt' \in Nat /\ finalRc' \in Statuses
    BY <2>1 DEF Settle
  <2>5. wpc' \in WorkerStates /\ reopenFor' \in {"before", "after"}
    BY <2>1 DEF Settle
  <2>6. mbOpen' \in BOOLEAN
    BY <2>1, Zenon DEF Settle
  <2>7. QED
    BY <2>1, <2>2, <2>3, <2>4, <2>5, <2>6 DEF Settle
<1>6. CASE Reopen
  <2>1. tries' \in 0 .. ReconnectMax
    BY <1>6, ReconnectAssumption DEF Reopen
  <2>2. attempt' \in Nat /\ finalRc' \in Statuses
    BY <1>6 DEF Reopen, Statuses
  <2>3. QED
    BY <1>6, <2>1, <2>2 DEF Reopen
<1>7. CASE ReopenGiveUp
  BY <1>7, ReconnectAssumption DEF ReopenGiveUp, Statuses
<1>8. CASE Complete
  BY <1>8 DEF Complete, CallerStates, Statuses
<1>9. CASE PopSpuriousWake
  BY <1>9 DEF PopSpuriousWake
<1>10. QED
  BY <1>1, <1>2, <1>3, <1>4, <1>5, <1>6, <1>7, <1>8, <1>9 DEF Worker

\* Neither start nor shutdown breaks TypeOK.
LEMMA ControllerTypeOK ==
    ASSUME TypeOK, Controller
    PROVE  TypeOK'
<1> USE DEF TypeOK, WorkerStates, vars, queue, worker, results, seen
<1>1. CASE CtxInit
  BY <1>1 DEF CtxInit
<1>2. CASE ShutdownStart
  BY <1>2 DEF ShutdownStart, WokenCallers, WokenWorker, CallerStates
<1>3. CASE ShutdownFinish
  BY <1>3 DEF ShutdownFinish
<1>4. QED
  BY <1>1, <1>2, <1>3 DEF Controller

\* The C fields keep their ranges: head and tail index the ring's array and
\* count never exceeds MB_QUEUE_CAP, whatever the callers and the worker do.
THEOREM TypeCorrect == Spec => []TypeOK
<1>1. TypeOK /\ [Next]_vars => TypeOK'
  <2> SUFFICES ASSUME TypeOK, [Next]_vars PROVE TypeOK'
    OBVIOUS
  <2>1. CASE Next
    BY <2>1, CallerTypeOK, WorkerTypeOK, ControllerTypeOK DEF Next
  <2>2. CASE UNCHANGED vars
    BY <2>2 DEF TypeOK, vars, queue, worker, results, seen
  <2>3. QED
    BY <2>1, <2>2
<1>2. QED
  BY InitTypeOK, <1>1, PTL DEF Spec
-----------------------------------------------------------------------------
(* Custody.  It is inductive together with TypeOK and with how the program *)
(* counters of the worker, the callers and the controller go together.     *)

Phases ==
    /\ cur # NoReq <=> wpc \in {"attempt", "reopen", "exec", "complete"}
    /\ \A r \in Requests : pc[r] \in {"idle", "push", "pushWait"} => ~done[r]
    /\ wpc = "none" <=> life = "down"
    /\ running <=> life = "up"
    /\ life = "closed" => wpc = "exit" /\ ~mbOpen

IInv == TypeOK /\ Phases /\ Custody

\* A ring that is not full has its next slot free, and filling it extends the
\* occupied slots by it.
LEMMA OccupiedPush ==
    ASSUME NEW h \in 0 .. Cap - 1, NEW c \in 0 .. Cap - 1
    PROVE  /\ SlotAfter(h, c) \in 0 .. Cap - 1
           /\ SlotAfter(h, c) \notin Occupied(h, c)
           /\ Occupied(h, c + 1) = Occupied(h, c) \cup {SlotAfter(h, c)}
           /\ Succ(SlotAfter(h, c)) = SlotAfter(h, c + 1)
<1>1. SlotAfter(h, c) \in 0 .. Cap - 1
  BY CapAssumption DEF SlotAfter
<1>2. SlotAfter(h, c) \notin Occupied(h, c)
  BY CapAssumption DEF SlotAfter, Occupied
<1>3. Occupied(h, c + 1) = Occupied(h, c) \cup {SlotAfter(h, c)}
  BY CapAssumption DEF SlotAfter, Occupied
<1>4. Succ(SlotAfter(h, c)) = SlotAfter(h, c + 1)
  BY <1>1, SuccWraps, CapAssumption DEF SlotAfter
<1>5. QED
  BY <1>1, <1>2, <1>3, <1>4

\* A ring that is not empty has its head occupied, and advancing head frees
\* that slot alone and leaves the tail where it is.
LEMMA OccupiedPop ==
    ASSUME NEW h \in 0 .. Cap - 1, NEW c \in 1 .. Cap
    PROVE  /\ h \in Occupied(h, c)
           /\ Occupied(Succ(h), c - 1) = Occupied(h, c) \ {h}
           /\ SlotAfter(Succ(h), c - 1) = SlotAfter(h, c)
<1>1. h \in Occupied(h, c)
  BY CapAssumption DEF Occupied
<1>2. Occupied(Succ(h), c - 1) = Occupied(h, c) \ {h}
  BY SuccWraps, CapAssumption DEF Occupied
<1>3. SlotAfter(Succ(h), c - 1) = SlotAfter(h, c)
  BY SuccWraps, CapAssumption DEF SlotAfter
<1>4. QED
  BY <1>1, <1>2, <1>3

\* A step that leaves the ring, the worker's request and the set of outstanding
\* requests alone preserves Custody.
LEMMA CustodyFrame ==
    ASSUME Custody, UNCHANGED <<slots, head, tail, count, cur>>,
           Outstanding' = Outstanding
    PROVE  Custody'
  BY DEF Custody, InUse, Occupied, SlotAfter

\* The inductive invariant of Custody holds at the start.
LEMMA InitIInv == Init => IInv
<1> SUFFICES ASSUME Init PROVE IInv
  OBVIOUS
<1>1. TypeOK
  BY InitTypeOK
<1>2. Phases
  BY DEF Init, Phases
<1>3. Custody
  <2>1. InUse = {} /\ Outstanding = {}
    BY CapAssumption DEF Init, InUse, Occupied, Outstanding
  <2>2. tail = SlotAfter(head, count)
    BY CapAssumption DEF Init, SlotAfter
  <2>3. QED
    BY <2>1, <2>2 DEF Custody, Init
<1>4. QED
  BY <1>1, <1>2, <1>3 DEF IInv

\* Callers preserve it: a push fills a free slot, and a cleaned-up request is not outstanding.
LEMMA CallerIInv ==
    ASSUME IInv, NEW r \in Requests, Caller(r)
    PROVE  IInv'
<1> USE DEF IInv
<1>1. TypeOK'
  BY CallerTypeOK
<1>2. ASSUME NEW k \in Kinds, Submit(r, k) PROVE Phases' /\ Custody'
  <2>1. Phases'
    BY <1>2 DEF Submit, Phases, TypeOK, worker
  <2>2. Outstanding' = Outstanding
    BY <1>2 DEF Submit, Outstanding, TypeOK
  <2>3. QED
    BY <1>2, <2>1, <2>2, CustodyFrame DEF Submit, queue, worker
<1>3. CASE PushAccept(r)
  <2>1. Phases'
    BY <1>3 DEF PushAccept, WokenCallers, WokenWorker, Phases, TypeOK, results
  <2>2. r \notin Outstanding /\ Outstanding' = Outstanding \cup {r}
    BY <1>3 DEF PushAccept, WokenCallers, Outstanding, Phases, TypeOK, results
  <2>3. /\ tail \in 0 .. Cap - 1 /\ tail \notin InUse
        /\ InUse' = InUse \cup {tail}
        /\ tail' = SlotAfter(head, count + 1)
    <3>1. /\ head \in 0 .. Cap - 1 /\ count \in 0 .. Cap - 1
          /\ head' = head /\ count' = count + 1
          /\ tail = SlotAfter(head, count) /\ tail' = Succ(tail)
      BY <1>3, CapAssumption DEF PushAccept, Custody, TypeOK
    <3>2. InUse' = Occupied(head, count + 1)
      BY <3>1 DEF InUse, Occupied
    <3>3. QED
      BY <3>1, <3>2, OccupiedPush DEF InUse
  <2>4. tail' = SlotAfter(head', count')
    BY <1>3, <2>3 DEF PushAccept
  <2>5. /\ \A i \in InUse : slots'[i] = slots[i]
        /\ slots'[tail] = r
    BY <1>3, <2>3 DEF PushAccept, TypeOK, InUse, Occupied
  <2>6. /\ \A i, j \in InUse' : slots'[i] = slots'[j] => i = j
        /\ \A i \in InUse' : slots'[i] \in Outstanding' /\ slots'[i] # cur
        /\ cur # NoReq => cur \in Outstanding'
        /\ \A q \in Outstanding' : q = cur \/ \E i \in InUse' : slots'[i] = q
    BY <2>2, <2>3, <2>5, NoReqAssumption DEF Custody
  <2>7. cur' = cur
    BY <1>3 DEF PushAccept
  <2>8. Custody'
    BY <2>4, <2>6, <2>7 DEF Custody, SlotAfter
  <2>9. QED
    BY <1>1, <2>1, <2>8
<1>4. CASE PushBlock(r) \/ PushReject(r)
  <2>1. Phases'
    BY <1>4 DEF PushBlock, PushReject, Phases, TypeOK, worker, results
  <2>2. Outstanding' = Outstanding
    BY <1>4 DEF PushBlock, PushReject, Outstanding, TypeOK, results
  <2>3. QED
    BY <1>1, <1>4, <2>1, <2>2, CustodyFrame DEF PushBlock, PushReject, queue, worker
<1>5. CASE StartWait(r) \/ Wait(r) \/ Timeout(r) \/ WaitExpired(r) \/ Poll(r)
  <2> USE DEF StartWait, Wait, Timeout, WaitExpired, Poll
  <2>1. Phases'
    BY <1>5 DEF Phases, TypeOK, worker, results
  <2>2. Outstanding' = Outstanding
    BY <1>5 DEF Outstanding, TypeOK, results
  <2>3. QED
    BY <1>1, <1>5, <2>1, <2>2, CustodyFrame DEF queue, worker
<1>6. CASE Cleanup(r)
  <2>1. Phases'
    BY <1>6 DEF Cleanup, Phases, TypeOK, worker
  <2>2. Outstanding' = Outstanding
    BY <1>6 DEF Cleanup, Outstanding, TypeOK
  <2>3. QED
    BY <1>1, <1>6, <2>1, <2>2, CustodyFrame DEF Cleanup, queue, worker
<1>7. CASE SpuriousWake(r)
  <2>1. Phases'
    BY <1>7 DEF SpuriousWake, Phases, TypeOK, worker, results
  <2>2. Outstanding' = Outstanding
    BY <1>7 DEF SpuriousWake, Outstanding, TypeOK, results
  <2>3. QED
    BY <1>1, <1>7, <2>1, <2>2, CustodyFrame DEF SpuriousWake, queue, worker
<1>8. QED
  BY <1>1, <1>2, <1>3, <1>4, <1>5, <1>6, <1>7 DEF Caller, Push

\* The worker preserves it: what it pops leaves the ring, what it completes is let go.
LEMMA WorkerIInv ==
    ASSUME IInv, Worker \/ PopSpuriousWake
    PROVE  IInv'
<1> USE DEF IInv
<1>1. TypeOK'
  BY WorkerTypeOK
<1>2. CASE PopTake
  <2>1. wpc = "pop" /\ cur = NoReq
    BY <1>2 DEF PopTake, Phases
  <2>2. Outstanding' = Outstanding
    BY <1>2 DEF PopTake, WokenCallers, Outstanding, TypeOK, results
  <2>3. /\ head \in InUse
        /\ InUse' = InUse \ {head}
        /\ tail' = SlotAfter(head', count')
    BY <1>2, OccupiedPop, CapAssumption
       DEF PopTake, Custody, TypeOK, InUse, Occupied
  <2>4. cur' = slots[head] /\ slots' = slots
    BY <1>2 DEF PopTake
  <2>5. cur' \in Outstanding /\ cur' # NoReq
    BY <2>3, <2>4, NoReqAssumption DEF Custody, Outstanding
  <2>6. /\ \A i, j \in InUse' : slots[i] = slots[j] => i = j
        /\ \A i \in InUse' : slots[i] \in Outstanding /\ slots[i] # cur'
        /\ \A q \in Outstanding : q = cur' \/ \E i \in InUse' : slots[i] = q
    BY <2>1, <2>3, <2>4, NoReqAssumption DEF Custody, Outstanding
  <2>7. Custody'
    BY <2>2, <2>3, <2>4, <2>5, <2>6 DEF Custody, SlotAfter
  <2>8. Phases'
    BY <1>2, <2>5 DEF PopTake, WokenCallers, Phases, TypeOK, results
  <2>9. QED
    BY <1>1, <2>7, <2>8
<1>3. CASE Complete
  <2>1. cur \in Outstanding /\ cur \in Requests /\ cur' = NoReq
    BY <1>3 DEF Complete, Phases, Custody, Outstanding
  <2>2. Outstanding' = Outstanding \ {cur}
    BY <1>3, <2>1 DEF Complete, Outstanding, TypeOK
  <2>3. Phases'
    BY <1>3, <2>1 DEF Complete, Phases, TypeOK, Outstanding
  <2>4. UNCHANGED <<slots, head, tail, count>> /\ InUse' = InUse
    BY <1>3 DEF Complete, queue, InUse, Occupied
  <2>5. Custody'
    BY <2>1, <2>2, <2>4, NoReqAssumption DEF Custody, SlotAfter, Outstanding
  <2>6. QED
    BY <1>1, <2>3, <2>5
<1>4. CASE WorkerLoop \/ PopEmpty \/ StartAttempt \/ Exec \/ Reopen
           \/ ReopenGiveUp \/ PopSpuriousWake
  <2> USE DEF WorkerLoop, PopEmpty, StartAttempt, Exec, Settle, Reopen,
              ReopenGiveUp, PopSpuriousWake
  <2>1. UNCHANGED <<life, running, slots, head, tail, count, pc, done, cur>>
    BY <1>4 DEF queue, results
  <2>2. Outstanding' = Outstanding
    BY <2>1 DEF Outstanding
  <2>3. /\ cur # NoReq <=> wpc' \in {"attempt", "reopen", "exec", "complete"}
        /\ wpc \notin {"none", "exit"} /\ wpc' # "none"
    BY <1>4 DEF Phases
  <2>4. Phases'
    BY <2>1, <2>3 DEF Phases
  <2>5. QED
    BY <1>1, <2>1, <2>2, <2>4, CustodyFrame
<1>5. QED
  BY <1>2, <1>3, <1>4 DEF Worker

\* Start and shutdown preserve it: they leave the ring alone.
LEMMA ControllerIInv ==
    ASSUME IInv, Controller
    PROVE  IInv'
<1> USE DEF IInv
<1>1. TypeOK'
  BY ControllerTypeOK
<1>2. Outstanding' = Outstanding
  BY DEF Controller, CtxInit, ShutdownStart, ShutdownFinish, WokenCallers,
         Outstanding, TypeOK, results
<1>3. Custody'
  BY <1>2, CustodyFrame
     DEF Controller, CtxInit, ShutdownStart, ShutdownFinish, queue
<1>4. CASE CtxInit
  BY <1>1, <1>3, <1>4 DEF CtxInit, Phases, results
<1>5. CASE ShutdownStart
  BY <1>1, <1>3, <1>5
     DEF ShutdownStart, Phases, WokenCallers, WokenWorker, TypeOK, results
<1>6. CASE ShutdownFinish
  BY <1>1, <1>3, <1>6 DEF ShutdownFinish, Phases, results
<1>7. QED
  BY <1>4, <1>5, <1>6 DEF Controller

\* Every step preserves it.
LEMMA InductiveIInv == IInv /\ [Next]_vars => IInv'
<1> SUFFICES ASSUME IInv, [Next]_vars PROVE IInv'
  OBVIOUS
<1>1. CASE Next
  BY <1>1, CallerIInv, WorkerIInv, ControllerIInv DEF Next
<1>2. CASE UNCHANGED vars
  <2>1. Outstanding' = Outstanding
    BY <1>2 DEF vars, results, Outstanding
  <2>2. Custody'
    BY <1>2, <2>1, CustodyFrame DEF vars, queue, worker, IInv
  <2>3. TypeOK' /\ Phases'
    BY <1>2 DEF vars, queue, worker, results, seen, IInv, TypeOK, Phases
  <2>4. QED
    BY <2>2, <2>3 DEF IInv
<1>3. QED
  BY <1>1, <1>2

\* The queue and the worker hold exactly the outstanding requests, each once:
\* an accepted request is neither lost by the ring nor served twice, and no
\* pointer to a request its caller has cleaned up stays behind.
THEOREM CustodyHolds == Spec => []Custody
<1>1. IInv => Custody
  BY DEF IInv
<1>2. QED
  BY InitIInv, InductiveIInv, <1>1, PTL DEF Spec
-----------------------------------------------------------------------------
(* Condition variables *)

\* Nobody is asleep while what it waits for is there: a caller blocked in
\* queue_push has a full ring of a running context before it, the worker asleep
\* in queue_pop an empty one, and the request of a caller asleep in
\* mb_request_wait is not done.  One condition variable serves both directions
\* of the ring, and running is part of both conditions.  The worker does not
\* leave before shutdown.
NoWakeUpIsLost ==
    /\ \A r \in Requests : pc[r] = "pushWait" => running /\ count = Cap
    /\ wpc = "popWait" => running /\ count = 0
    /\ \A r \in Requests : pc[r] \in {"sleep", "tsleep"} => ~done[r]
    /\ wpc = "exit" => ~running

\* A step of a caller wakes the others when it fills a slot.
LEMMA CallerWakes ==
    ASSUME IInv, NoWakeUpIsLost, NEW r \in Requests, Caller(r)
    PROVE  NoWakeUpIsLost'
<1> USE DEF IInv, TypeOK, NoWakeUpIsLost, worker, results, seen, queue
<1>1. ASSUME NEW k \in Kinds, Submit(r, k) PROVE NoWakeUpIsLost'
  BY <1>1 DEF Submit
<1>2. CASE PushAccept(r)
  BY <1>2 DEF PushAccept, WokenCallers, WokenWorker, WorkerStates
<1>3. CASE PushBlock(r) \/ PushReject(r)
  BY <1>3 DEF PushBlock, PushReject
<1>4. CASE StartWait(r) \/ Wait(r) \/ Timeout(r) \/ WaitExpired(r) \/ Poll(r)
  BY <1>4 DEF StartWait, Wait, Timeout, WaitExpired, Poll
<1>5. CASE Cleanup(r)
  BY <1>5 DEF Cleanup
<1>6. CASE SpuriousWake(r)
  <2>1. \A q \in Requests : pc'[q] \in {"pushWait", "sleep", "tsleep"} => pc'[q] = pc[q]
    BY <1>6 DEF SpuriousWake
  <2>2. UNCHANGED <<running, count, wpc, done>>
    BY <1>6 DEF SpuriousWake
  <2>3. QED
    BY <2>1, <2>2
<1>7. QED
  BY <1>1, <1>2, <1>3, <1>4, <1>5, <1>6 DEF Caller, Push

\* A step of the worker wakes the callers when it takes from the ring, and the
\* one whose request it completes.
LEMMA WorkerWakes ==
    ASSUME IInv, NoWakeUpIsLost, Worker \/ PopSpuriousWake
    PROVE  NoWakeUpIsLost'
<1> USE DEF IInv, TypeOK, NoWakeUpIsLost, results, seen, queue
<1>1. CASE PopTake
  BY <1>1 DEF PopTake, WokenCallers
<1>2. CASE Complete
  BY <1>2 DEF Complete, Phases
<1>3. CASE PopEmpty \/ PopSpuriousWake \/ WorkerLoop
  BY <1>3 DEF PopEmpty, PopSpuriousWake, WorkerLoop
<1>4. CASE StartAttempt \/ Exec \/ Reopen \/ ReopenGiveUp
  BY <1>4 DEF StartAttempt, Exec, Settle, Reopen, ReopenGiveUp
<1>5. QED
  BY <1>1, <1>2, <1>3, <1>4 DEF Worker

\* Shutdown wakes everybody who waits for the ring.
LEMMA ControllerWakes ==
    ASSUME IInv, NoWakeUpIsLost, Controller
    PROVE  NoWakeUpIsLost'
  BY DEF Controller, CtxInit, ShutdownStart, ShutdownFinish, WokenCallers, WokenWorker,
     IInv, TypeOK, Phases, NoWakeUpIsLost, WorkerStates, results, seen, queue

\* For any capacity and any number of callers, no interleaving of submissions,
\* the worker, timeouts, spurious wake-ups and shutdown leaves a thread asleep
\* on queue.cv or r->cv once its condition has come true.
THEOREM NoWakeUpIsLostHolds == Spec => []NoWakeUpIsLost
<1>1. Init => NoWakeUpIsLost
  BY DEF Init, NoWakeUpIsLost
<1>2. IInv /\ NoWakeUpIsLost /\ [Next]_vars => NoWakeUpIsLost'
  <2> SUFFICES ASSUME IInv, NoWakeUpIsLost, [Next]_vars PROVE NoWakeUpIsLost'
    OBVIOUS
  <2>1. CASE Next
    BY <2>1, CallerWakes, WorkerWakes, ControllerWakes DEF Next
  <2>2. CASE UNCHANGED vars
    BY <2>2 DEF NoWakeUpIsLost, vars, queue, worker, results
  <2>3. QED
    BY <2>1, <2>2
<1>3. QED
  BY <1>1, <1>2, InitIInv, InductiveIInv, PTL DEF Spec

\* Callers and worker never all wait for each other: while a caller is blocked
\* in queue_push or, on a running context, asleep in mb_request_wait, the worker
\* is awake.  Who is left asleep after shutdown has a request that is queued or
\* with the worker still.
SomebodyWorks ==
    \A r \in Requests : pc[r] \in {"pushWait", "sleep", "tsleep"} =>
        /\ wpc # "popWait"
        /\ running => wpc # "none" /\ wpc # "exit"
        /\ pc[r] # "pushWait" => cur = r \/ \E i \in InUse : slots[i] = r

\* So queue_push, queue_pop and mb_request_wait cannot block each other, for
\* any capacity and any number of callers.
THEOREM SomebodyWorksHolds == Spec => []SomebodyWorks
<1>1. ASSUME IInv, NoWakeUpIsLost PROVE SomebodyWorks
  <2> SUFFICES ASSUME NEW r \in Requests, pc[r] \in {"pushWait", "sleep", "tsleep"}
               PROVE  /\ wpc # "popWait"
                      /\ running => wpc # "none" /\ wpc # "exit"
                      /\ pc[r] # "pushWait" => cur = r \/ \E i \in InUse : slots[i] = r
    BY DEF SomebodyWorks
  <2>1. running => wpc # "none" /\ wpc # "exit"
    BY <1>1 DEF IInv, Phases, NoWakeUpIsLost
  <2>2. CASE pc[r] = "pushWait"
    BY <1>1, <2>1, <2>2, CapAssumption DEF NoWakeUpIsLost
  <2>3. CASE pc[r] # "pushWait"
    <3>1. r \in Outstanding
      BY <1>1, <2>3 DEF NoWakeUpIsLost, Outstanding
    <3>2. cur = r \/ \E i \in InUse : slots[i] = r
      BY <1>1, <3>1 DEF IInv, Custody
    <3>3. CASE cur = r
      BY <1>1, <2>1, <3>3, NoReqAssumption DEF IInv, Phases
    <3>4. CASE \E i \in InUse : slots[i] = r
      <4>1. count # 0
        <5> PICK i \in InUse : slots[i] = r
          BY <3>4
        <5> QED
          BY <1>1, CapAssumption DEF IInv, TypeOK, InUse, Occupied
      <4>2. QED
        BY <1>1, <2>1, <3>2, <4>1 DEF NoWakeUpIsLost
    <3>5. QED
      BY <3>2, <3>3, <3>4
  <2>4. QED
    BY <2>2, <2>3
<1>2. QED
  BY <1>1, InitIInv, InductiveIInv, NoWakeUpIsLostHolds, PTL DEF Spec
-----------------------------------------------------------------------------
(* Shutdown *)

\* After mb_ctx_shutdown has returned, a caller still inside the library finds
\* running = FALSE: it changes neither the queue nor the port, and there is no
\* worker left to complete anything.
THEOREM QuietAfterShutdownHolds == Spec => QuietAfterShutdown
<1> DEFINE Quiet == life = "closed" =>
                      /\ UNCHANGED <<queue, mbOpen, wpc, cur>>
                      /\ \A r \in Requests : done'[r] => done[r]
<1>1. IInv /\ [Next]_vars => [Quiet]_vars
  <2> SUFFICES ASSUME IInv, Next, life = "closed"
               PROVE  /\ UNCHANGED <<queue, mbOpen, wpc, cur>>
                      /\ \A r \in Requests : done'[r] => done[r]
    OBVIOUS
  <2>1. wpc = "exit" /\ ~running
    BY DEF IInv, Phases
  <2>2. ASSUME NEW r \in Requests, Caller(r)
        PROVE  /\ UNCHANGED <<queue, mbOpen, wpc, cur>>
               /\ \A q \in Requests : done'[q] => done[q]
    BY <2>1, <2>2
       DEF Caller, Submit, Push, PushAccept, PushBlock, PushReject, StartWait,
           Wait, Timeout, WaitExpired, Poll, Cleanup, SpuriousWake, IInv,
           TypeOK, queue, worker, results
  <2>3. ~(Worker \/ PopSpuriousWake \/ Controller)
    BY <2>1 DEF Worker, WorkerLoop, PopTake, PopEmpty, StartAttempt, Exec,
                Reopen, ReopenGiveUp, Complete, PopSpuriousWake, Controller,
                CtxInit, ShutdownStart, ShutdownFinish
  <2>4. QED
    BY <2>2, <2>3 DEF Next
<1>2. QED
  BY InitIInv, InductiveIInv, <1>1, PTL DEF Spec, QuietAfterShutdown
-----------------------------------------------------------------------------
(* Refinement of RequestService *)

\* The slot of the i-th pending request is in use, and pending is a sequence.
LEMMA PendingSlots ==
    ASSUME TypeOK, NEW i \in 1 .. count
    PROVE  /\ SlotAfter(head, i - 1) \in InUse
           /\ Pending[i] = slots[SlotAfter(head, i - 1)]
  BY CapAssumption DEF TypeOK, SlotAfter, InUse, Occupied, Pending

\* The abstract queue is a sequence of requests.
LEMMA PendingIsSeq ==
    ASSUME TypeOK
    PROVE  Pending \in Seq(Requests \cup {NoReq}) /\ Len(Pending) = count
<1>1. \A i \in 1 .. count : slots[SlotAfter(head, i - 1)] \in Requests \cup {NoReq}
  BY CapAssumption DEF TypeOK, SlotAfter
<1>2. QED
  BY <1>1 DEF TypeOK, Pending

\* A step that leaves ring, worker's request, results and running alone stutters.
LEMMA ServiceFrame ==
    ASSUME UNCHANGED <<running, slots, head, count, cur>>, Verdict' = Verdict
    PROVE  UNCHANGED Service!svars
  BY DEF Service!svars, Pending, SlotAfter

\* An accepted push appends its request to the abstract queue.
LEMMA PushAccepts ==
    ASSUME IInv, NEW r \in Requests, PushAccept(r)
    PROVE  Service!Accept(r)
<1> USE DEF IInv
<1>1. /\ pc[r] = "push" /\ running /\ count < Cap /\ ~done[r]
      /\ r \notin Outstanding
  BY DEF PushAccept, Phases, Outstanding
<1>2. ~Service!InService(r)
  <2>1. cur # r
    BY <1>1, NoReqAssumption DEF Custody
  <2>2. \A i \in 1 .. count : Pending[i] # r
    BY <1>1, PendingSlots DEF Custody
  <2>3. QED
    BY <2>1, <2>2, PendingIsSeq DEF Service!InService
<1>3. Pending' = Append(Pending, r)
  <2>1. /\ count' = count + 1 /\ head' = head /\ tail = SlotAfter(head, count)
        /\ slots' = [slots EXCEPT ![tail] = r]
        /\ tail \in 0 .. Cap - 1 /\ tail \notin InUse
    BY <1>1, OccupiedPush, CapAssumption DEF PushAccept, Custody, TypeOK, InUse
  <2>2. \A i \in 1 .. count : slots'[SlotAfter(head, i - 1)] = Pending[i]
    BY <2>1, PendingSlots DEF TypeOK, InUse, Occupied
  <2>3. slots'[SlotAfter(head, count)] = r
    BY <2>1 DEF TypeOK
  <2>4. Pending' = [i \in 1 .. count + 1 |-> slots'[SlotAfter(head, i - 1)]]
    BY <2>1 DEF Pending, SlotAfter
  <2> DEFINE S == Requests \cup {NoReq}
  <2>5. /\ Append(Pending, r) \in Seq(S)
        /\ Len(Append(Pending, r)) = count + 1
        /\ \A i \in 1 .. count : Append(Pending, r)[i] = Pending[i]
        /\ Append(Pending, r)[count + 1] = r
    <3> HIDE DEF S
    <3>1. Pending \in Seq(S) /\ Len(Pending) = count /\ r \in S
      BY PendingIsSeq DEF S
    <3>2. QED
      BY <3>1, AppendProperties
  <2>6. \A i \in 1 .. count + 1 : slots'[SlotAfter(head, i - 1)] = Append(Pending, r)[i]
    <3> SUFFICES ASSUME NEW i \in 1 .. count + 1
                 PROVE  slots'[SlotAfter(head, i - 1)] = Append(Pending, r)[i]
      OBVIOUS
    <3>1. count \in Nat
      BY DEF TypeOK
    <3>2. CASE i = count + 1
      <4>1. i - 1 = count
        BY <3>1, <3>2
      <4>2. QED
        BY <2>3, <2>5, <3>2, <4>1
    <3>3. CASE i \in 1 .. count
      BY <2>2, <2>5, <3>3
    <3>4. i = count + 1 \/ i \in 1 .. count
      BY <3>1
    <3>5. QED
      BY <3>2, <3>3, <3>4
  <2>7. Append(Pending, r) = [i \in 1 .. count + 1 |-> Append(Pending, r)[i]]
    BY <2>5, LenProperties
  <2>8. QED
    BY <2>4, <2>6, <2>7
<1>4. Verdict' = Verdict /\ Verdict[r] = "none"
  BY <1>1 DEF PushAccept, Verdict, results
<1>5. running' = running /\ cur' = cur
  BY DEF PushAccept
<1>6. QED
  BY <1>1, <1>2, <1>3, <1>4, <1>5 DEF Service!Accept

\* A pop takes the head of the abstract queue.
LEMMA PopTakes ==
    ASSUME IInv, PopTake
    PROVE  Service!Take
<1> USE DEF IInv
<1>1. cur = NoReq /\ count \in 1 .. Cap /\ head \in 0 .. Cap - 1
  BY DEF PopTake, Phases, TypeOK
<1>2. Pending # <<>> /\ Head(Pending) = slots[head]
  <2>1. Pending[1] = slots[head]
    BY <1>1, PendingSlots, CapAssumption DEF SlotAfter
  <2>2. QED
    BY <1>1, <2>1, PendingIsSeq
<1>3. Pending' = Tail(Pending)
  <2>1. /\ count' = count - 1 /\ head' = Succ(head) /\ slots' = slots
    BY DEF PopTake
  <2>2. \A i \in 1 .. count - 1 : SlotAfter(Succ(head), i - 1) = SlotAfter(head, i)
    BY <1>1, SuccWraps, CapAssumption DEF SlotAfter
  <2>3. Pending' = [i \in 1 .. count - 1 |-> slots[SlotAfter(Succ(head), i - 1)]]
    BY <2>1 DEF Pending, SlotAfter
  <2>4. \A i \in 1 .. count - 1 : Pending[i + 1] = slots[SlotAfter(head, i)]
    BY <1>1 DEF Pending
  <2> DEFINE S == Requests \cup {NoReq}
  <2>5. /\ Tail(Pending) \in Seq(S)
        /\ Len(Tail(Pending)) = count - 1
        /\ \A i \in 1 .. count - 1 : Tail(Pending)[i] = Pending[i + 1]
    <3> HIDE DEF S
    <3>1. Pending \in Seq(S) /\ Len(Pending) = count
      BY PendingIsSeq DEF S
    <3>2. QED
      BY <3>1, <1>2, HeadTailProperties
  <2>6. \A i \in 1 .. count - 1 : slots[SlotAfter(Succ(head), i - 1)] = Tail(Pending)[i]
    BY <2>2, <2>4, <2>5
  <2>7. Tail(Pending) = [i \in 1 .. count - 1 |-> Tail(Pending)[i]]
    BY <2>5, LenProperties
  <2>8. QED
    BY <2>3, <2>6, <2>7
<1>4. cur' = slots[head] /\ running' = running
  BY DEF PopTake
<1>5. Verdict' = Verdict
  BY DEF PopTake, Verdict, results
<1>6. QED
  BY <1>1, <1>2, <1>3, <1>4, <1>5 DEF Service!Take

\* A completion gives the active request its verdict.
LEMMA CompleteFinishes ==
    ASSUME IInv, Complete
    PROVE  Service!Finish(finalRc)
<1>1. cur \in Requests /\ cur # NoReq
  BY NoReqAssumption DEF Complete, IInv, Phases, TypeOK
<1>2. Verdict' = [Verdict EXCEPT ![cur] = finalRc]
  BY <1>1 DEF Complete, Verdict, IInv, TypeOK
<1>3. Pending' = Pending /\ running' = running /\ cur' = NoReq
  BY DEF Complete, Pending, SlotAfter, queue
<1>4. QED
  BY <1>1, <1>2, <1>3 DEF Service!Finish

\* Every step of the library is a step of the FIFO service or invisible to it.
LEMMA StepRefines ==
    ASSUME IInv, [Next]_vars
    PROVE  [Service!SNext]_(Service!svars)
<1> USE DEF IInv
<1>1. ASSUME NEW r \in Requests, Caller(r) PROVE [Service!SNext]_(Service!svars)
  <2>1. CASE PushAccept(r)
    BY <2>1, PushAccepts DEF Service!SNext
  <2>2. CASE Cleanup(r) /\ done[r]
    <3>1. Verdict[r] # "none" /\ Verdict' = [Verdict EXCEPT ![r] = "none"]
      BY <2>2 DEF Cleanup, Verdict, TypeOK, Statuses
    <3>2. UNCHANGED <<running, slots, head, count, cur>>
      BY <2>2 DEF Cleanup, queue, worker
    <3>3. Service!Release(r)
      BY <3>1, <3>2 DEF Service!Release, Pending, SlotAfter
    <3>4. QED
      BY <3>3 DEF Service!SNext
  <2>3. CASE ~PushAccept(r) /\ ~(Cleanup(r) /\ done[r])
    <3>1. UNCHANGED <<running, slots, head, count, cur>>
      BY <1>1, <2>3
         DEF Caller, Submit, Push, PushBlock, PushReject, StartWait, Wait,
             Timeout, WaitExpired, Poll, Cleanup, SpuriousWake, queue, worker
    <3>2. Verdict' = Verdict
      BY <1>1, <2>3
         DEF Caller, Submit, Push, PushBlock, PushReject, StartWait, Wait,
             Timeout, WaitExpired, Poll, Cleanup, SpuriousWake, results,
             Verdict, TypeOK, Phases
    <3>3. QED
      BY <3>1, <3>2, ServiceFrame
  <2>4. QED
    BY <2>1, <2>2, <2>3
<1>2. ASSUME Worker \/ PopSpuriousWake PROVE [Service!SNext]_(Service!svars)
  <2>1. CASE PopTake
    BY <2>1, PopTakes DEF Service!SNext
  <2>2. CASE Complete
    BY <2>2, CompleteFinishes DEF Service!SNext, TypeOK
  <2>3. CASE ~PopTake /\ ~Complete
    <3>1. UNCHANGED <<running, slots, head, count, cur>> /\ UNCHANGED <<done, status>>
      BY <1>2, <2>3
         DEF Worker, WorkerLoop, PopEmpty, StartAttempt, Exec, Settle, Reopen,
             ReopenGiveUp, PopSpuriousWake, queue, results
    <3>2. QED
      BY <3>1, ServiceFrame DEF Verdict
  <2>4. QED
    BY <2>1, <2>2, <2>3
<1>3. ASSUME Controller PROVE [Service!SNext]_(Service!svars)
  <2>1. UNCHANGED <<slots, head, count, cur, done, status>>
    BY <1>3 DEF Controller, CtxInit, ShutdownStart, ShutdownFinish, queue, results
  <2>2. Pending' = Pending /\ Verdict' = Verdict /\ cur' = cur
    BY <2>1 DEF Pending, SlotAfter, Verdict
  <2>3. CASE CtxInit
    BY <2>2, <2>3 DEF CtxInit, Service!Open, Service!SNext
  <2>4. CASE ShutdownStart
    BY <2>2, <2>4 DEF ShutdownStart, Phases, Service!Close, Service!SNext
  <2>5. CASE ShutdownFinish
    BY <2>2, <2>5 DEF ShutdownFinish, Service!svars
  <2>6. QED
    BY <1>3, <2>3, <2>4, <2>5 DEF Controller
<1>4. CASE UNCHANGED vars
  BY <1>4, ServiceFrame DEF vars, queue, worker, results, Verdict
<1>5. QED
  BY <1>1, <1>2, <1>3, <1>4 DEF Next

\* The initial states are those of an empty, closed service.
LEMMA InitRefines == Init => Service!SInit
  BY DEF Init, Service!SInit, Pending, Verdict

\* The ring buffer, its locks and the worker behave as the FIFO service: in
\* order, one at a time, one verdict per accepted request, none after close.
THEOREM Refinement == Spec => ImplementsService
  BY InitIInv, InductiveIInv, InitRefines, StepRefines, PTL
     DEF Spec, ImplementsService, Service!SSpec
-----------------------------------------------------------------------------
(* What a completed request reports.  The worker's locals determine the    *)
(* history of the request it serves.                                       *)

\* Before an attempt, as many exchanges were made as attempts counted, and the
\* last of them was a failure worth retrying; a lost connection was an I/O error.
BeforeAttempt ==
    /\ exchanges[cur] = attempt
    /\ last[cur] \notin Final
    /\ attempt > 0 => finalRc = last[cur]
    /\ attempt > 0 /\ ~mbOpen => last[cur] = "IO"

CurrentEarns ==
    /\ wpc # "reopen" => reopenFor = "before"
    /\ wpc = "attempt" => BeforeAttempt /\ attempt <= kind[cur].retries + 1
    /\ wpc = "exec" => BeforeAttempt /\ attempt <= kind[cur].retries /\ mbOpen
    /\ wpc = "reopen" /\ reopenFor = "before" =>
         BeforeAttempt /\ attempt <= kind[cur].retries /\ ~mbOpen
    /\ wpc = "reopen" /\ reopenFor = "after" =>
         /\ exchanges[cur] = attempt + 1 /\ attempt <= kind[cur].retries
         /\ last[cur] = "IO"
    /\ wpc = "complete" =>
         /\ finalRc = IF exchanges[cur] = 0 THEN "IO" ELSE last[cur]
         /\ exchanges[cur] <= kind[cur].retries + 1
         /\ finalRc \in {"TIMEOUT", "CRC", "PROTO"} => exchanges[cur] = kind[cur].retries + 1

Untouched ==
    \A r \in Requests : ~done[r] =>
        /\ r # cur => exchanges[r] = 0
        /\ exchanges[r] = 0 => last[r] = "none"

EInv == IInv /\ CurrentEarns /\ Untouched /\ StatusIsEarned

\* Every request has a natural number of retries.
LEMMA RetriesAreNat == \A k \in Kinds : k.retries \in Nat
  BY KindsAssumption DEF KindRecords

\* The invariant behind StatusIsEarned holds at the start.
LEMMA InitEInv == Init => EInv
  BY InitIInv DEF Init, EInv, CurrentEarns, Untouched, StatusIsEarned

\* Callers preserve it: they touch only requests the worker does not hold.
LEMMA CallerEInv ==
    ASSUME EInv, NEW r \in Requests, Caller(r)
    PROVE  EInv'
<1> USE DEF EInv, IInv
<1>1. IInv'
  BY CallerIInv
<1>2. UNCHANGED <<cur, attempt, finalRc, reopenFor, mbOpen>>
  BY DEF Caller, Submit, Push, PushAccept, PushBlock, PushReject, StartWait,
         Wait, Timeout, WaitExpired, Poll, Cleanup, SpuriousWake, worker
<1>3. wpc' = wpc \/ (wpc = "popWait" /\ wpc' = "pop")
  BY DEF Caller, Submit, Push, PushAccept, PushBlock, PushReject, StartWait,
         Wait, Timeout, WaitExpired, Poll, Cleanup, SpuriousWake, worker,
         WokenWorker
<1>4. CASE \E k \in Kinds : Submit(r, k)
  <2>1. PICK k \in Kinds : Submit(r, k)
    BY <1>4
  <2>2. r # cur \/ cur = NoReq
    BY <2>1 DEF Submit, Custody, Outstanding
  <2>3. CurrentEarns'
    BY <1>2, <2>1, <2>2, NoReqAssumption
       DEF Submit, CurrentEarns, BeforeAttempt, Phases, TypeOK, worker
  <2>4. Untouched' /\ StatusIsEarned'
    BY <1>2, <2>1 DEF Submit, Untouched, StatusIsEarned, TypeOK
  <2>5. QED
    BY <1>1, <2>3, <2>4
<1>5. CASE Cleanup(r)
  <2>1. r # cur \/ cur = NoReq
    BY <1>5 DEF Cleanup, Custody, Outstanding
  <2>2. CurrentEarns'
    BY <1>2, <1>5, <2>1, NoReqAssumption
       DEF Cleanup, CurrentEarns, BeforeAttempt, Phases, TypeOK, worker
  <2>3. Untouched' /\ StatusIsEarned'
    BY <1>2, <1>5 DEF Cleanup, Untouched, StatusIsEarned, TypeOK
  <2>4. QED
    BY <1>1, <2>2, <2>3
<1>6. CASE PushReject(r)
  <2>1. r # cur /\ ~done[r]
    BY <1>6, NoReqAssumption DEF PushReject, Custody, Outstanding, Phases
  <2>2. UNCHANGED <<done, status, exchanges, last>>
    BY <1>6 DEF PushReject, results, seen
  <2>3. \A q \in Requests : q # r => kind'[q] = kind[q]
    BY <1>6 DEF PushReject, TypeOK
  <2>4. CurrentEarns'
    BY <1>2, <1>3, <2>1, <2>2, <2>3
       DEF CurrentEarns, BeforeAttempt, Phases, TypeOK
  <2>5. Untouched' /\ StatusIsEarned'
    BY <1>2, <2>1, <2>2, <2>3 DEF Untouched, StatusIsEarned
  <2>6. QED
    BY <1>1, <2>4, <2>5
<1>7. CASE ~(\E k \in Kinds : Submit(r, k)) /\ ~Cleanup(r) /\ ~PushReject(r)
  <2>1. UNCHANGED <<kind, done, status, exchanges, last>>
    BY <1>7
       DEF Caller, Push, PushAccept, PushBlock, StartWait, Wait, Timeout,
           WaitExpired, Poll, SpuriousWake, results, seen
  <2>2. CurrentEarns' /\ Untouched' /\ StatusIsEarned'
    BY <1>2, <1>3, <2>1
       DEF CurrentEarns, BeforeAttempt, Untouched, StatusIsEarned
  <2>3. QED
    BY <1>1, <2>2
<1>8. QED
  BY <1>4, <1>5, <1>6, <1>7

\* The worker preserves it: each exchange is counted and its result kept.
LEMMA WorkerEInv ==
    ASSUME EInv, Worker \/ PopSpuriousWake
    PROVE  EInv'
<1> USE DEF EInv, IInv
<1>1. IInv'
  BY WorkerIInv
<1>2. CASE PopTake
  <2>1. cur' \in Outstanding /\ cur' # NoReq /\ cur = NoReq
    <3>1. head \in InUse /\ cur = NoReq /\ cur' = slots[head]
      BY <1>2, OccupiedPop, CapAssumption DEF PopTake, Phases, InUse, TypeOK
    <3>2. QED
      BY <3>1, NoReqAssumption DEF Custody, Outstanding
  <2>2. /\ UNCHANGED <<kind, done, status, exchanges, last, reopenFor>>
        /\ wpc = "pop" /\ wpc' = "attempt" /\ attempt' = 0
    BY <1>2 DEF PopTake, results, seen
  <2>3. exchanges[cur'] = 0 /\ last[cur'] = "none" /\ kind[cur'].retries \in Nat
    BY <2>1, NoReqAssumption, RetriesAreNat DEF Untouched, Outstanding, TypeOK
  <2>4. CurrentEarns'
    BY <2>2, <2>3 DEF CurrentEarns, BeforeAttempt, Final
  <2>5. Untouched' /\ StatusIsEarned'
    BY <2>1, <2>2, NoReqAssumption DEF Untouched, StatusIsEarned
  <2>6. QED
    BY <1>1, <2>4, <2>5
<1>3. CASE Exec
  <2>1. PICK rc \in Statuses : Settle(rc)
    BY <1>3, ResultIsStatus DEF Exec
  <2>2. /\ cur \in Requests /\ ~done[cur]
        /\ wpc = "exec" /\ BeforeAttempt /\ attempt <= kind[cur].retries
        /\ kind[cur].retries \in Nat
    BY <1>3, NoReqAssumption, RetriesAreNat
       DEF Exec, Phases, Custody, Outstanding, CurrentEarns, TypeOK
  <2>3. /\ exchanges'[cur] = attempt + 1 /\ last'[cur] = rc
        /\ \A r \in Requests : r # cur => exchanges'[r] = exchanges[r] /\ last'[r] = last[r]
        /\ UNCHANGED <<cur, kind, done, status>>
    BY <2>1, <2>2 DEF Settle, BeforeAttempt, TypeOK, results
  <2>4. CurrentEarns'
    <3>1. CASE rc = "IO" /\ wpc' = "reopen" /\ reopenFor' = "after" /\ attempt' = attempt
      BY <2>2, <2>3, <3>1 DEF CurrentEarns, TypeOK
    <3>2. CASE rc \in Final /\ wpc' = "complete" /\ finalRc' = rc /\ reopenFor' = reopenFor
      BY <2>2, <2>3, <3>2 DEF CurrentEarns, TypeOK, Final
    <3>3. CASE /\ rc \notin Final \cup {"IO"} /\ wpc' = "attempt"
               /\ attempt' = attempt + 1 /\ finalRc' = rc
               /\ mbOpen' = mbOpen /\ reopenFor' = reopenFor
      <4>1. mbOpen
        BY <2>2 DEF CurrentEarns
      <4>2. QED
        BY <2>2, <2>3, <3>3, <4>1 DEF CurrentEarns, BeforeAttempt, TypeOK
    <3>4. QED
      BY <2>1, <3>1, <3>2, <3>3 DEF Settle
  <2>5. Untouched' /\ StatusIsEarned'
    BY <2>2, <2>3 DEF Untouched, StatusIsEarned, TypeOK
  <2>6. QED
    BY <1>1, <2>4, <2>5
<1>4. CASE Complete
  <2>1. /\ cur \in Requests /\ ~done[cur] /\ cur' = NoReq /\ wpc = "complete"
        /\ wpc' = "loop"
    BY <1>4, NoReqAssumption DEF Complete, Phases, Custody, Outstanding, TypeOK
  <2>2. /\ status' = [status EXCEPT ![cur] = finalRc]
        /\ done' = [done EXCEPT ![cur] = TRUE]
        /\ UNCHANGED <<kind, exchanges, last, reopenFor>>
    BY <1>4 DEF Complete, seen
  <2>3. StatusIsEarned'
    BY <2>1, <2>2 DEF StatusIsEarned, CurrentEarns, TypeOK
  <2>4. Untouched'
    BY <2>1, <2>2 DEF Untouched, TypeOK
  <2>5. CurrentEarns'
    BY <2>1, <2>2 DEF CurrentEarns
  <2>6. QED
    BY <1>1, <2>3, <2>4, <2>5
<1>5. CASE StartAttempt \/ Reopen \/ ReopenGiveUp
  <2>1. /\ UNCHANGED <<cur, kind, done, status, exchanges, last>>
        /\ cur \in Requests /\ kind[cur].retries \in Nat
    BY <1>5, RetriesAreNat
       DEF StartAttempt, Reopen, ReopenGiveUp, Phases, TypeOK, results, seen
  <2>2. Untouched' /\ StatusIsEarned'
    BY <2>1 DEF Untouched, StatusIsEarned
  <2>3. ~done[cur]
    BY <1>5, NoReqAssumption
       DEF StartAttempt, Reopen, ReopenGiveUp, Phases, Custody, Outstanding
  <2>4. /\ exchanges[cur] \in Nat /\ attempt \in Nat /\ mbOpen \in BOOLEAN
        /\ exchanges[cur] = 0 => last[cur] = "none"
    BY <2>1, <2>3 DEF TypeOK, Untouched
  <2>5. CurrentEarns'
    <3>1. CASE StartAttempt
      <4>1. BeforeAttempt /\ attempt <= kind[cur].retries + 1
        BY <3>1 DEF StartAttempt, CurrentEarns
      <4>2. BeforeAttempt'
        BY <2>1, <3>1, <4>1 DEF StartAttempt, BeforeAttempt
      <4>3. CASE attempt > kind[cur].retries
        BY <2>1, <2>4, <3>1, <4>1, <4>3
           DEF StartAttempt, CurrentEarns, BeforeAttempt, Final
      <4>4. CASE ~(attempt > kind[cur].retries)
        BY <2>1, <2>4, <3>1, <4>1, <4>2, <4>4 DEF StartAttempt, CurrentEarns
      <4>5. QED
        BY <4>3, <4>4
    <3>2. CASE Reopen
      <4>1. CASE wpc' = "reopen" /\ reopenFor' = reopenFor
        BY <2>1, <3>2, <4>1 DEF Reopen, CurrentEarns, BeforeAttempt
      <4>2. CASE reopenFor = "before" /\ wpc' = "exec" /\ mbOpen' = TRUE
        BY <2>1, <3>2, <4>2 DEF Reopen, CurrentEarns, BeforeAttempt
      <4>3. CASE reopenFor = "after" /\ wpc' = "attempt" /\ mbOpen' = TRUE
        BY <2>1, <2>4, <3>2, <4>3 DEF Reopen, CurrentEarns, BeforeAttempt, Final
      <4>4. QED
        BY <3>2, <4>1, <4>2, <4>3 DEF Reopen, TypeOK
    <3>3. CASE ReopenGiveUp
      <4>1. CASE reopenFor = "before"
        BY <2>1, <2>4, <3>3, <4>1 DEF ReopenGiveUp, CurrentEarns, BeforeAttempt
      <4>2. CASE reopenFor = "after"
        BY <2>1, <2>4, <3>3, <4>2
           DEF ReopenGiveUp, CurrentEarns, BeforeAttempt, Final
      <4>3. QED
        BY <4>1, <4>2 DEF TypeOK
    <3>4. QED
      BY <1>5, <3>1, <3>2, <3>3
  <2>6. QED
    BY <1>1, <2>2, <2>5
<1>6. CASE WorkerLoop \/ PopEmpty \/ PopSpuriousWake
  <2>1. /\ UNCHANGED <<cur, kind, done, status, exchanges, last, reopenFor>>
        /\ wpc # "reopen" /\ wpc' \in {"pop", "popWait", "exit"}
    BY <1>6 DEF WorkerLoop, PopEmpty, PopSpuriousWake, results, seen
  <2>2. QED
    BY <1>1, <2>1 DEF CurrentEarns, Untouched, StatusIsEarned
<1>7. QED
  BY <1>2, <1>3, <1>4, <1>5, <1>6 DEF Worker

\* Start and shutdown preserve it.
LEMMA ControllerEInv ==
    ASSUME EInv, Controller
    PROVE  EInv'
<1>1. IInv'
  BY ControllerIInv DEF EInv
<1>2. UNCHANGED <<kind, done, status, cur, attempt, finalRc, reopenFor, exchanges, last>>
  BY DEF Controller, CtxInit, ShutdownStart, ShutdownFinish, results, seen
<1>3. \/ wpc' \in {"loop", "pop", "exit"} /\ wpc # "reopen"
      \/ wpc' = wpc /\ mbOpen' = mbOpen
  BY DEF Controller, CtxInit, ShutdownStart, ShutdownFinish, WokenWorker,
         EInv, IInv, Phases
<1>4. QED
  BY <1>1, <1>2, <1>3
     DEF EInv, CurrentEarns, BeforeAttempt, Untouched, StatusIsEarned

\* Every step preserves it.
LEMMA InductiveEInv == EInv /\ [Next]_vars => EInv'
<1> SUFFICES ASSUME EInv, [Next]_vars PROVE EInv'
  OBVIOUS
<1>1. CASE Next
  BY <1>1, CallerEInv, WorkerEInv, ControllerEInv DEF Next
<1>2. CASE UNCHANGED vars
  <2>1. IInv'
    BY InductiveIInv DEF EInv
  <2>2. QED
    BY <1>2, <2>1
       DEF vars, worker, results, seen, EInv, CurrentEarns, BeforeAttempt,
           Untouched, StatusIsEarned
<1>3. QED
  BY <1>1, <1>2

\* A request's status is what its last exchange came to, a retryable failure
\* only after the whole budget of attempts, IO without any exchange.
THEOREM StatusIsEarnedHolds == Spec => []StatusIsEarned
<1>1. EInv => StatusIsEarned
  BY DEF EInv
<1>2. QED
  BY InitEInv, InductiveEInv, <1>1, PTL DEF Spec

\* The retry loop never puts a request on the bus again once it was answered.
THEOREM NoExchangeAfterAnswerHolds == Spec => NoExchangeAfterAnswer
<1> DEFINE Once == \A r \in Requests :
                     exchanges'[r] > exchanges[r] =>
                       last[r] \notin {"OK", "EXCEPTION", "PARAM"}
<1>1. EInv /\ [Next]_vars => [Once]_vars
  <2> SUFFICES ASSUME EInv, Next, NEW r \in Requests,
                      exchanges'[r] > exchanges[r]
               PROVE  last[r] \notin {"OK", "EXCEPTION", "PARAM"}
    OBVIOUS
  <2>1. CASE Exec
    <3>1. exchanges' = [exchanges EXCEPT ![cur] = @ + 1] /\ wpc = "exec"
      BY <2>1 DEF Exec, Settle
    <3>2. r = cur
      BY <3>1 DEF EInv, IInv, TypeOK
    <3>3. QED
      BY <3>1, <3>2 DEF EInv, CurrentEarns, BeforeAttempt, Final
  <2>2. CASE ~Exec
    <3>1. exchanges' = exchanges \/ exchanges'[r] = 0 \/ exchanges'[r] = exchanges[r]
      BY <2>2
         DEF Next, Caller, Submit, Push, PushAccept, PushBlock, PushReject,
             StartWait, Wait, Timeout, WaitExpired, Poll, Cleanup,
             SpuriousWake, Worker, WorkerLoop, PopTake, PopEmpty,
             StartAttempt, Reopen, ReopenGiveUp, Complete, PopSpuriousWake,
             Controller, CtxInit, ShutdownStart, ShutdownFinish, seen, EInv,
             IInv, TypeOK
    <3>2. QED
      BY <3>1 DEF EInv, IInv, TypeOK
  <2>3. QED
    BY <2>1, <2>2
<1>2. QED
  BY InitEInv, InductiveEInv, <1>1, PTL DEF Spec, NoExchangeAfterAnswer
=============================================================================
