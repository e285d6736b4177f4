----------------------------- MODULE ModbusCore -----------------------------
(***************************************************************************)
(* The Modbus RTU master core (modbus_framer_core.c): caller threads put   *)
(* requests in a ring buffer guarded by queue.m / queue.cv; one I/O worker *)
(* takes them, retries and reconnects, and completes each under r->m /     *)
(* r->cv; a controller thread starts and shuts the context down.           *)
(*                                                                         *)
(* A critical section is one action.  Waiting on a condition variable is   *)
(* a state of its own, left only by a signal, a broadcast, a timeout or a  *)
(* spurious wake-up, after which the section is entered again.  Each       *)
(* request object stands for its caller: a thread that calls               *)
(* mb_submit_and_wait is Submit; Push; Wait; Cleanup of its request, a     *)
(* thread with several asynchronous requests interleaves theirs.           *)
(***************************************************************************)
EXTENDS Integers, Sequences

CONSTANTS Requests,      \* request objects, each with its caller
          NoReq,         \* the worker serves none
          Cap,           \* MB_QUEUE_CAP
          Kinds,         \* what a caller may ask for
          BusReplies,    \* what a libmodbus call may come back with
          ReconnectMax   \* line.reconnect_max after mb_apply_line_defaults

Errnos == {"EMBBADCRC", "EMBBADDATA", "EMBBADEXC", "EXCEPTION_RANGE",
           "ETIMEDOUT", "EINVAL", "EIO"}
Replies == {"full", "short"} \cup Errnos

KindRecords == [fn : {"read", "write"}, bcast : BOOLEAN, valid : BOOLEAN,
                retries : Nat]

ASSUME CapAssumption == Cap \in Nat \ {0}
ASSUME NoReqAssumption == NoReq \notin Requests
ASSUME KindsAssumption == Kinds \subseteq KindRecords /\ Kinds # {}
ASSUME RepliesAssumption == BusReplies \subseteq Replies /\ BusReplies # {}
ASSUME ReconnectAssumption == ReconnectMax \in Nat \ {0}

Statuses == {"OK", "PARAM", "IO", "TIMEOUT", "CRC", "PROTO", "EXCEPTION",
             "SHUTDOWN"}
\* The fields of a request object before mb_request_init gives them a meaning.
AnyKind == CHOOSE k \in Kinds : TRUE

\* Slip: a slave's exception reply is retried.
FinalButException == {"OK", "PARAM"}

\* Statuses after which the worker stops trying (the break at the loop's end).
Final == {"OK", "EXCEPTION", "PARAM"}

VARIABLES
    life,       \* the context: "down", "up", "joining" (in shutdown), "closed"
    running,    \* ctx->running
    slots, head, tail, count,   \* ctx->queue
    pc,         \* per request, where its caller is
    kind,       \* per request, the fields the caller filled in
    done, status,               \* r->done, r->status
    wpc,        \* where the I/O worker is
    cur,        \* the worker's r
    attempt, finalRc,           \* the worker's loop counter and final_rc
    tries,      \* the attempt counter of mb_reconnect
    reopenFor,  \* which mb_reconnect call the worker is in (line 678 or 691)
    mbOpen,     \* ctx->mb # NULL
    \* observation only: what reached do_libmodbus_request for this submission
    exchanges, last

queue == <<slots, head, tail, count>>
worker == <<wpc, cur, attempt, finalRc, tries, reopenFor, mbOpen>>
results == <<done, status>>
seen == <<exchanges, last>>
vars == <<life, running, queue, pc, kind, results, worker, seen>>

CallerStates == {"idle", "push", "pushWait", "held", "wait", "sleep",
                 "twait", "tsleep", "expired", "got"}
WorkerStates == {"none", "loop", "pop", "popWait", "attempt", "reopen",
                 "exec", "complete", "exit"}
-----------------------------------------------------------------------------
(* libmodbus as the worker uses it *)

MapError(e) ==
    CASE e = "EMBBADCRC" -> "CRC"
      [] e \in {"EMBBADDATA", "EMBBADEXC"} -> "PROTO"
      [] e = "EXCEPTION_RANGE" -> "EXCEPTION"
      [] e = "ETIMEDOUT" -> "TIMEOUT"
      [] e = "EINVAL" -> "PARAM"
      [] OTHER -> "IO"

\* A broadcast has no response: a timeout and a short count count as success.
RequestResult(k, reply) ==
    IF (k.bcast /\ k.fn = "read") \/ ~k.valid THEN "PARAM"
    ELSE IF reply = "full" THEN "OK"
    ELSE IF reply = "short" THEN IF k.bcast THEN "OK" ELSE "PROTO"
    ELSE IF k.bcast /\ reply = "ETIMEDOUT" THEN "OK"
    ELSE MapError(reply)
-----------------------------------------------------------------------------
(* Callers *)

\* Slips: the index never wraps; it wraps one slot early.
SuccNoWrap(i) == i + 1
SuccShort(i) == (i + 1) % (Cap - 1)

Succ(i) == (i + 1) % Cap

\* Slips: the broadcast reaches no caller; it does not reach the worker.
WokenNoCaller == pc
WorkerNotWoken == wpc

\* pthread_cond_broadcast(&q->cv): everyone waiting competes for q->m again.
WokenCallers == [r \in Requests |-> IF pc[r] = "pushWait" THEN "push" ELSE pc[r]]
WokenWorker == IF wpc = "popWait" THEN "pop" ELSE wpc

\* mb_submit_async up to queue_push: mb_request_init resets the object.
Submit(r, k) ==
    /\ life \in {"up", "joining"}
    /\ pc[r] = "idle"
    /\ pc' = [pc EXCEPT ![r] = "push"]
    /\ kind' = [kind EXCEPT ![r] = k]
    /\ done' = [done EXCEPT ![r] = FALSE]
    /\ status' = [status EXCEPT ![r] = "SHUTDOWN"]
    /\ exchanges' = [exchanges EXCEPT ![r] = 0]
    /\ last' = [last EXCEPT ![r] = "none"]
    /\ UNCHANGED <<life, running, queue, worker>>

PushAccept(r) ==
    /\ pc[r] = "push"
    /\ running
    /\ count < Cap
    /\ slots' = [slots EXCEPT ![tail] = r]
    /\ tail' = Succ(tail)
    /\ count' = count + 1
    /\ pc' = [WokenCallers EXCEPT ![r] = "held"]
    /\ wpc' = WokenWorker
    /\ UNCHANGED <<life, running, head, kind, results, cur, attempt, finalRc,
                   tries, reopenFor, mbOpen, seen>>

PushBlock(r) ==
    /\ pc[r] = "push"
    /\ running
    /\ count = Cap
    /\ pc' = [pc EXCEPT ![r] = "pushWait"]
    /\ UNCHANGED <<life, running, queue, kind, results, worker, seen>>

\* MB_ERR_SHUTDOWN: mb_submit_async cleans the request up itself.
PushReject(r) ==
    /\ pc[r] = "push"
    /\ ~running
    /\ pc' = [pc EXCEPT ![r] = "idle"]
    /\ kind' = [kind EXCEPT ![r] = AnyKind]
    /\ UNCHANGED <<life, running, queue, results, worker, seen>>

\* mb_request_wait: wait_ms < 0 waits for ever, otherwise until a deadline.
StartWait(r) ==
    /\ pc[r] = "held"
    /\ \E w \in {"wait", "twait"} : pc' = [pc EXCEPT ![r] = w]
    /\ UNCHANGED <<life, running, queue, kind, results, worker, seen>>

\* Holding r->m: return r->status if done, otherwise sleep on r->cv.
Wait(r) ==
    /\ pc[r] \in {"wait", "twait"}
    /\ pc' = [pc EXCEPT ![r] = IF done[r] THEN "got"
                               ELSE IF pc[r] = "wait" THEN "sleep" ELSE "tsleep"]
    /\ UNCHANGED <<life, running, queue, kind, results, worker, seen>>

Timeout(r) ==
    /\ pc[r] = "tsleep"
    /\ pc' = [pc EXCEPT ![r] = "expired"]
    /\ UNCHANGED <<life, running, queue, kind, results, worker, seen>>

\* Slip: a wait that times out also cleans the request up.
WaitExpiredCleansUp(r) ==
    /\ pc[r] = "expired"
    /\ pc' = [pc EXCEPT ![r] = IF done[r] THEN "got" ELSE "idle"]
    /\ UNCHANGED <<life, running, queue, kind, results, worker, seen>>

\* ETIMEDOUT came back with r->m held again: an answer that arrived in between
\* is returned, otherwise MB_ERR_PENDING and the caller still owns the request.
WaitExpired(r) ==
    /\ pc[r] = "expired"
    /\ pc' = [pc EXCEPT ![r] = IF done[r] THEN "got" ELSE "held"]
    /\ UNCHANGED <<life, running, queue, kind, results, worker, seen>>

\* mb_request_is_done returned true.
Poll(r) ==
    /\ pc[r] = "held"
    /\ done[r]
    /\ pc' = [pc EXCEPT ![r] = "got"]
    /\ UNCHANGED <<life, running, queue, kind, results, worker, seen>>

\* mb_request_cleanup ends the object's life; its fields mean nothing until
\* the next mb_request_init and are put back to their initial values.
Cleanup(r) ==
    /\ pc[r] = "got"
    /\ pc' = [pc EXCEPT ![r] = "idle"]
    /\ kind' = [kind EXCEPT ![r] = AnyKind]
    /\ done' = [done EXCEPT ![r] = FALSE]
    /\ status' = [status EXCEPT ![r] = "SHUTDOWN"]
    /\ exchanges' = [exchanges EXCEPT ![r] = 0]
    /\ last' = [last EXCEPT ![r] = "none"]
    /\ UNCHANGED <<life, running, queue, worker>>

\* POSIX allows pthread_cond_wait to return without a signal.
SpuriousWake(r) ==
    /\ \/ pc[r] = "pushWait" /\ pc' = [pc EXCEPT ![r] = "push"]
       \/ pc[r] = "sleep"    /\ pc' = [pc EXCEPT ![r] = "wait"]
       \/ pc[r] = "tsleep"   /\ pc' = [pc EXCEPT ![r] = "twait"]
    /\ UNCHANGED <<life, running, queue, kind, results, worker, seen>>

Push(r) == PushAccept(r) \/ PushBlock(r) \/ PushReject(r)

Caller(r) ==
    \/ \E k \in Kinds : Submit(r, k)
    \/ Push(r)
    \/ StartWait(r) \/ Wait(r) \/ Timeout(r) \/ WaitExpired(r)
    \/ Poll(r)
    \/ Cleanup(r)
    \/ SpuriousWake(r)
-----------------------------------------------------------------------------
(* The I/O worker: io_thread_main *)

\* The loop condition reads ctx->running without queue.m.
WorkerLoop ==
    /\ wpc = "loop"
    /\ wpc' = IF running THEN "pop" ELSE "exit"
    /\ UNCHANGED <<life, running, queue, pc, kind, results, cur, attempt,
                   finalRc, tries, reopenFor, mbOpen, seen>>

PopTake ==
    /\ wpc = "pop"
    /\ count > 0
    /\ cur' = slots[head]
    /\ head' = Succ(head)
    /\ count' = count - 1
    /\ pc' = WokenCallers
    /\ wpc' = "attempt"
    /\ attempt' = 0
    /\ finalRc' = "SHUTDOWN"
    /\ UNCHANGED <<life, running, slots, tail, kind, results, tries, reopenFor,
                   mbOpen, seen>>

\* Slip: an empty queue is waited on without looking at ctx->running.
PopEmptyAlwaysWaits ==
    /\ wpc = "pop"
    /\ count = 0
    /\ wpc' = "popWait"
    /\ UNCHANGED <<life, running, queue, pc, kind, results, cur, attempt,
                   finalRc, tries, reopenFor, mbOpen, seen>>

\* Nothing queued: sleep on queue.cv, or leave the thread when shutting down.
PopEmpty ==
    /\ wpc = "pop"
    /\ count = 0
    /\ wpc' = IF running THEN "popWait" ELSE "exit"
    /\ UNCHANGED <<life, running, queue, pc, kind, results, cur, attempt,
                   finalRc, tries, reopenFor, mbOpen, seen>>

PopSpuriousWake ==
    /\ wpc = "popWait"
    /\ wpc' = "pop"
    /\ UNCHANGED <<life, running, queue, pc, kind, results, cur, attempt,
                   finalRc, tries, reopenFor, mbOpen, seen>>

\* Slip: attempt < retries, one attempt short.
StartAttemptShort ==
    /\ wpc = "attempt"
    /\ wpc' = IF attempt >= kind[cur].retries THEN "complete"
              ELSE IF mbOpen THEN "exec" ELSE "reopen"
    /\ UNCHANGED <<life, running, queue, pc, kind, results, cur, attempt,
                   finalRc, tries, reopenFor, mbOpen, seen>>

\* The head of the retry loop.  Without a connection it reconnects first.
StartAttempt ==
    /\ wpc = "attempt"
    /\ wpc' = IF attempt > kind[cur].retries THEN "complete"
              ELSE IF mbOpen THEN "exec" ELSE "reopen"
    /\ UNCHANGED <<life, running, queue, pc, kind, results, cur, attempt,
                   finalRc, tries, reopenFor, mbOpen, seen>>

\* The retry loop's reaction to the result of an exchange.  After an I/O error
\* mb_reconnect closes the connection before it tries to open a new one.
Settle(rc) ==
    /\ exchanges' = [exchanges EXCEPT ![cur] = @ + 1]
    /\ last' = [last EXCEPT ![cur] = rc]
    /\ \/ /\ rc = "IO"
          /\ wpc' = "reopen"
          /\ mbOpen' = FALSE
          /\ reopenFor' = "after"
          /\ UNCHANGED <<attempt, finalRc>>
       \/ /\ rc \in Final
          /\ wpc' = "complete"
          /\ finalRc' = rc
          /\ UNCHANGED <<attempt, mbOpen, reopenFor>>
       \/ /\ rc \notin Final \cup {"IO"}
          /\ wpc' = "attempt"
          /\ attempt' = attempt + 1
          /\ finalRc' = rc
          /\ UNCHANGED <<mbOpen, reopenFor>>
    /\ UNCHANGED <<life, running, queue, pc, kind, results, cur, tries>>

\* do_libmodbus_request with a connection.
Exec ==
    /\ wpc = "exec"
    /\ \E reply \in BusReplies : Settle(RequestResult(kind[cur], reply))

\* One round of mb_reconnect's loop: mb_open_modbus succeeds or fails.
Reopen ==
    /\ wpc = "reopen"
    /\ tries < ReconnectMax
    /\ running
    /\ \/ /\ mbOpen' = TRUE
          /\ IF reopenFor = "before"
             THEN wpc' = "exec" /\ UNCHANGED <<attempt, finalRc>>
             ELSE wpc' = "attempt" /\ attempt' = attempt + 1 /\ finalRc' = "IO"
          /\ tries' = 0
          /\ reopenFor' = "before"
       \/ /\ tries' = tries + 1
          /\ UNCHANGED <<mbOpen, wpc, attempt, finalRc, reopenFor>>
    /\ UNCHANGED <<life, running, queue, pc, kind, results, cur, seen>>

\* mb_reconnect gives up, for lack of rounds or because of shutdown.  Before an
\* exchange this ends the request; after one only the attempt.
ReopenGiveUp ==
    /\ wpc = "reopen"
    /\ tries >= ReconnectMax \/ ~running
    /\ finalRc' = "IO"
    /\ IF reopenFor = "before"
       THEN wpc' = "complete" /\ UNCHANGED attempt
       ELSE wpc' = "attempt" /\ attempt' = attempt + 1
    /\ tries' = 0
    /\ reopenFor' = "before"
    /\ UNCHANGED <<life, running, queue, pc, kind, results, cur, mbOpen, seen>>

\* request_complete: the signal reaches the caller asleep on r->cv, if any.
Complete ==
    /\ wpc = "complete"
    /\ status' = [status EXCEPT ![cur] = finalRc]
    /\ done' = [done EXCEPT ![cur] = TRUE]
    /\ pc' = [pc EXCEPT ![cur] = CASE @ = "sleep" -> "wait"
                                   [] @ = "tsleep" -> "twait"
                                   [] OTHER -> @]
    /\ cur' = NoReq
    /\ wpc' = "loop"
    /\ attempt' = 0           \* locals of the loop body, gone with it
    /\ finalRc' = "SHUTDOWN"
    /\ UNCHANGED <<life, running, queue, kind, tries, reopenFor, mbOpen, seen>>

Worker ==
    \/ WorkerLoop \/ PopTake \/ PopEmpty
    \/ StartAttempt \/ Exec \/ Reopen \/ ReopenGiveUp \/ Complete
-----------------------------------------------------------------------------
(* The controller: mb_ctx_init and mb_ctx_shutdown *)

\* A failing mb_ctx_init (no port, no thread) releases everything it took.
CtxInit ==
    /\ life = "down"
    /\ life' = "up"
    /\ running' = TRUE
    /\ mbOpen' = TRUE
    /\ wpc' = "loop"
    /\ UNCHANGED <<queue, pc, kind, results, cur, attempt, finalRc, tries,
                   reopenFor, seen>>

ShutdownStart ==
    /\ life = "up"
    /\ life' = "joining"
    /\ running' = FALSE
    /\ pc' = WokenCallers
    /\ wpc' = WokenWorker
    /\ UNCHANGED <<queue, kind, results, cur, attempt, finalRc, tries,
                   reopenFor, mbOpen, seen>>

\* Slip: the port is closed without joining the worker.
ShutdownFinishNoJoin ==
    /\ life = "joining"
    /\ life' = "closed"
    /\ mbOpen' = FALSE
    /\ UNCHANGED <<running, queue, pc, kind, results, wpc, cur, attempt,
                   finalRc, tries, reopenFor, seen>>

\* pthread_join has returned: close the port, destroy the queue's mutex.
ShutdownFinish ==
    /\ life = "joining"
    /\ wpc = "exit"
    /\ life' = "closed"
    /\ mbOpen' = FALSE
    /\ UNCHANGED <<running, queue, pc, kind, results, wpc, cur, attempt,
                   finalRc, tries, reopenFor, seen>>

Controller == CtxInit \/ ShutdownStart \/ ShutdownFinish
-----------------------------------------------------------------------------
Init ==
    /\ life = "down" /\ running = FALSE
    /\ slots = [i \in 0 .. Cap - 1 |-> NoReq]
    /\ head = 0 /\ tail = 0 /\ count = 0
    /\ pc = [r \in Requests |-> "idle"]
    /\ kind = [r \in Requests |-> AnyKind]
    /\ done = [r \in Requests |-> FALSE]
    /\ status = [r \in Requests |-> "SHUTDOWN"]
    /\ wpc = "none" /\ cur = NoReq
    /\ attempt = 0 /\ finalRc = "SHUTDOWN"
    /\ tries = 0 /\ reopenFor = "before" /\ mbOpen = FALSE
    /\ exchanges = [r \in Requests |-> 0]
    /\ last = [r \in Requests |-> "none"]

Next ==
    \/ \E r \in Requests : Caller(r)
    \/ Worker \/ PopSpuriousWake
    \/ Controller

\* The threads of the process are scheduled: a thread that can take its next
\* step takes it.  Nobody is obliged to submit, to time out or to shut down.
Fairness ==
    /\ WF_vars(Worker)
    /\ WF_vars(ShutdownFinish)
    /\ \A r \in Requests : WF_vars(Push(r)) /\ WF_vars(Wait(r))

Spec == Init /\ [][Next]_vars
FairSpec == Spec /\ Fairness
-----------------------------------------------------------------------------
(* Properties *)

\* Every variable has the type of the C field or local it stands for, and the
\* ring's indices and count stay inside the array q[MB_QUEUE_CAP].
TypeOK ==
    /\ life \in {"down", "up", "joining", "closed"}
    /\ running \in BOOLEAN
    /\ slots \in [0 .. Cap - 1 -> Requests \cup {NoReq}]
    /\ head \in 0 .. Cap - 1 /\ tail \in 0 .. Cap - 1 /\ count \in 0 .. Cap
    /\ pc \in [Requests -> CallerStates]
    /\ kind \in [Requests -> Kinds]
    /\ done \in [Requests -> BOOLEAN]
    /\ status \in [Requests -> Statuses]
    /\ wpc \in WorkerStates
    /\ cur \in Requests \cup {NoReq}
    /\ attempt \in Nat
    /\ finalRc \in Statuses
    /\ tries \in 0 .. ReconnectMax
    /\ reopenFor \in {"before", "after"}
    /\ mbOpen \in BOOLEAN
    /\ exchanges \in [Requests -> Nat]
    /\ last \in [Requests -> Statuses \cup {"none"}]

\* The count slots from head on, going round the end of the array, and the
\* slot after them, where the next request goes.
Occupied(h, c) == {i \in 0 .. Cap - 1 : IF i >= h THEN i - h < c
                                        ELSE i + Cap - h < c}
SlotAfter(h, c) == IF h + c < Cap THEN h + c ELSE h + c - Cap
InUse == Occupied(head, count)

\* The request objects the service must still complete: accepted from their
\* caller, who may be waiting for them or not, and not done.
Outstanding == {r \in Requests : /\ pc[r] \notin {"idle", "push", "pushWait", "got"}
                                 /\ ~done[r]}

\* tail is where head and count say, no request is in two slots or both queued
\* and with the worker, and the pointers the service holds are exactly those of
\* the outstanding requests: none is lost, none dangles.
Custody ==
    /\ tail = SlotAfter(head, count)
    /\ \A i, j \in InUse : slots[i] = slots[j] => i = j
    /\ \A i \in InUse : slots[i] \in Outstanding /\ slots[i] # cur
    /\ cur # NoReq => cur \in Outstanding
    /\ \A r \in Outstanding : r = cur \/ \E i \in InUse : slots[i] = r

\* A completed request reports what its last exchange on the bus came to: the
\* answer itself, or a failure only after every attempt of its budget was used;
\* without an exchange, that the bus could not be opened.
StatusIsEarned ==
    \A r \in Requests : done[r] =>
        /\ status[r] = IF exchanges[r] = 0 THEN "IO" ELSE last[r]
        /\ exchanges[r] <= kind[r].retries + 1
        /\ status[r] \in {"TIMEOUT", "CRC", "PROTO"} => exchanges[r] = kind[r].retries + 1

\* A request that was answered (or refused as malformed) is never put on the
\* bus again: a successful write is not repeated by the retry loop.
NoExchangeAfterAnswer ==
    [][\A r \in Requests :
         exchanges'[r] > exchanges[r] => last[r] \notin {"OK", "EXCEPTION", "PARAM"}]_vars

\* Once mb_ctx_shutdown has destroyed the queue and closed the port, callers
\* still inside the library change neither, and complete no request.
QuietAfterShutdown ==
    [][life = "closed" => UNCHANGED <<queue, mbOpen, wpc, cur>>
                          /\ \A r \in Requests : done'[r] => done[r]]_vars

\* The ring buffer, the mutexes and the worker implement the FIFO service.
Pending == [i \in 1 .. count |-> slots[SlotAfter(head, i - 1)]]
Verdict == [r \in Requests |-> IF done[r] THEN status[r] ELSE "none"]
Service == INSTANCE RequestService WITH
    open <- running,
    pending <- Pending,
    active <- cur,
    verdict <- Verdict,
    Verdicts <- Statuses,
    NoVerdict <- "none"
ImplementsService == Service!SSpec

\* While the context is up, a caller asleep in mb_request_wait is given its
\* result: no wake-up is lost between the queue, the worker and r->cv.
WaiterIsAnswered ==
    \A r \in Requests : pc[r] \in {"wait", "sleep"} ~> pc[r] = "got" \/ ~running

\* mb_ctx_shutdown returns: the worker leaves its wait on an empty queue, its
\* retry loop and mb_reconnect, however the bus behaves.
ShutdownReturns == life = "joining" ~> life = "closed"

\* A caller blocked on a full queue leaves mb_submit_async after shutdown.
BlockedCallerReleased ==
    \A r \in Requests : pc[r] \in {"push", "pushWait"} /\ ~running ~> pc[r] = "idle"

\* Comment of mb_ctx_shutdown: every thread that may be blocked is woken.  A
\* caller asleep on a request left in the queue is not.
ShutdownWakesWaiters ==
    \A r \in Requests : pc[r] = "sleep" /\ ~running ~> pc[r] # "sleep"
=============================================================================
