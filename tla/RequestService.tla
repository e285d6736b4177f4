--------------------------- MODULE RequestService ---------------------------
(***************************************************************************)
(* What the Modbus master core promises its callers: one FIFO service that *)
(* takes the accepted requests one at a time, gives each exactly one       *)
(* verdict, and once closed accepts nothing more.  ModbusCore implements   *)
(* it with a ring buffer, a mutex, condition variables and a worker.       *)
(***************************************************************************)
EXTENDS Naturals, Sequences

CONSTANTS Requests,   \* the request objects (mb_request_t) of the callers
          NoReq,      \* no request in service
          Verdicts,   \* the statuses a request can complete with
          NoVerdict   \* not completed

VARIABLES open,       \* the service accepts requests
          pending,    \* the accepted requests not yet in service, oldest first
          active,     \* the request in service
          verdict     \* per request, its verdict

svars == <<open, pending, active, verdict>>

InService(r) == active = r \/ \E i \in 1 .. Len(pending) : pending[i] = r

SInit ==
    /\ open = FALSE
    /\ pending = <<>>
    /\ active = NoReq
    /\ verdict = [r \in Requests |-> NoVerdict]

Open ==
    /\ open' = TRUE
    /\ UNCHANGED <<pending, active, verdict>>

Accept(r) ==
    /\ open
    /\ ~InService(r)
    /\ verdict[r] = NoVerdict
    /\ pending' = Append(pending, r)
    /\ UNCHANGED <<open, active, verdict>>

Take ==
    /\ active = NoReq
    /\ pending # <<>>
    /\ active' = Head(pending)
    /\ pending' = Tail(pending)
    /\ UNCHANGED <<open, verdict>>

Finish(v) ==
    /\ active # NoReq
    /\ verdict' = [verdict EXCEPT ![active] = v]
    /\ active' = NoReq
    /\ UNCHANGED <<open, pending>>

\* The caller has read the verdict and gives the request object up.
Release(r) ==
    /\ verdict[r] # NoVerdict
    /\ verdict' = [verdict EXCEPT ![r] = NoVerdict]
    /\ UNCHANGED <<open, pending, active>>

Close ==
    /\ open
    /\ open' = FALSE
    /\ UNCHANGED <<pending, active, verdict>>

SNext ==
    \/ Open
    \/ \E r \in Requests : Accept(r) \/ Release(r)
    \/ Take
    \/ \E v \in Verdicts : Finish(v)
    \/ Close

SSpec == SInit /\ [][SNext]_svars
=============================================================================
