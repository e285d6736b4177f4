--------------------------- MODULE MqttLink_proofs ---------------------------
(***************************************************************************)
(* Proofs about MqttLink, for any set of publishing threads, any number of *)
(* messages a round and any backoff limits.                                *)
(***************************************************************************)
EXTENDS MqttLink, TLAPS

\* What FlagFollowsSession needs to be inductive: outside of the connection
\* window a cleared flag means that the session is down and its loss delivered,
\* and main connects only with the flag cleared.
ClearedFlagIsRight ==
    /\ ~connected /\ mpc # "subscribe" => session = "down" /\ ~lossPending
    /\ mpc \in {"connect", "connecting", "subscribe"} => ~connected

IInv == TypeOK /\ ClearedFlagIsRight /\ FlagFollowsSession
-----------------------------------------------------------------------------
\* The inductive invariant holds when main enters its loop.
LEMMA InitIInv == Init => IInv
<1> SUFFICES ASSUME Init
             PROVE  IInv
  OBVIOUS
<1>1. backoff \in BackoffMin .. 2 * BackoffMax
  BY BackoffAssumption DEF Init
<1>2. left \in [Publishers -> 0 .. RoundMax]
  BY RoundAssumption DEF Init
<1>3. ppc \in [Threads -> PublishStates]
  BY DEF Init, PublishStates
<1> QED
  BY <1>1, <1>2, <1>3
  DEF Init, IInv, TypeOK, ClearedFlagIsRight, FlagFollowsSession, MainStates

\* Every step keeps the types.
LEMMA StepType ==
    ASSUME TypeOK, Next
    PROVE  TypeOK'
<1> USE DEF TypeOK
<1>1. ASSUME NEW t \in Threads, Publish(t)
      PROVE  TypeOK'
  BY <1>1 DEF Publish, PublishCheck, PublishSend, PublishAwait, PublishDone,
     PublishStates, mainVars, netVars
<1>2. ASSUME NEW p \in Publishers, Publisher(p)
      PROVE  TypeOK'
  BY <1>2, RoundAssumption DEF Publisher, StartRound, NextMessage, Leave,
     PublishStates, mainVars, netVars, Threads
<1>3. CASE Library
  BY <1>3 DEF Library, LostCallback, MessageArrived, Loss, PublishStates,
     mainVars, netVars, Threads
<1>4. CASE Signal
  BY <1>4 DEF Signal, mainVars, netVars
<1>5. CASE Backoff
  BY <1>5, BackoffAssumption DEF Backoff, MainStates, netVars
<1>6. CASE Announced
  BY <1>6, BackoffAssumption DEF Announced, MainStates, netVars
<1>7. CASE Poll \/ ConnectStart \/ ConnectOk \/ ConnectFail \/ Wake \/ Join
  BY <1>7 DEF Poll, ConnectStart, ConnectOk, ConnectFail, Wake, Join, MainStates,
     netVars
<1>8. CASE Subscribe \/ Final
  BY <1>8 DEF Subscribe, Final, MainStates, PublishStates, netVars, Threads
<1> QED
  BY <1>1, <1>2, <1>3, <1>4, <1>5, <1>6, <1>7, <1>8 DEF Next, MainStep

\* Every step keeps the flag right: set by main alone, cleared by the callback alone.
LEMMA StepFlag ==
    ASSUME TypeOK, ClearedFlagIsRight, FlagFollowsSession, Next
    PROVE  ClearedFlagIsRight' /\ FlagFollowsSession'
<1> USE DEF ClearedFlagIsRight, FlagFollowsSession
<1>1. ASSUME NEW t \in Threads, Publish(t)
      PROVE  ClearedFlagIsRight' /\ FlagFollowsSession'
  BY <1>1 DEF Publish, PublishCheck, PublishSend, PublishAwait, mainVars, netVars
<1>2. ASSUME NEW p \in Publishers, Publisher(p)
      PROVE  ClearedFlagIsRight' /\ FlagFollowsSession'
  BY <1>2 DEF Publisher, StartRound, NextMessage, Leave, mainVars, netVars
<1>3. CASE Library
  BY <1>3 DEF Library, LostCallback, MessageArrived, Loss, mainVars, netVars, TypeOK
<1>4. CASE Signal
  BY <1>4 DEF Signal, mainVars, netVars
<1>5. CASE MainStep
  BY <1>5 DEF MainStep, Poll, ConnectStart, ConnectOk, ConnectFail, Backoff,
     Subscribe, Announced, Wake, Join, Final, netVars, TypeOK
<1> QED
  BY <1>1, <1>2, <1>3, <1>4, <1>5 DEF Next

\* Every step preserves the inductive invariant.
LEMMA Inductive == IInv /\ [Next]_vars => IInv'
<1> SUFFICES ASSUME IInv, [Next]_vars
             PROVE  IInv'
  OBVIOUS
<1>1. CASE Next
  BY <1>1, StepType, StepFlag DEF IInv
<1>2. CASE UNCHANGED vars
  BY <1>2 DEF IInv, TypeOK, ClearedFlagIsRight, FlagFollowsSession, vars
<1> QED
  BY <1>1, <1>2

\* The inductive invariant is an invariant.
LEMMA Invariance == Spec => []IInv
  BY InitIInv, Inductive, PTL DEF Spec

\* The types of all variables, and that backoff_ms never exceeds twice its limit
\* (main, the reconnect loop).
THEOREM TypeCorrect == Spec => []TypeOK
<1>1. IInv => TypeOK
  BY DEF IInv
<1> QED
  BY <1>1, Invariance, PTL

\* With the session up, mqtt_publish_json refuses a message only between
\* MQTTClient_connect and the line of mqtt_connect_and_subscribe that sets the
\* flag, and no loss is still to be delivered.
THEOREM FlagFollowsSessionHolds == Spec => []FlagFollowsSession
<1>1. IInv => FlagFollowsSession
  BY DEF IInv
<1> QED
  BY <1>1, Invariance, PTL

\* No step but the one that sets the flag turns a lost session into one that
\* nobody will notice.
THEOREM LossForgottenHolds == Spec => LossForgottenOnlyAtSubscribe
<1>1. [Next]_vars =>
          [~Forgotten /\ Forgotten' => mpc = "subscribe" /\ mpc' = "announce"]_vars
  <2> SUFFICES ASSUME [Next]_vars, ~Forgotten, Forgotten'
               PROVE  mpc = "subscribe" /\ mpc' = "announce"
    OBVIOUS
  <2> USE DEF Forgotten
  <2>1. ASSUME NEW t \in Threads, Publish(t)
        PROVE  FALSE
    BY <2>1 DEF Publish, PublishCheck, PublishSend, PublishAwait, netVars
  <2>2. ASSUME NEW p \in Publishers, Publisher(p)
        PROVE  FALSE
    BY <2>2 DEF Publisher, StartRound, NextMessage, Leave, netVars
  <2>3. CASE Library
    BY <2>3 DEF Library, LostCallback, MessageArrived, Loss, netVars
  <2>4. CASE Signal
    BY <2>4 DEF Signal, netVars
  <2>5. CASE MainStep
    BY <2>5 DEF MainStep, Poll, ConnectStart, ConnectOk, ConnectFail, Backoff,
       Subscribe, Announced, Wake, Join, Final, netVars
  <2>6. CASE UNCHANGED vars
    BY <2>6 DEF vars
  <2> QED
    BY <2>1, <2>2, <2>3, <2>4, <2>5, <2>6 DEF Next
<1> QED
  BY <1>1, PTL DEF Spec, LossForgottenOnlyAtSubscribe
-----------------------------------------------------------------------------
(* Who holds the lock *)

\* app.mqtt_lock is held across steps by main alone, while it connects and in
\* its last section.  There every publisher has been joined and main waits for
\* a lock that is its own: no publisher ever waits for that one.  Outside of
\* its announcement and that section main publishes nothing.
LockIsMains ==
    /\ lock = "main" <=> mpc \in {"connecting", "closing"}
    /\ mpc \in {"join", "final", "closing", "done"} => ~running
    /\ mpc \in {"final", "closing", "done"} => \A p \in Publishers : ppc[p] = "exit"
    /\ ppc["main"] # "out" => mpc \in {"announce", "closing"}
    /\ mpc = "closing" => ppc["main"] = "check"

\* Every step keeps the lock with main and the publishers joined.
LEMMA StepLock ==
    ASSUME TypeOK, LockIsMains, Next
    PROVE  LockIsMains'
<1> USE DEF TypeOK, LockIsMains
<1>1. ASSUME NEW t \in Threads, Publish(t)
      PROVE  LockIsMains'
  BY <1>1, PublishersAssumption DEF Publish, PublishCheck, PublishSend, PublishAwait,
     PublishDone, mainVars, netVars, Threads
<1>2. ASSUME NEW p \in Publishers, Publisher(p)
      PROVE  LockIsMains'
  BY <1>2, PublishersAssumption DEF Publisher, StartRound, NextMessage, Leave, mainVars,
     netVars, Threads
<1>3. CASE Library
  BY <1>3, PublishersAssumption DEF Library, LostCallback, MessageArrived, Loss,
     mainVars, netVars, Threads
<1>4. CASE Signal
  BY <1>4 DEF Signal, mainVars, netVars
<1>5. CASE Poll \/ ConnectStart \/ ConnectOk \/ ConnectFail \/ Backoff
  BY <1>5, PublishersAssumption DEF Poll, ConnectStart, ConnectOk, ConnectFail, Backoff,
     netVars, Threads
<1>6. CASE Subscribe \/ Announced \/ Wake
  BY <1>6, PublishersAssumption DEF Subscribe, Announced, Wake, netVars, Threads
<1>7. CASE Join \/ Final
  BY <1>7, PublishersAssumption DEF Join, Final, netVars, Threads
<1> QED
  BY <1>1, <1>2, <1>3, <1>4, <1>5, <1>6, <1>7 DEF Next, MainStep

\* A publisher that finds the lock taken finds it taken by a connection attempt,
\* which ends: mqtt_publish_json is never blocked by the last section of main.
THEOREM LockIsMainsHolds == Spec => []LockIsMains
<1>1. Init => LockIsMains
  BY PublishersAssumption DEF Init, LockIsMains, Threads
<1>2. IInv /\ LockIsMains /\ [Next]_vars => LockIsMains'
  <2> SUFFICES ASSUME IInv, LockIsMains, [Next]_vars
               PROVE  LockIsMains'
    OBVIOUS
  <2>1. CASE Next
    BY <2>1, StepLock DEF IInv
  <2>2. CASE UNCHANGED vars
    BY <2>2 DEF LockIsMains, vars
  <2> QED
    BY <2>1, <2>2
<1> QED
  BY <1>1, <1>2, Invariance, PTL DEF Spec
=============================================================================
