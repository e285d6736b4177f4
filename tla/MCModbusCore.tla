---------------------------- MODULE MCModbusCore ----------------------------
(* Finite instances of ModbusCore for TLC. *)
EXTENDS ModbusCore, TLC

\* A unicast read with one retry, and broadcasts, which have no response.
Read1 == [fn |-> "read", bcast |-> FALSE, valid |-> TRUE, retries |-> 1]
BroadcastWrite == [fn |-> "write", bcast |-> TRUE, valid |-> TRUE, retries |-> 0]
BroadcastRead == [fn |-> "read", bcast |-> TRUE, valid |-> TRUE, retries |-> 0]

OneShot == {[Read1 EXCEPT !.retries = 0]}
OneKind == {Read1}
ThreeKinds == {Read1, BroadcastWrite, BroadcastRead}

\* Two fates keep the state space of three callers small.
TwoFates == {"full", "EIO"}
\* One reply of each fate in the retry loop: answered, retried, reconnected.
ThreeFates == {"full", "ETIMEDOUT", "EIO"}
FourFates == ThreeFates \cup {"EXCEPTION_RANGE"}

RequestSymmetry == Permutations(Requests)
=============================================================================
