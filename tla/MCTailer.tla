------------------------------ MODULE MCTailer ------------------------------
(* Instances of Tailer for TLC. *)
EXTENDS Tailer

MCCtrlRecords == {2}
=============================================================================
