----------------------------- MODULE MCSnapshot -----------------------------
(***************************************************************************)
(* Instances of Snapshot for TLC.                                          *)
(***************************************************************************)
EXTENDS Snapshot, MCByStateMachine

\* Two shards, and writes of which one depends on the other.
SnapCommands == {CREATE_PART(A), DELETE_PART(A), POST(A, X, Doc(1)), CREATE_PART(B)}
=============================================================================
