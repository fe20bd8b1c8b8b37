------------------------------ MODULE MCLookup ------------------------------
(***************************************************************************)
(* Instances of Lookup for TLC.                                            *)
(***************************************************************************)
EXTENDS Lookup, MCByStateMachine

\* A document that is stored, and one in a part without a shard.
ReadKeys == {<<A, X>>, <<U, X>>}

ReadCommands ==
  {CREATE_PART(A), DELETE_PART(A), POST(A, X, Doc(1)), PUT(A, X, 1, Doc(2)), DEL(A, X, 1)}
=============================================================================
