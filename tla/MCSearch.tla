------------------------------ MODULE MCSearch ------------------------------
(***************************************************************************)
(* An instance of Search for TLC.                                          *)
(***************************************************************************)
EXTENDS Search, MCByStateMachine
=============================================================================
