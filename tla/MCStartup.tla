----------------------------- MODULE MCStartup -----------------------------
(***************************************************************************)
(* Instances of Startup for TLC.                                           *)
(***************************************************************************)
EXTENDS Startup

\* Two initial nodes, of which one is started twice, one that joins, one without an
\* id and one without an address.
CommandLines ==
  [n1    |-> [replicaid |-> 1,     addr |-> Unset, gaddr |-> Unset],
   n2    |-> [replicaid |-> 2,     addr |-> "h9",  gaddr |-> "h2:1"],
   twice |-> [replicaid |-> 2,     addr |-> Unset, gaddr |-> "h2:2"],
   n3    |-> [replicaid |-> 3,     addr |-> "h3",  gaddr |-> Unset],
   noId  |-> [replicaid |-> 0,     addr |-> "h4",  gaddr |-> Unset],
   noAdr |-> [replicaid |-> 4,     addr |-> Unset, gaddr |-> Unset]]

Commands == DOMAIN CommandLines

ConfigFile == [replica_id |-> 1, address |-> Unset, grpc_address |-> Unset,
               initial_nodes |-> <<"h1", "h2">>]
=============================================================================
