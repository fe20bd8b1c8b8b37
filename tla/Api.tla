-------------------------------- MODULE Api --------------------------------
(***************************************************************************)
(* The API server (src/api/api.go) between its clients and Dragonboat, and *)
(* the interactive client (src/client.go).  Crud answers a message with a  *)
(* code, or fails, upon which every client program of the repository ends. *)
(*                                                                         *)
(* Dragonboat is external.  It commits membership changes one at a time,   *)
(* some time after they were requested and also when the caller has given  *)
(* up, or loses them.  It refuses to add a replica whose id was removed    *)
(* before, or whose id or address is a member's, and to remove the only    *)
(* member; to remove an id that is nobody's is to remember it as removed.  *)
(* It compares the ConfigChangeID only when the replica is configured with *)
(* OrderedConfigChange, which server.go does not set.                      *)
(***************************************************************************)
EXTENDS Parse, FiniteSets

CONSTANTS
  Clients,       \* client programs
  Interactive,   \* those among them that are client.go; others send anything
  Inputs,        \* the messages they may send
  InitialNodes,  \* the membership at the start: replica id -> address
  ValueOf,       \* the number that a token of Uint64 stands for
  MaxCalls       \* bound: calls of Crud

ASSUME ApiAssumption ==
  /\ Interactive \subseteq Clients
  /\ DOMAIN ValueOf = Uint64 /\ \A t \in Uint64 : ValueOf[t] \in Nat
  /\ DOMAIN InitialNodes \subseteq Nat \ {0} /\ DOMAIN InitialNodes # {}
  /\ IsFiniteSet(DOMAIN InitialNodes)
  /\ \A raw \in Inputs : raw \in Seq({raw[k] : k \in DOMAIN raw})
  /\ MaxCalls \in Nat

VARIABLES
  client,   \* "prompt", "call", "exit" or "fatal"
  handler,  \* the call of Crud that serves the client
  change,   \* the membership change that a client's call requested, not yet committed
  members,  \* Membership.Nodes (external)
  removed,  \* Membership.Removed (external)
  joined,   \* the id and address of every member there ever was (history)
  calls     \* number of calls

apiVars == <<client, handler, change, members, removed, joined, calls>>

NoHandler == [step |-> "none", raw |-> <<>>, cmd |-> BadRequest, view |-> InitialNodes,
              id |-> 0, code |-> 0]

NoChange == [kind |-> "none", id |-> 0, address |-> Empty]

Addresses(nodes) == {nodes[id] : id \in DOMAIN nodes}

ApiInit ==
  /\ client = [c \in Clients |-> "prompt"]
  /\ handler = [c \in Clients |-> NoHandler]
  /\ change = [c \in Clients |-> NoChange]
  /\ members = InitialNodes
  /\ removed = {}
  /\ joined = {<<id, InitialNodes[id]>> : id \in DOMAIN InitialNodes}
  /\ calls = 0

-----------------------------------------------------------------------------
(* The client. *)

(* The prompt lets only valid messages through. *)
Send(c, raw) ==
  /\ client[c] = "prompt" /\ calls < MaxCalls
  /\ raw # <<Exit>>
  /\ c \in Interactive => Validate(raw)
  /\ client' = [client EXCEPT ![c] = "call"]
  /\ handler' = [handler EXCEPT ![c] = [NoHandler EXCEPT !.step = "crud", !.raw = raw]]
  /\ calls' = calls + 1
  /\ UNCHANGED <<change, members, removed, joined>>

Quit(c) ==
  /\ client[c] = "prompt"
  /\ client' = [client EXCEPT ![c] = "exit"]
  /\ UNCHANGED <<handler, change, members, removed, joined, calls>>

(* callCrud prints a response and ends the program on an error. *)
Receive(c) ==
  /\ handler[c].step \in {"answer", "error"}
  /\ client' = [client EXCEPT ![c] = IF handler[c].step = "answer" THEN "prompt" ELSE "fatal"]
  /\ handler' = [handler EXCEPT ![c] = NoHandler]
  /\ UNCHANGED <<change, members, removed, joined, calls>>

(* The context of the call ends after ten seconds, for the client and for    *)
(* whatever call of Dragonboat its handler is waiting in.                    *)
NoTimeout(c) == FALSE  \* mutant: the call has no deadline

WithTimeout(c) == client[c] = "call"

Deadline(c) ==
  /\ WithTimeout(c)
  /\ client' = [client EXCEPT ![c] = "fatal"]
  /\ handler' = [handler EXCEPT ![c] = NoHandler]
  /\ UNCHANGED <<change, members, removed, joined, calls>>

-----------------------------------------------------------------------------
(* Crud. *)

Goto(c, step) == handler' = [handler EXCEPT ![c].step = step]

Respond(c, code) == handler' = [handler EXCEPT ![c].step = "answer", ![c].code = code]

(* Crud parses the message and goes by the type of the command.  The         *)
(* message, which the rest of Crud only passes on, is forgotten.             *)
StepOf(cmd) ==
  CASE cmd.type \in {"PUT", "POST", "DEL", "CREATE_PART", "DELETE_PART"} -> "propose"
    [] cmd.type \in {"GET", "SEARCH"}            -> "read"
    [] cmd.type \in {"JOIN_NODE", "REMOVE_NODE"} -> "membership"

Crud(c) ==
  /\ handler[c].step = "crud"
  /\ \E cmd \in {ParseCommand(handler[c].raw)} :
       IF cmd = BadRequest THEN Respond(c, 400)
       ELSE handler' = [handler EXCEPT ![c].step = StepOf(cmd), ![c].cmd = cmd, ![c].raw = <<>>]
  /\ UNCHANGED <<client, change, members, removed, joined, calls>>

(* SyncPropose returns the code that Update gave the entry, SyncRead the     *)
(* response of Lookup.  Each call of Dragonboat may fail.                    *)
Propose(c) ==
  /\ handler[c].step = "propose"
  /\ \E code \in {0, 200, 404, 409} : Respond(c, code)
  /\ UNCHANGED <<client, change, members, removed, joined, calls>>

Read(c) ==
  /\ handler[c].step = "read"
  /\ \E code \in {200, 404} : Respond(c, code)
  /\ UNCHANGED <<client, change, members, removed, joined, calls>>

Fail(c) ==
  /\ handler[c].step \in {"propose", "read", "membership", "request", "wait"}
  /\ Goto(c, "error")
  /\ UNCHANGED <<client, change, members, removed, joined, calls>>

(* The id for a new replica is one more than the highest in the membership. *)
CountPlusOne(nodes) == 1 + Cardinality(DOMAIN nodes)  \* mutant: the number of replicas

MaxIdPlusOne(nodes) == 1 + CHOOSE m \in DOMAIN nodes : \A id \in DOMAIN nodes : id <= m

(* SyncGetShardMembership; REMOVE_NODE parses its id only then.  An error of *)
(* ParseUint is not a bad request but fails the call.                        *)
GetMembership(c) ==
  /\ handler[c].step = "membership"
  /\ \E cmd \in {handler[c].cmd} :
       IF cmd.type = "REMOVE_NODE" /\ cmd.id \notin Uint64 THEN Goto(c, "error")
       ELSE handler' = [handler EXCEPT
              ![c].step = "request", ![c].view = members,
              ![c].id = IF cmd.type = "JOIN_NODE" THEN MaxIdPlusOne(members) ELSE ValueOf[cmd.id]]
  /\ UNCHANGED <<client, change, members, removed, joined, calls>>

(* SyncRequestAddReplica and SyncRequestDeleteReplica. *)
RequestChange(c) ==
  /\ handler[c].step = "request"
  /\ Goto(c, "wait")
  /\ change' = [change EXCEPT ![c] =
       [kind |-> handler[c].cmd.type, id |-> handler[c].id,
        address |-> IF handler[c].cmd.type = "JOIN_NODE" THEN handler[c].cmd.id ELSE Empty]]
  /\ UNCHANGED <<client, members, removed, joined, calls>>

-----------------------------------------------------------------------------
(* Dragonboat's membership (external). *)

Accepts(ch) ==
  IF ch.kind = "JOIN_NODE"
  THEN ch.id \notin DOMAIN members \cup removed /\ ch.address \notin Addresses(members)
  ELSE DOMAIN members # {ch.id}

(* What the requesting call makes of the outcome, if it still waits. *)
ErrorIgnored(c, accepted) ==  \* mutant: joinErr is not looked at
  IF handler[c].step = "wait" THEN Respond(c, 200) ELSE UNCHANGED handler

Outcome(c, accepted) ==
  IF handler[c].step # "wait" THEN UNCHANGED handler
  ELSE IF accepted THEN Respond(c, 200) ELSE Goto(c, "refused")

CommitChange(c) ==
  /\ change[c].kind # "none"
  /\ change' = [change EXCEPT ![c] = NoChange]
  /\ \E ch \in {change[c]} :
       IF ~Accepts(ch) THEN UNCHANGED <<members, removed, joined>>
       ELSE IF ch.kind = "JOIN_NODE"
       THEN /\ members' = [id \in DOMAIN members \cup {ch.id} |->
                             IF id = ch.id THEN ch.address ELSE members[id]]
            /\ joined' = joined \cup {<<ch.id, ch.address>>}
            /\ UNCHANGED removed
       ELSE /\ members' = [id \in DOMAIN members \ {ch.id} |-> members[id]]
            /\ removed' = removed \cup {ch.id}
            /\ UNCHANGED joined
  /\ Outcome(c, Accepts(change[c]))
  /\ UNCHANGED <<client, calls>>

(* A refused change is an error of the call. *)
Refused(c) ==
  /\ handler[c].step = "refused"
  /\ Goto(c, "error")
  /\ UNCHANGED <<client, change, members, removed, joined, calls>>

(* A change may be lost with the leader; its caller waits on. *)
LoseChange(c) ==
  /\ change[c].kind # "none"
  /\ change' = [change EXCEPT ![c] = NoChange]
  /\ UNCHANGED <<client, handler, members, removed, joined, calls>>

-----------------------------------------------------------------------------
HandlerStep(c) ==
  \/ Crud(c)
  \/ Propose(c)
  \/ Read(c)
  \/ GetMembership(c)
  \/ RequestChange(c)
  \/ Refused(c)

ApiNext ==
  \E c \in Clients :
    \/ \E raw \in Inputs : Send(c, raw)
    \/ Quit(c)
    \/ Receive(c)
    \/ Deadline(c)
    \/ HandlerStep(c)
    \/ Fail(c)
    \/ CommitChange(c)
    \/ LoseChange(c)

ApiSpec == ApiInit /\ [][ApiNext]_apiVars

(* Programs and handlers run on, and time passes; no change need be          *)
(* committed.                                                                *)
ApiFairness ==
  \A c \in Clients :
    WF_apiVars(HandlerStep(c)) /\ WF_apiVars(Receive(c)) /\ WF_apiVars(Deadline(c))

ApiFairSpec == ApiSpec /\ ApiFairness

-----------------------------------------------------------------------------
(* Whoever passed the client's validation is answered "bad request" only for *)
(* what patterns cannot see: a number out of range, broken JSON, or several  *)
(* documents between the outer braces.  Client and server choose the format  *)
(* in different ways, the one by the first token, the other by the first     *)
(* prefix in a list in which one is the start of another.                    *)
ValidatedIsParsed ==
  \A c \in Clients :
    handler[c].step = "answer" /\ handler[c].code = 400 /\ Validate(handler[c].raw) =>
      \E k \in DOMAIN handler[c].raw :
        \/ handler[c].raw[k] \in (Numerals \ Int64) \cup (Braced \ Objects)
        \/ handler[c].raw[k] \in Braced /\ k < Len(handler[c].raw)

(* A JOIN_NODE that is decided on the membership it had read is refused only *)
(* if its address is a member's or its id, the highest plus one, was removed *)
(* before: removals of other members, concurrent changes and calls that were *)
(* given up do not stand in its way.                                         *)
JoinRefusedForCause ==
  [][\A c \in Clients :
       /\ handler[c].cmd.type = "JOIN_NODE" /\ handler[c].view = members
       /\ handler[c].step # "refused" /\ handler'[c].step = "refused"
       => handler[c].id \in removed \/ handler[c].cmd.id \in Addresses(members)]_apiVars

(* Of calls that race for an id, and of calls repeated after a timeout, only *)
(* those are answered 200 whose own change was made: a new node is a member  *)
(* under its own address, a removed one is removed for good.                 *)
AnsweredChangesTookEffect ==
  \A c \in Clients :
    handler[c].step = "answer" /\ handler[c].code = 200 =>
      /\ handler[c].cmd.type = "JOIN_NODE" => <<handler[c].id, handler[c].cmd.id>> \in joined
      /\ handler[c].cmd.type = "REMOVE_NODE" =>
           handler[c].id \in removed /\ handler[c].id \notin DOMAIN members

(* Every call of a client comes to an end, whatever Dragonboat loses. *)
EveryCallEnds == \A c \in Clients : (client[c] = "call") ~> (client[c] # "call")
=============================================================================
