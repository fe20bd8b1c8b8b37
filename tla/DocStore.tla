------------------------------ MODULE DocStore ------------------------------
(***************************************************************************)
(* What the state machine promises: a store of parts and documents that    *)
(* performs legal commands one at a time, shard by shard makes durable     *)
(* exactly what it has performed, and after a crash resumes from what was  *)
(* durable.                                                                *)
(***************************************************************************)
EXTENDS Command

VARIABLES
  live,    \* the parts and documents that commands and reads are about
  durable  \* the parts and documents that survive a crash

Contents == [exists : BOOLEAN, docs : [Ids -> DocOrNil]]

Absent == [exists |-> FALSE, docs |-> [id \in Ids |-> NoDoc]]

Init ==
  /\ live = [p \in Parts |-> Absent]
  /\ durable = [p \in Parts |-> Absent]

(* A part is created once and deleted only if it is there; a document is     *)
(* inserted only where there is none; it is replaced and deleted only by a   *)
(* command that names its current stamp.                                     *)
Legal(store, cmd) ==
  LET part == store[cmd.part]
  IN  CASE cmd.type = "CREATE_PART" -> ~part.exists
        [] cmd.type = "DELETE_PART" -> part.exists
        [] cmd.type = "POST"        -> part.exists /\ part.docs[cmd.id] = NoDoc
        [] cmd.type \in {"PUT", "DEL"} ->
             /\ part.exists
             /\ part.docs[cmd.id] # NoDoc
             /\ part.docs[cmd.id].updated = cmd.ts

Effect(store, cmd) ==
  CASE cmd.type = "CREATE_PART" -> [store EXCEPT ![cmd.part].exists = TRUE]
    [] cmd.type = "DELETE_PART" -> [store EXCEPT ![cmd.part] = Absent]
    [] cmd.type = "DEL"         -> [store EXCEPT ![cmd.part].docs[cmd.id] = NoDoc]
    [] OTHER                    -> [store EXCEPT ![cmd.part].docs[cmd.id] = cmd.doc]

Accept(cmd) ==
  /\ Legal(live, cmd)
  /\ live' = Effect(live, cmd)
  /\ UNCHANGED durable

(* One shard's transaction commits. *)
Persist(c) ==
  /\ durable' = [p \in Parts |-> IF FirstRune[p] = c THEN live[p] ELSE durable[p]]
  /\ UNCHANGED live

Lose ==
  /\ live' = durable
  /\ UNCHANGED durable

Next ==
  \/ \E cmd \in Commands : Accept(cmd)
  \/ \E c \in Shards : Persist(c)
  \/ Lose

Spec == Init /\ [][Next]_<<live, durable>>
=============================================================================
