------------------------------ MODULE Command ------------------------------
(***************************************************************************)
(* The commands of bydb (src/command/command.go) as the replicated log     *)
(* carries them, and the documents inside them (src/document/document.go). *)
(*                                                                         *)
(* A part or document name is a string; the only thing the program does    *)
(* with a name beside comparing it is to look at its first rune and to     *)
(* glue a part and an id together with a ':'.  A name is therefore the     *)
(* sequence of its ':'-separated segments: "a:b" is <<"a", "b">>, "" is    *)
(* <<"">>.  The text of a document is its Updated stamp and a body.        *)
(***************************************************************************)
EXTENDS Integers, Sequences

CONSTANTS
  Parts,      \* the partition names that clients use
  Ids,        \* the document ids that clients use
  EmptyId,    \* the id "" (Command.Id of a part command; a POST may use it)
  Stamps,     \* the values of Document.Updated and of the ts of PUT and DEL
  Bodies,     \* the rest of a document's text
  EmptyBody,  \* the rest of Document{}, which no client sends
  NoDoc,      \* the nil *Document
  Shards,     \* the runes of the alphabet, one shard each
  FirstRune,  \* getFirstRune: part -> rune
  Commands    \* the commands that clients propose in this instance

ASSUME StampsAssumption == Stamps \subseteq Nat

(* A document as PUT and POST carry it. *)
Documents == [updated : Stamps, body : Bodies]

(* Run gives every command &Document{}; only PUT and POST unmarshal into it. *)
EmptyDoc == [updated |-> 0, body |-> EmptyBody]

ASSUME NoDocAssumption == NoDoc \notin Documents \cup {EmptyDoc}

DocOrNil == Documents \cup {NoDoc}

(* The five commands that Crud hands to SyncPropose, as their parsers build  *)
(* them.  (Ts of a POST is the document's Created, which nothing reads.)     *)
POST(p, id, doc) ==
  [type |-> "POST", part |-> p, id |-> id, ts |-> 0, doc |-> doc]

PUT(p, id, ts, doc) ==
  [type |-> "PUT", part |-> p, id |-> id, ts |-> ts, doc |-> doc]

DEL(p, id, ts) ==
  [type |-> "DEL", part |-> p, id |-> id, ts |-> ts, doc |-> EmptyDoc]

CREATE_PART(p) ==
  [type |-> "CREATE_PART", part |-> p, id |-> EmptyId, ts |-> 0, doc |-> EmptyDoc]

DELETE_PART(p) ==
  [type |-> "DELETE_PART", part |-> p, id |-> EmptyId, ts |-> 0, doc |-> EmptyDoc]

(* Command.IsPart, which only the parsers of the two part commands set. *)
IsPart(cmd) == cmd.type \in {"CREATE_PART", "DELETE_PART"}

(* DEL's pattern wants at least one character of id, so EmptyId is not       *)
(* deletable; the JSON of PUT and POST may leave the id out.                 *)
WriteCommands ==
  {POST(p, id, d) : p \in Parts, id \in Ids, d \in Documents}
    \cup {PUT(p, id, t, d) : p \in Parts, id \in Ids, t \in Stamps, d \in Documents}
    \cup {DEL(p, id, t) : p \in Parts, id \in Ids \ {EmptyId}, t \in Stamps}
    \cup {CREATE_PART(p) : p \in Parts}
    \cup {DELETE_PART(p) : p \in Parts}

ASSUME CommandsAssumption == Commands \subseteq WriteCommands

(* The key of a document in its bucket and in the shard's index. *)
FullId(p, id) == p \o id

FullIds == {FullId(p, id) : p \in Parts, id \in Ids}

(* getFirstRune decides the shard; a part whose first rune is not in the     *)
(* alphabet has none.                                                        *)
ASSUME FirstRuneAssumption == DOMAIN FirstRune = Parts

ShardOf(cmd) == FirstRune[cmd.part]
=============================================================================
