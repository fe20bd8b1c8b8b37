------------------------------- MODULE Parse -------------------------------
(***************************************************************************)
(* The text of commands (src/command/command.go): which messages           *)
(* ParseCommand accepts, and which of them the interactive client          *)
(* (src/client.go) lets its user send.                                     *)
(*                                                                         *)
(* A message is the sequence of its tokens between single spaces; two      *)
(* spaces in a row, or one at an end, give the token Empty.  A JSON text   *)
(* is one token (it may be written without spaces).  Other white space     *)
(* does not occur in the messages here.                                    *)
(***************************************************************************)
EXTENDS Naturals, Sequences

CONSTANTS
  Empty,      \* the token ""
  Exit,       \* the token "exit", in any case
  Numerals,   \* tokens that \d+ matches
  Int64,      \* those that strconv.ParseInt(_, 10, 64) takes
  Uint64,     \* those that strconv.ParseUint(_, 10, 64) takes
  Braced,     \* tokens that {.*} matches
  Objects     \* those that json.Unmarshal puts into a Document

ASSUME NumeralsAssumption == Int64 \subseteq Uint64 /\ Uint64 \subseteq Numerals

ASSUME TokensAssumption ==
  /\ Objects \subseteq Braced
  /\ Numerals \cap Braced = {}
  /\ {Empty, Exit} \cap (Numerals \cup Braced) = {}

Prefixes == <<"GET", "DEL", "PUT", "POST", "SEARCH", "CREATE_PART", "DELETE_PART",
              "JOIN_NODE", "REMOVE_NODE">>

Word(token) == token # Empty

(* ({.*})$ from token k on: the first token opens and the last one closes. *)
BracedFrom(raw, k) == k <= Len(raw) /\ raw[k] \in Braced /\ raw[Len(raw)] \in Braced

(* The pattern of each format, anchored at both ends. *)
MatchString(prefix, raw) ==
  /\ raw[1] = prefix
  /\ CASE prefix = "GET"  -> Len(raw) = 3 /\ Word(raw[2]) /\ Word(raw[3])
       [] prefix = "DEL"  -> Len(raw) = 4 /\ Word(raw[2]) /\ Word(raw[3]) /\ raw[4] \in Numerals
       [] prefix = "PUT"  -> Len(raw) >= 2 /\ raw[2] \in Numerals /\ BracedFrom(raw, 3)
       [] prefix = "POST" -> BracedFrom(raw, 2)
       [] prefix = "SEARCH" ->
            Len(raw) >= 3 /\ Word(raw[2]) /\ (Len(raw) > 3 \/ Word(raw[3]))
       [] prefix \in {"CREATE_PART", "DELETE_PART", "JOIN_NODE"} -> Len(raw) = 2 /\ Word(raw[2])
       [] prefix = "REMOVE_NODE" -> Len(raw) = 2 /\ raw[2] \in Numerals

(* CommandFormat.Test: the message starts with the prefix and a space. *)
PrefixOnly(prefix, raw) ==  \* mutant: without the space, "DEL" also starts DELETE_PART
  Len(raw) >= 2 /\ (raw[1] = prefix \/ <<prefix, raw[1]>> = <<"DEL", "DELETE_PART">>)

Test(prefix, raw) == Len(raw) >= 2 /\ raw[1] = prefix

BadRequest == [type |-> "error", id |-> Empty]

(* Run: the pattern and then the parser, which may still refuse a number or  *)
(* a document.  Of a command, its type and the Id of the two commands on     *)
(* nodes are kept; Command has the rest.                                     *)
ParserTakes(prefix, raw) ==
  CASE prefix = "DEL"  -> raw[4] \in Int64
    [] prefix = "PUT"  -> Len(raw) = 3 /\ raw[3] \in Objects /\ raw[2] \in Int64
    [] prefix = "POST" -> Len(raw) = 2 /\ raw[2] \in Objects
    [] OTHER           -> TRUE

Run(prefix, raw) ==
  IF ~MatchString(prefix, raw) \/ ~ParserTakes(prefix, raw) THEN BadRequest
  ELSE [type |-> prefix,
        id   |-> IF prefix \in {"JOIN_NODE", "REMOVE_NODE"} THEN raw[2] ELSE Empty]

(* The first format in the list whose Test succeeds decides. *)
FirstOf(S) == CHOOSE k \in S : \A j \in S : k <= j

ParseCommand(raw) ==
  LET tested == {k \in DOMAIN Prefixes : Test(Prefixes[k], raw)}
  IN  IF tested = {} THEN BadRequest ELSE Run(Prefixes[FirstOf(tested)], raw)

(* Hello sends the list of formats, prefixes and patterns, to the client,    *)
(* whose validate holds its user to them.                                    *)
Commandlist == {Prefixes[k] : k \in DOMAIN Prefixes}

Validate(raw) ==
  raw = <<Exit>> \/ \E prefix \in Commandlist : raw[1] = prefix /\ MatchString(prefix, raw)
=============================================================================
