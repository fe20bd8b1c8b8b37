------------------------------ MODULE ApiProofs ------------------------------
(***************************************************************************)
(* Between any number of clients and of membership changes under way: who  *)
(* passed the client's validation is not refused for the format, a join is *)
(* refused only for cause, and what was answered with 200 took effect.     *)
(***************************************************************************)
EXTENDS Api, FiniteSetTheorems, WellFoundedInduction, TLAPS

(* A message is a sequence of tokens. *)
IsMessage(raw) == raw \in Seq({raw[k] : k \in DOMAIN raw}) /\ raw # <<Exit>>

LEMMA PrefixesAre ==
  /\ DOMAIN Prefixes = 1..9
  /\ Prefixes[1] = "GET" /\ Prefixes[2] = "DEL" /\ Prefixes[3] = "PUT" /\ Prefixes[4] = "POST"
  /\ Prefixes[5] = "SEARCH" /\ Prefixes[6] = "CREATE_PART" /\ Prefixes[7] = "DELETE_PART"
  /\ Prefixes[8] = "JOIN_NODE" /\ Prefixes[9] = "REMOVE_NODE"
  BY DEF Prefixes

(* The first element of a set of positions in the list. *)
LEMMA FirstOfIs ==
  ASSUME NEW S, S \subseteq 1..9, S # {}
  PROVE  FirstOf(S) \in S
<1>1. \E k \in S : \A j \in S : k <= j
  <2>1. PICK i \in S : TRUE
    OBVIOUS
  <2>2. \A j \in S : j \in Nat /\ 1 <= j /\ j <= 9
    OBVIOUS
  <2> QED BY <2>1, <2>2
<1> QED BY <1>1 DEF FirstOf

LEMMA ParsedBy ==
  ASSUME NEW raw, NEW k \in 1..9, Test(Prefixes[k], raw)
  PROVE  ParseCommand(raw) = Run(Prefixes[k], raw)
<1> DEFINE tested == {j \in DOMAIN Prefixes : Test(Prefixes[j], raw)}
<1>1. k \in tested /\ tested \subseteq 1..9
  BY PrefixesAre
<1>2. FirstOf(tested) \in tested
  <2> HIDE DEF tested
  <2> QED BY <1>1, FirstOfIs
<1>3. Prefixes[FirstOf(tested)] = Prefixes[k]
  <2>1. \A j \in tested : raw[1] = Prefixes[j]
    BY DEF Test
  <2> HIDE DEF tested
  <2> QED BY <1>1, <1>2, <2>1
<1>4. ParseCommand(raw) = IF tested = {} THEN BadRequest ELSE Run(Prefixes[FirstOf(tested)], raw)
  BY DEF ParseCommand
<1> HIDE DEF tested
<1> QED BY <1>1, <1>3, <1>4

LEMMA RunType ==
  ASSUME NEW prefix, NEW raw, Run(prefix, raw) # BadRequest
  PROVE  Run(prefix, raw).type = prefix
<1>1. Run(prefix, raw) = [type |-> prefix,
                          id   |-> IF prefix \in {"JOIN_NODE", "REMOVE_NODE"} THEN raw[2] ELSE Empty]
  BY Zenon DEF Run
<1> QED BY <1>1

LEMMA ParseType ==
  ASSUME NEW raw, ParseCommand(raw) # BadRequest
  PROVE  ParseCommand(raw).type \in Commandlist
<1> DEFINE tested == {j \in DOMAIN Prefixes : Test(Prefixes[j], raw)}
<1>1. ParseCommand(raw) = IF tested = {} THEN BadRequest ELSE Run(Prefixes[FirstOf(tested)], raw)
  BY DEF ParseCommand
<1>2. tested \subseteq 1..9 /\ tested \subseteq DOMAIN Prefixes
  BY PrefixesAre
<1> HIDE DEF tested
<1>3. tested # {}
  BY <1>1
<1>4. FirstOf(tested) \in DOMAIN Prefixes
  BY <1>2, <1>3, FirstOfIs
<1>5. ParseCommand(raw).type = Prefixes[FirstOf(tested)]
  BY <1>1, <1>3, RunType
<1> QED BY <1>4, <1>5 DEF Commandlist

(* What the parser refuses of a message that matches the pattern. *)
Cause(raw, k) ==
  \/ raw[k] \in (Numerals \ Int64) \cup (Braced \ Objects)
  \/ raw[k] \in Braced /\ k < Len(raw)

LEMMA ParserCause ==
  ASSUME NEW raw, raw \in Seq({raw[k] : k \in DOMAIN raw}),
         NEW prefix \in Commandlist, MatchString(prefix, raw), ~ParserTakes(prefix, raw)
  PROVE  \E k \in DOMAIN raw : Cause(raw, k)
<1>1. Len(raw) \in Nat /\ DOMAIN raw = 1..Len(raw)
  OBVIOUS
<1>2. prefix \in {"DEL", "PUT", "POST"}
  BY Zenon DEF ParserTakes
<1>3. CASE prefix = "DEL"
  <2>1. Len(raw) = 4 /\ raw[4] \in Numerals
    BY <1>3, Zenon DEF MatchString
  <2>2. raw[4] \notin Int64
    BY <1>3, Zenon DEF ParserTakes
  <2>3. 4 \in DOMAIN raw
    BY <1>1, <2>1
  <2> QED BY <2>1, <2>2, <2>3 DEF Cause
<1>4. CASE prefix = "PUT"
  <2>1. raw[2] \in Numerals /\ BracedFrom(raw, 3)
    BY <1>4, Zenon DEF MatchString
  <2>2. Len(raw) # 3 \/ raw[3] \notin Objects \/ raw[2] \notin Int64
    BY <1>4, Zenon DEF ParserTakes
  <2>3. 3 <= Len(raw) /\ raw[3] \in Braced
    BY <2>1 DEF BracedFrom
  <2>4. 2 \in DOMAIN raw /\ 3 \in DOMAIN raw
    BY <1>1, <2>3
  <2>5. Len(raw) # 3 => Cause(raw, 3)
    BY <1>1, <2>3 DEF Cause
  <2> QED BY <2>1, <2>2, <2>3, <2>4, <2>5 DEF Cause
<1>5. CASE prefix = "POST"
  <2>1. BracedFrom(raw, 2)
    BY <1>5, Zenon DEF MatchString
  <2>2. Len(raw) # 2 \/ raw[2] \notin Objects
    BY <1>5, Zenon DEF ParserTakes
  <2>3. 2 <= Len(raw) /\ raw[2] \in Braced
    BY <2>1 DEF BracedFrom
  <2>4. 2 \in DOMAIN raw
    BY <1>1, <2>3
  <2>5. Len(raw) # 2 => Cause(raw, 2)
    BY <1>1, <2>3 DEF Cause
  <2> QED BY <2>2, <2>3, <2>4, <2>5 DEF Cause
<1> QED BY <1>2, <1>3, <1>4, <1>5

LEMMA MatchLength ==
  ASSUME NEW raw, raw \in Seq({raw[k] : k \in DOMAIN raw}),
         NEW prefix \in Commandlist, MatchString(prefix, raw)
  PROVE  Test(prefix, raw)
<1>0. Len(raw) \in Nat
  OBVIOUS
<1>1. PICK k \in 1..9 : prefix = Prefixes[k]
  BY PrefixesAre DEF Commandlist
<1>2. prefix \in {"GET", "DEL", "PUT", "POST", "SEARCH", "CREATE_PART", "DELETE_PART",
                  "JOIN_NODE", "REMOVE_NODE"}
  <2>1. k \in {1, 2, 3, 4, 5, 6, 7, 8, 9}
    BY <1>1
  <2> QED BY <1>1, <2>1, PrefixesAre
<1>3. raw[1] = prefix
  BY DEF MatchString
<1>4. \/ Len(raw) \in {2, 3, 4} \/ Len(raw) >= 2 \/ Len(raw) >= 3 \/ BracedFrom(raw, 2)
  <2>1. CASE prefix \in {"GET", "DEL"}
    BY <2>1, Zenon DEF MatchString
  <2>2. CASE prefix = "PUT"
    BY <2>2, Zenon DEF MatchString
  <2>3. CASE prefix = "POST"
    BY <2>3, Zenon DEF MatchString
  <2>4. CASE prefix = "SEARCH"
    BY <2>4, Zenon DEF MatchString
  <2>5. CASE prefix \in {"CREATE_PART", "DELETE_PART", "JOIN_NODE"}
    BY <2>5, Zenon DEF MatchString
  <2>6. CASE prefix = "REMOVE_NODE"
    BY <2>6, Zenon DEF MatchString
  <2> QED BY <1>2, <2>1, <2>2, <2>3, <2>4, <2>5, <2>6
<1>5. Len(raw) >= 2
  BY <1>0, <1>4 DEF BracedFrom
<1> QED BY <1>3, <1>5 DEF Test

(* A validated message is refused only for a cause that no pattern sees.     *)
LEMMA ValidatedParses ==
  ASSUME NEW raw, IsMessage(raw), Validate(raw), ParseCommand(raw) = BadRequest
  PROVE  \E k \in DOMAIN raw : Cause(raw, k)
<1>1. PICK prefix \in Commandlist : MatchString(prefix, raw)
  BY DEF Validate, IsMessage
<1>2. PICK k \in 1..9 : prefix = Prefixes[k]
  BY PrefixesAre DEF Commandlist
<1>3. Run(prefix, raw) = BadRequest
  BY <1>1, <1>2, MatchLength, ParsedBy DEF IsMessage
<1>4. prefix # "error"
  <2>1. k \in {1, 2, 3, 4, 5, 6, 7, 8, 9}
    OBVIOUS
  <2> QED BY <1>2, <2>1, PrefixesAre
<1>5. ASSUME ParserTakes(prefix, raw) PROVE FALSE
  <2>1. Run(prefix, raw) = [type |-> prefix,
                            id   |-> IF prefix \in {"JOIN_NODE", "REMOVE_NODE"} THEN raw[2] ELSE Empty]
    BY <1>1, <1>5, Zenon DEF Run
  <2>2. Run(prefix, raw).type = prefix /\ BadRequest.type = "error"
    BY <2>1 DEF BadRequest
  <2> QED BY <1>3, <1>4, <2>2
<1> QED BY <1>1, <1>5, ParserCause DEF IsMessage

-----------------------------------------------------------------------------
ChangeTypes == {"JOIN_NODE", "REMOVE_NODE"}

(* The fields of a handler. *)
ApiShape ==
  /\ DOMAIN client = Clients /\ DOMAIN handler = Clients /\ DOMAIN change = Clients
  /\ \A c \in Clients :
       handler[c] = [step |-> handler[c].step, raw |-> handler[c].raw, cmd |-> handler[c].cmd,
                     view |-> handler[c].view, id |-> handler[c].id, code |-> handler[c].code]

(* The membership never gets empty, and an id that was removed stays out.    *)
Membership ==
  /\ IsFiniteSet(DOMAIN members) /\ DOMAIN members \subseteq Nat /\ DOMAIN members # {}
  /\ DOMAIN members \cap removed = {}

Requested(h) ==
  [kind |-> h.cmd.type, id |-> h.id,
   address |-> IF h.cmd.type = "JOIN_NODE" THEN h.cmd.id ELSE Empty]

(* A change that is answered with 200 took effect. *)
TookEffect(h) ==
  /\ h.cmd.type = "JOIN_NODE" => <<h.id, h.cmd.id>> \in joined
  /\ h.cmd.type = "REMOVE_NODE" => h.id \in removed /\ h.id \notin DOMAIN members

(* What Crud knows at each of its steps; a change under way is the one that  *)
(* the waiting call requested, for its client makes no other call meanwhile. *)
Serving(h, ch) ==
  /\ h.step = "crud" => IsMessage(h.raw)
  /\ h.step = "propose" => h.cmd.type \notin ChangeTypes
  /\ h.step = "read" => h.cmd.type \notin ChangeTypes
  /\ h.step \in {"request", "wait"} /\ h.cmd.type = "JOIN_NODE" => h.id \in Nat \ DOMAIN h.view
  /\ h.step = "wait" => ch.kind = "none" \/ ch = Requested(h)
  /\ h.step = "answer" /\ h.code = 400 => IsMessage(h.raw) /\ ParseCommand(h.raw) = BadRequest
  /\ h.step = "answer" /\ h.code = 200 => TookEffect(h)

Pending(ch) == ch.kind = "JOIN_NODE" => ch.id \in Nat

ApiInv ==
  /\ ApiShape
  /\ Membership
  /\ \A c \in Clients : Pending(change[c]) /\ Serving(handler[c], change[c])

(* A handler that stands still is still right, whatever became of its        *)
(* change, since an id once removed never comes back.                        *)
LEMMA OthersServed ==
  ASSUME ApiInv, Membership', joined \subseteq joined', removed \subseteq removed',
         NEW d \in Clients, handler'[d] = handler[d], change'[d] \in {change[d], NoChange}
  PROVE  Pending(change[d])' /\ Serving(handler[d], change[d])'
<1>1. Pending(change[d]) /\ Serving(handler[d], change[d])
  BY DEF ApiInv
<1>2. TookEffect(handler[d]) => TookEffect(handler[d])'
  BY DEF TookEffect, Membership
<1>3. NoChange.kind = "none"
  BY DEF NoChange
<1>4. Pending(change[d])'
  BY <1>1, <1>3 DEF Pending
<1> QED BY <1>1, <1>2, <1>3, <1>4 DEF Serving, Requested

(* What remains to be shown of a step of client c's call. *)
LEMMA OneServed ==
  ASSUME ApiInv, ApiShape', Membership', joined \subseteq joined', removed \subseteq removed',
         NEW c \in Clients,
         \A d \in Clients \ {c} : handler'[d] = handler[d] /\ change'[d] = change[d],
         Pending(change[c])', Serving(handler[c], change[c])'
  PROVE  ApiInv'
<1>1. ASSUME NEW d \in Clients, d # c PROVE Pending(change[d])' /\ Serving(handler[d], change[d])'
  BY <1>1, OthersServed
<1> QED BY <1>1 DEF ApiInv

(* A step that leaves the membership and the changes alone. *)
LEMMA HandlerOnly ==
  ASSUME ApiInv, NEW c \in Clients, NEW h, handler' = [handler EXCEPT ![c] = h],
         h = [step |-> h.step, raw |-> h.raw, cmd |-> h.cmd,
              view |-> h.view, id |-> h.id, code |-> h.code],
         DOMAIN client' = Clients, UNCHANGED <<change, members, removed, joined>>,
         Serving(h, change[c])
  PROVE  ApiInv'
<1>1. handler'[c] = h /\ DOMAIN handler' = Clients /\ \A d \in Clients \ {c} : handler'[d] = handler[d]
  BY DEF ApiInv, ApiShape
<1>2. ApiShape'
  BY <1>1 DEF ApiInv, ApiShape
<1>3. Membership'
  BY DEF ApiInv, Membership
<1>4. Serving(handler[c], change[c])'
  BY <1>1 DEF Serving, TookEffect, Requested
<1>5. Pending(change[c])'
  BY DEF ApiInv, Pending
<1> QED BY <1>1, <1>2, <1>3, <1>4, <1>5, OneServed

Moved(h, step) ==
  [step |-> step, raw |-> h.raw, cmd |-> h.cmd, view |-> h.view, id |-> h.id, code |-> h.code]

Answered(h, code) ==
  [step |-> "answer", raw |-> h.raw, cmd |-> h.cmd, view |-> h.view, id |-> h.id, code |-> code]

LEMMA HandlerMoves ==
  ASSUME ApiInv, NEW c \in Clients
  PROVE  /\ \A step : Goto(c, step) => handler' = [handler EXCEPT ![c] = Moved(handler[c], step)]
         /\ \A code : Respond(c, code) => handler' = [handler EXCEPT ![c] = Answered(handler[c], code)]
<1>1. handler[c] = [step |-> handler[c].step, raw |-> handler[c].raw, cmd |-> handler[c].cmd,
                    view |-> handler[c].view, id |-> handler[c].id, code |-> handler[c].code]
  BY DEF ApiInv, ApiShape
<1>2. \A step : [handler[c] EXCEPT !.step = step] = Moved(handler[c], step)
  BY <1>1 DEF Moved
<1>3. \A code : [[handler[c] EXCEPT !.step = "answer"] EXCEPT !.code = code] = Answered(handler[c], code)
  <2>1. [handler[c] EXCEPT !.step = "answer"] = Moved(handler[c], "answer")
    BY <1>2
  <2>2. \A code : [Moved(handler[c], "answer") EXCEPT !.code = code] = Answered(handler[c], code)
    BY DEF Moved, Answered
  <2> QED BY <2>1, <2>2
<1>4. \A step : [handler EXCEPT ![c].step = step] = [handler EXCEPT ![c] = Moved(handler[c], step)]
  BY <1>2
<1>5. \A code : [handler EXCEPT ![c].step = "answer", ![c].code = code]
                  = [handler EXCEPT ![c] = Answered(handler[c], code)]
  BY <1>3 DEF ApiInv, ApiShape
<1> QED BY <1>4, <1>5 DEF Goto, Respond

-----------------------------------------------------------------------------
(* A finite set of numbers has a greatest one: the one with the fewest       *)
(* elements from it on.                                                      *)
LEMMA GreatestExists ==
  ASSUME NEW S, IsFiniteSet(S), S \subseteq Nat, S # {}
  PROVE  \E m \in S : \A j \in S : j <= m
<1> DEFINE Above(k) == {i \in S : i >= k}
           sizes == {Cardinality(Above(k)) : k \in S}
<1>1. \A k \in S : IsFiniteSet(Above(k)) /\ Cardinality(Above(k)) \in Nat
  <2> SUFFICES ASSUME NEW k \in S PROVE IsFiniteSet(Above(k)) /\ Cardinality(Above(k)) \in Nat
    OBVIOUS
  <2>1. Above(k) \in SUBSET S
    OBVIOUS
  <2> HIDE DEF Above
  <2>2. IsFiniteSet(Above(k))
    BY <2>1, FS_Subset
  <2> QED BY <2>2, FS_CardinalityType
<1>2. sizes \subseteq Nat /\ sizes # {}
  <2> HIDE DEF Above
  <2> QED BY <1>1
<1>3. PICK x \in sizes : \A y \in sizes : ~(<<y, x>> \in OpToRel(<, Nat))
  <2> HIDE DEF sizes
  <2> QED BY <1>2, NatLessThanWellFounded, WFMin
<1>4. PICK m \in S : x = Cardinality(Above(m))
  OBVIOUS
<1>5. ASSUME NEW j \in S, ~(j <= m) PROVE FALSE
  <2>1. Above(j) \in SUBSET Above(m) /\ m \in Above(m) /\ m \notin Above(j)
    <3>1. j \in Nat /\ m \in Nat /\ m < j
      BY <1>5
    <3>2. \A i \in S : i >= j => i >= m
      BY <3>1
    <3>3. m \in Above(m)
      BY <3>1
    <3>4. m \notin Above(j)
      BY <3>1
    <3>5. \A i \in Above(j) : i \in Above(m)
      BY <3>2
    <3> HIDE DEF Above
    <3> QED BY <3>3, <3>4, <3>5
  <2>2. Cardinality(Above(j)) \in sizes
    OBVIOUS
  <2> HIDE DEF Above, sizes
  <2>3. /\ Cardinality(Above(j)) <= Cardinality(Above(m))
        /\ Cardinality(Above(m)) # Cardinality(Above(j))
    BY <1>1, <2>1, FS_Subset
  <2>4. Cardinality(Above(j)) \in Nat /\ Cardinality(Above(m)) \in Nat
    BY <1>1
  <2>5. <<Cardinality(Above(j)), Cardinality(Above(m))>> \notin OpToRel(<, Nat)
    BY <1>3, <1>4, <2>2
  <2> QED BY <2>3, <2>4, <2>5 DEF OpToRel
<1> QED BY <1>5

(* The id of a new replica is nobody's.                                      *)
LEMMA MaxIdPlusOneIsNew ==
  ASSUME Membership
  PROVE  MaxIdPlusOne(members) \in Nat \ DOMAIN members
<1> DEFINE greatest == CHOOSE m \in DOMAIN members : \A id \in DOMAIN members : id <= m
<1>1. \E m \in DOMAIN members : \A id \in DOMAIN members : id <= m
  BY GreatestExists DEF Membership
<1>2. greatest \in DOMAIN members /\ \A id \in DOMAIN members : id <= greatest
  BY <1>1
<1>3. greatest \in Nat /\ MaxIdPlusOne(members) = 1 + greatest
  BY <1>2 DEF Membership, MaxIdPlusOne
<1> HIDE DEF greatest
<1> QED BY <1>2, <1>3

-----------------------------------------------------------------------------
LEMMA SendServes ==
  ASSUME ApiInv, NEW c \in Clients, NEW raw \in Inputs, Send(c, raw)
  PROVE  ApiInv'
<1> DEFINE h == [step |-> "crud", raw |-> raw, cmd |-> BadRequest, view |-> InitialNodes,
                 id |-> 0, code |-> 0]
<1>1. [NoHandler EXCEPT !.step = "crud", !.raw = raw] = h
  <2>1. [NoHandler EXCEPT !.step = "crud"] = Moved(NoHandler, "crud")
    BY DEF NoHandler, Moved
  <2>2. [Moved(NoHandler, "crud") EXCEPT !.raw = raw] = h
    BY DEF NoHandler, Moved
  <2>3. [NoHandler EXCEPT !.step = "crud", !.raw = raw]
          = [[NoHandler EXCEPT !.step = "crud"] EXCEPT !.raw = raw]
    OBVIOUS
  <2> HIDE DEF h
  <2> QED BY <2>1, <2>2, <2>3
<1>2. handler' = [handler EXCEPT ![c] = h]
  BY <1>1 DEF Send
<1>3. DOMAIN client' = Clients /\ UNCHANGED <<change, members, removed, joined>>
  BY DEF Send, ApiInv, ApiShape
<1>4. IsMessage(raw)
  BY ApiAssumption DEF Send, IsMessage
<1>5. Serving(h, change[c])
  BY <1>4 DEF Serving
<1>6. h = [step |-> h.step, raw |-> h.raw, cmd |-> h.cmd, view |-> h.view, id |-> h.id, code |-> h.code]
  OBVIOUS
<1> HIDE DEF h
<1> QED BY <1>2, <1>3, <1>5, <1>6, HandlerOnly

LEMMA NoHandlerServes ==
  ASSUME ApiInv, NEW c \in Clients, handler' = [handler EXCEPT ![c] = NoHandler],
         DOMAIN client' = Clients, UNCHANGED <<change, members, removed, joined>>
  PROVE  ApiInv'
<1>1. Serving(NoHandler, change[c])
  BY DEF Serving, NoHandler
<1>2. NoHandler = [step |-> NoHandler.step, raw |-> NoHandler.raw, cmd |-> NoHandler.cmd,
                   view |-> NoHandler.view, id |-> NoHandler.id, code |-> NoHandler.code]
  BY DEF NoHandler
<1> QED BY <1>1, <1>2, HandlerOnly

LEMMA QuitServes ==
  ASSUME ApiInv, NEW c \in Clients, Quit(c)
  PROVE  ApiInv'
<1>1. /\ UNCHANGED <<handler, change, members, removed, joined>> /\ DOMAIN client' = Clients
  BY DEF Quit, ApiInv, ApiShape
<1> QED BY <1>1 DEF ApiInv, ApiShape, Membership, Pending, Serving, TookEffect, Requested

LEMMA ReceiveServes ==
  ASSUME ApiInv, NEW c \in Clients, Receive(c) \/ Deadline(c)
  PROVE  ApiInv'
<1>1. /\ handler' = [handler EXCEPT ![c] = NoHandler] /\ DOMAIN client' = Clients
      /\ UNCHANGED <<change, members, removed, joined>>
  BY DEF Receive, Deadline, ApiInv, ApiShape
<1> QED BY <1>1, NoHandlerServes

(* A handler that goes on to another step, or answers, is as it was but for  *)
(* the step and the code.                                                    *)
LEMMA MovesServe ==
  ASSUME ApiInv, NEW c \in Clients, NEW step, Goto(c, step), Serving(Moved(handler[c], step), change[c]),
         UNCHANGED <<client, change, members, removed, joined>>
  PROVE  ApiInv'
<1>1. handler' = [handler EXCEPT ![c] = Moved(handler[c], step)] /\ DOMAIN client' = Clients
  BY HandlerMoves DEF ApiInv, ApiShape
<1>2. Moved(handler[c], step) =
        [step |-> Moved(handler[c], step).step, raw |-> Moved(handler[c], step).raw,
         cmd |-> Moved(handler[c], step).cmd, view |-> Moved(handler[c], step).view,
         id |-> Moved(handler[c], step).id, code |-> Moved(handler[c], step).code]
  BY DEF Moved
<1> QED BY <1>1, <1>2, HandlerOnly

LEMMA AnswersServe ==
  ASSUME ApiInv, NEW c \in Clients, NEW code, Respond(c, code), Serving(Answered(handler[c], code), change[c]),
         UNCHANGED <<client, change, members, removed, joined>>
  PROVE  ApiInv'
<1>1. handler' = [handler EXCEPT ![c] = Answered(handler[c], code)] /\ DOMAIN client' = Clients
  BY HandlerMoves DEF ApiInv, ApiShape
<1>2. Answered(handler[c], code) =
        [step |-> Answered(handler[c], code).step, raw |-> Answered(handler[c], code).raw,
         cmd |-> Answered(handler[c], code).cmd, view |-> Answered(handler[c], code).view,
         id |-> Answered(handler[c], code).id, code |-> Answered(handler[c], code).code]
  BY DEF Answered
<1> QED BY <1>1, <1>2, HandlerOnly

(* A call that fails or is refused knows nothing.                            *)
LEMMA FailServes ==
  ASSUME ApiInv, NEW c \in Clients, Fail(c) \/ Refused(c)
  PROVE  ApiInv'
<1>1. Goto(c, "error") /\ UNCHANGED <<client, change, members, removed, joined>>
  BY DEF Fail, Refused
<1>2. Serving(Moved(handler[c], "error"), change[c])
  BY DEF Serving, Moved
<1> QED BY <1>1, <1>2, MovesServe

LEMMA ProposeServes ==
  ASSUME ApiInv, NEW c \in Clients, Propose(c) \/ Read(c)
  PROVE  ApiInv'
<1>1. PICK code \in {0, 200, 404, 409} : Respond(c, code)
  BY DEF Propose, Read
<1>2. UNCHANGED <<client, change, members, removed, joined>>
  BY DEF Propose, Read
<1>3. handler[c].cmd.type \notin ChangeTypes
  BY DEF Propose, Read, ApiInv, Serving
<1>4. code # 400
  OBVIOUS
<1>5. Serving(Answered(handler[c], code), change[c])
  BY <1>3, <1>4 DEF Serving, Answered, TookEffect, ChangeTypes
<1> QED BY <1>1, <1>2, <1>5, AnswersServe

LEMMA StepOfCommand ==
  ASSUME NEW cmd, cmd.type \in Commandlist
  PROVE  /\ StepOf(cmd) \in {"propose", "read", "membership"}
         /\ StepOf(cmd) \in {"propose", "read"} => cmd.type \notin ChangeTypes
<1>1. PICK k \in 1..9 : cmd.type = Prefixes[k]
  BY PrefixesAre DEF Commandlist
<1>2. cmd.type \in {"GET", "DEL", "PUT", "POST", "SEARCH", "CREATE_PART", "DELETE_PART",
                    "JOIN_NODE", "REMOVE_NODE"}
  <2>1. k \in {1, 2, 3, 4, 5, 6, 7, 8, 9}
    BY <1>1
  <2> QED BY <1>1, <2>1, PrefixesAre
<1>3. CASE cmd.type \in {"PUT", "POST", "DEL", "CREATE_PART", "DELETE_PART"}
  <2>1. StepOf(cmd) = "propose"
    BY <1>3, Zenon DEF StepOf
  <2> QED BY <1>3, <2>1 DEF ChangeTypes
<1>4. CASE cmd.type \in {"GET", "SEARCH"}
  <2>1. StepOf(cmd) = "read"
    BY <1>4, Zenon DEF StepOf
  <2> QED BY <1>4, <2>1 DEF ChangeTypes
<1>5. CASE cmd.type \in {"JOIN_NODE", "REMOVE_NODE"}
  <2>1. StepOf(cmd) = "membership"
    BY <1>5, Zenon DEF StepOf
  <2> QED BY <2>1
<1> QED BY <1>2, <1>3, <1>4, <1>5

LEMMA CrudServes ==
  ASSUME ApiInv, NEW c \in Clients, Crud(c)
  PROVE  ApiInv'
<1> DEFINE cmd == ParseCommand(handler[c].raw)
           h == [step |-> StepOf(cmd), raw |-> <<>>, cmd |-> cmd, view |-> handler[c].view,
                 id |-> handler[c].id, code |-> handler[c].code]
<1>1. UNCHANGED <<client, change, members, removed, joined>> /\ DOMAIN client' = Clients
  BY DEF Crud, ApiInv, ApiShape
<1>2. CASE cmd = BadRequest
  <2>1. Respond(c, 400)
    BY <1>2 DEF Crud
  <2>2. IsMessage(handler[c].raw)
    BY DEF ApiInv, Serving, Crud
  <2>3. Serving(Answered(handler[c], 400), change[c])
    BY <1>2, <2>2 DEF Serving, Answered
  <2> HIDE DEF cmd, h
  <2> QED BY <1>1, <2>1, <2>3, AnswersServe
<1>3. CASE cmd # BadRequest
  <2>1. handler' = [handler EXCEPT ![c].step = StepOf(cmd), ![c].cmd = cmd, ![c].raw = <<>>]
    BY <1>3 DEF Crud
  <2>2. cmd.type \in Commandlist
    BY <1>3, ParseType
  <2>3. StepOf(cmd) \in {"propose", "read", "membership"}
        /\ (StepOf(cmd) \in {"propose", "read"} => cmd.type \notin ChangeTypes)
    <3> HIDE DEF cmd
    <3> QED BY <2>2, StepOfCommand
  <2>4. handler' = [handler EXCEPT ![c] = h]
    <3> HIDE DEF cmd
    <3>1. handler[c] = [step |-> handler[c].step, raw |-> handler[c].raw, cmd |-> handler[c].cmd,
                        view |-> handler[c].view, id |-> handler[c].id, code |-> handler[c].code]
      BY DEF ApiInv, ApiShape
    <3>2. c \in DOMAIN handler
      BY DEF ApiInv, ApiShape
    <3>3. [[[handler[c] EXCEPT !.step = StepOf(cmd)] EXCEPT !.cmd = cmd] EXCEPT !.raw = <<>>] = h
      <4>1. [handler[c] EXCEPT !.step = StepOf(cmd)] = Moved(handler[c], StepOf(cmd))
        BY <3>1 DEF Moved
      <4>2. [Moved(handler[c], StepOf(cmd)) EXCEPT !.cmd = cmd] = [step |-> StepOf(cmd), raw |-> handler[c].raw, cmd |-> cmd,
             view |-> handler[c].view, id |-> handler[c].id, code |-> handler[c].code]
        BY DEF Moved
      <4>3. [[step |-> StepOf(cmd), raw |-> handler[c].raw, cmd |-> cmd,
             view |-> handler[c].view, id |-> handler[c].id, code |-> handler[c].code] EXCEPT !.raw = <<>>] = h
        OBVIOUS
      <4> HIDE DEF h
      <4> QED BY <4>1, <4>2, <4>3
    <3> HIDE DEF h
    <3> QED BY <2>1, <3>2, <3>3
  <2>5. Serving(h, change[c])
    <3> HIDE DEF cmd
    <3> QED BY <2>3 DEF Serving
  <2>6. h = [step |-> h.step, raw |-> h.raw, cmd |-> h.cmd, view |-> h.view, id |-> h.id, code |-> h.code]
    <3> HIDE DEF cmd
    <3> QED OBVIOUS
  <2> HIDE DEF cmd, h
  <2> QED BY <1>1, <2>4, <2>5, <2>6, HandlerOnly
<1> QED BY <1>2, <1>3

LEMMA GetMembershipServes ==
  ASSUME ApiInv, NEW c \in Clients, GetMembership(c)
  PROVE  ApiInv'
<1> DEFINE cmd == handler[c].cmd
           new == IF cmd.type = "JOIN_NODE" THEN MaxIdPlusOne(members) ELSE ValueOf[cmd.id]
           h == [step |-> "request", raw |-> handler[c].raw, cmd |-> cmd, view |-> members,
                 id |-> new, code |-> handler[c].code]
<1>1. UNCHANGED <<client, change, members, removed, joined>> /\ DOMAIN client' = Clients
  BY DEF GetMembership, ApiInv, ApiShape
<1>2. CASE cmd.type = "REMOVE_NODE" /\ cmd.id \notin Uint64
  <2>1. Goto(c, "error")
    BY <1>2, Zenon DEF GetMembership
  <2>2. Serving(Moved(handler[c], "error"), change[c])
    BY DEF Serving, Moved
  <2> HIDE DEF cmd, new, h
  <2> QED BY <1>1, <2>1, <2>2, MovesServe
<1>3. CASE ~(cmd.type = "REMOVE_NODE" /\ cmd.id \notin Uint64)
  <2>1. handler' = [handler EXCEPT ![c].step = "request", ![c].view = members, ![c].id = new]
    BY <1>3, Zenon DEF GetMembership
  <2>2. handler' = [handler EXCEPT ![c] = h]
    <3> HIDE DEF new
    <3>1. handler[c] = [step |-> handler[c].step, raw |-> handler[c].raw, cmd |-> handler[c].cmd,
                        view |-> handler[c].view, id |-> handler[c].id, code |-> handler[c].code]
      BY DEF ApiInv, ApiShape
    <3>2. c \in DOMAIN handler
      BY DEF ApiInv, ApiShape
    <3>3. [[[handler[c] EXCEPT !.step = "request"] EXCEPT !.view = members] EXCEPT !.id = new] = h
      <4>1. [handler[c] EXCEPT !.step = "request"] = Moved(handler[c], "request")
        BY <3>1 DEF Moved
      <4>2. [Moved(handler[c], "request") EXCEPT !.view = members] = [step |-> "request", raw |-> handler[c].raw, cmd |-> cmd,
             view |-> members, id |-> handler[c].id, code |-> handler[c].code]
        BY DEF Moved
      <4>3. [[step |-> "request", raw |-> handler[c].raw, cmd |-> cmd,
             view |-> members, id |-> handler[c].id, code |-> handler[c].code] EXCEPT !.id = new] = h
        OBVIOUS
      <4> HIDE DEF h
      <4> QED BY <4>1, <4>2, <4>3
    <3> HIDE DEF h
    <3> QED BY <2>1, <3>2, <3>3
  <2>3. cmd.type = "JOIN_NODE" => new \in Nat \ DOMAIN members
    BY MaxIdPlusOneIsNew, Zenon DEF ApiInv
  <2>4. Serving(h, change[c])
    <3> HIDE DEF new
    <3> QED BY <2>3 DEF Serving
  <2>5. h = [step |-> h.step, raw |-> h.raw, cmd |-> h.cmd, view |-> h.view, id |-> h.id, code |-> h.code]
    <3> HIDE DEF new
    <3> QED OBVIOUS
  <2> HIDE DEF cmd, new, h
  <2> QED BY <1>1, <2>2, <2>4, <2>5, HandlerOnly
<1> QED BY <1>2, <1>3

LEMMA RequestServes ==
  ASSUME ApiInv, NEW c \in Clients, RequestChange(c)
  PROVE  ApiInv'
<1>1. /\ handler[c].step = "request" /\ Goto(c, "wait")
      /\ change' = [change EXCEPT ![c] = Requested(handler[c])]
      /\ UNCHANGED <<client, members, removed, joined>>
  BY Zenon DEF RequestChange, Requested
<1>2. handler' = [handler EXCEPT ![c] = Moved(handler[c], "wait")]
  BY <1>1, HandlerMoves
<1>3. /\ handler'[c] = Moved(handler[c], "wait") /\ change'[c] = Requested(handler[c])
      /\ DOMAIN handler' = Clients /\ DOMAIN change' = Clients
      /\ \A d \in Clients \ {c} : handler'[d] = handler[d] /\ change'[d] = change[d]
  BY <1>1, <1>2 DEF ApiInv, ApiShape
<1>4. ApiShape'
  BY <1>1, <1>3 DEF ApiInv, ApiShape, Moved
<1>5. Membership'
  BY <1>1 DEF ApiInv, Membership
<1>6. Serving(handler[c], change[c])
  BY DEF ApiInv
<1>7. Pending(change[c])'
  BY <1>1, <1>3, <1>6 DEF Pending, Requested, Serving
<1>8. /\ handler'[c].step = "wait" /\ handler'[c].cmd = handler[c].cmd
      /\ handler'[c].id = handler[c].id /\ handler'[c].view = handler[c].view
  BY <1>3 DEF Moved
<1>9. change'[c] = Requested(handler'[c])
  BY <1>3, <1>8 DEF Requested
<1>10. Serving(handler[c], change[c])'
  BY <1>1, <1>6, <1>8, <1>9 DEF Serving
<1> QED BY <1>1, <1>3, <1>4, <1>5, <1>7, <1>10, OneServed

LEMMA LoseServes ==
  ASSUME ApiInv, NEW c \in Clients, LoseChange(c)
  PROVE  ApiInv'
<1>1. /\ change' = [change EXCEPT ![c] = NoChange]
      /\ UNCHANGED <<client, handler, members, removed, joined>>
  BY DEF LoseChange
<1>2. /\ change'[c] = NoChange /\ DOMAIN change' = Clients
      /\ \A d \in Clients \ {c} : change'[d] = change[d]
  BY <1>1 DEF ApiInv, ApiShape
<1>3. ApiShape' /\ Membership'
  BY <1>1, <1>2 DEF ApiInv, ApiShape, Membership
<1>4. Pending(change[c])' /\ Serving(handler[c], change[c])'
  BY <1>1, <1>2, <1>3, OthersServed
<1> QED BY <1>1, <1>2, <1>3, <1>4, OneServed

(* What committing a change does to the membership.                          *)
Committed(ch) ==
  IF ~Accepts(ch) THEN UNCHANGED <<members, removed, joined>>
  ELSE IF ch.kind = "JOIN_NODE"
  THEN /\ members' = [id \in DOMAIN members \cup {ch.id} |->
                        IF id = ch.id THEN ch.address ELSE members[id]]
       /\ joined' = joined \cup {<<ch.id, ch.address>>}
       /\ UNCHANGED removed
  ELSE /\ members' = [id \in DOMAIN members \ {ch.id} |-> members[id]]
       /\ removed' = removed \cup {ch.id}
       /\ UNCHANGED joined

LEMMA CommittedKeeps ==
  ASSUME Membership, NEW ch, Pending(ch), Committed(ch)
  PROVE  Membership' /\ joined \subseteq joined' /\ removed \subseteq removed'
<1>1. CASE ~Accepts(ch)
  <2>1. UNCHANGED <<members, removed, joined>>
    BY <1>1, Zenon DEF Committed
  <2> QED BY <2>1 DEF Membership
<1>2. CASE Accepts(ch) /\ ch.kind = "JOIN_NODE"
  <2>1. /\ members' = [id \in DOMAIN members \cup {ch.id} |->
                         IF id = ch.id THEN ch.address ELSE members[id]]
        /\ joined' = joined \cup {<<ch.id, ch.address>>} /\ removed' = removed
    BY <1>2, Zenon DEF Committed
  <2>2. DOMAIN members' = DOMAIN members \cup {ch.id}
    BY <2>1
  <2>3. IsFiniteSet(DOMAIN members \cup {ch.id})
    BY FS_AddElement DEF Membership
  <2>4. ch.id \in Nat /\ ch.id \notin removed
    BY <1>2, Zenon DEF Pending, Accepts
  <2> QED BY <2>1, <2>2, <2>3, <2>4 DEF Membership
<1>3. CASE Accepts(ch) /\ ch.kind # "JOIN_NODE"
  <2>1. /\ members' = [id \in DOMAIN members \ {ch.id} |-> members[id]]
        /\ removed' = removed \cup {ch.id} /\ joined' = joined
    BY <1>3, Zenon DEF Committed
  <2>2. DOMAIN members' = DOMAIN members \ {ch.id}
    BY <2>1
  <2>3. IsFiniteSet(DOMAIN members \ {ch.id})
    BY FS_RemoveElement DEF Membership
  <2>4. DOMAIN members # {ch.id}
    BY <1>3, Zenon DEF Accepts
  <2> QED BY <2>1, <2>2, <2>3, <2>4 DEF Membership
<1> QED BY <1>1, <1>2, <1>3

LEMMA CommitServes ==
  ASSUME ApiInv, NEW c \in Clients, CommitChange(c)
  PROVE  ApiInv'
<1> DEFINE ch == change[c]
<1>1. /\ ch.kind # "none" /\ change' = [change EXCEPT ![c] = NoChange]
      /\ Outcome(c, Accepts(ch)) /\ client' = client
  BY DEF CommitChange
<1>2. Committed(ch)
  BY DEF CommitChange, Committed
<1>3. Pending(ch) /\ Serving(handler[c], ch)
  BY DEF ApiInv
<1>4. Membership' /\ joined \subseteq joined' /\ removed \subseteq removed'
  <2> HIDE DEF ch
  <2> QED BY <1>2, <1>3, CommittedKeeps DEF ApiInv
<1>5. /\ change'[c] = NoChange /\ DOMAIN change' = Clients
      /\ \A d \in Clients \ {c} : change'[d] = change[d]
  BY <1>1 DEF ApiInv, ApiShape
<1>6. Pending(change[c])'
  BY <1>5 DEF Pending, NoChange
<1>7. CASE handler[c].step # "wait"
  <2>1. handler' = handler
    BY <1>1, <1>7 DEF Outcome
  <2>2. ApiShape'
    BY <1>1, <1>5, <2>1 DEF ApiInv, ApiShape
  <2>3. Serving(handler[c], change[c])'
    BY <1>4, <1>5, <2>1, OthersServed
  <2> HIDE DEF ch
  <2> QED BY <1>4, <1>5, <1>6, <2>1, <2>2, <2>3, OneServed
<1>8. CASE handler[c].step = "wait" /\ Accepts(ch)
  <2>1. Respond(c, 200)
    BY <1>1, <1>8, Zenon DEF Outcome
  <2>2. handler' = [handler EXCEPT ![c] = Answered(handler[c], 200)]
    BY <2>1, HandlerMoves
  <2>3. /\ handler'[c] = Answered(handler[c], 200) /\ DOMAIN handler' = Clients
        /\ \A d \in Clients \ {c} : handler'[d] = handler[d]
    BY <2>2 DEF ApiInv, ApiShape
  <2>4. ApiShape'
    BY <1>1, <1>5, <2>3 DEF ApiInv, ApiShape, Answered
  <2>5. ch = Requested(handler[c])
    BY <1>1, <1>3, <1>8 DEF Serving
  <2>6. TookEffect(handler[c])'
    <3>1. handler'[c].cmd = handler[c].cmd /\ handler'[c].id = handler[c].id
      BY <2>3 DEF Answered
    <3>2. /\ ch.kind = handler[c].cmd.type /\ ch.id = handler[c].id
          /\ ch.kind = "JOIN_NODE" => ch.address = handler[c].cmd.id
      <4> HIDE DEF ch
      <4> QED BY <2>5 DEF Requested
    <3>3. ch.kind = "JOIN_NODE" => <<ch.id, ch.address>> \in joined'
      <4> HIDE DEF ch
      <4>1. ch.kind = "JOIN_NODE" => joined' = joined \cup {<<ch.id, ch.address>>}
        BY <1>2, <1>8, Zenon DEF Committed
      <4> QED BY <4>1
    <3>4. ch.kind = "REMOVE_NODE" => ch.id \in removed' /\ ch.id \notin DOMAIN members'
      <4> HIDE DEF ch
      <4>1. ch.kind = "REMOVE_NODE" => /\ members' = [id \in DOMAIN members \ {ch.id} |-> members[id]]
                                       /\ removed' = removed \cup {ch.id}
        BY <1>2, <1>8 DEF Committed
      <4> QED BY <4>1
    <3> HIDE DEF ch
    <3> QED BY <3>1, <3>2, <3>3, <3>4 DEF TookEffect
  <2>7. handler'[c].step = "answer" /\ handler'[c].code = 200
    BY <2>3 DEF Answered
  <2>8. Serving(handler[c], change[c])'
    BY <2>6, <2>7 DEF Serving
  <2> HIDE DEF ch
  <2> QED BY <1>4, <1>5, <1>6, <2>3, <2>4, <2>8, OneServed
<1>9. CASE handler[c].step = "wait" /\ ~Accepts(ch)
  <2>1. Goto(c, "refused")
    BY <1>1, <1>9, Zenon DEF Outcome
  <2>2. handler' = [handler EXCEPT ![c] = Moved(handler[c], "refused")]
    BY <2>1, HandlerMoves
  <2>3. /\ handler'[c] = Moved(handler[c], "refused") /\ DOMAIN handler' = Clients
        /\ \A d \in Clients \ {c} : handler'[d] = handler[d]
    BY <2>2 DEF ApiInv, ApiShape
  <2>4. ApiShape'
    BY <1>1, <1>5, <2>3 DEF ApiInv, ApiShape, Moved
  <2>5. handler'[c].step = "refused"
    BY <2>3 DEF Moved
  <2>6. Serving(handler[c], change[c])'
    BY <2>5 DEF Serving
  <2> HIDE DEF ch
  <2> QED BY <1>4, <1>5, <1>6, <2>3, <2>4, <2>6, OneServed
<1> QED BY <1>7, <1>8, <1>9

-----------------------------------------------------------------------------
LEMMA ApiInitially == ApiInit => ApiInv
<1> SUFFICES ASSUME ApiInit PROVE ApiInv
  OBVIOUS
<1>1. /\ DOMAIN client = Clients /\ DOMAIN handler = Clients /\ DOMAIN change = Clients
      /\ \A c \in Clients : handler[c] = NoHandler /\ change[c] = NoChange
  BY DEF ApiInit
<1>2. NoHandler = [step |-> NoHandler.step, raw |-> NoHandler.raw, cmd |-> NoHandler.cmd,
                   view |-> NoHandler.view, id |-> NoHandler.id, code |-> NoHandler.code]
  BY DEF NoHandler
<1>3. ApiShape
  BY <1>1, <1>2 DEF ApiShape
<1>4. Membership
  BY ApiAssumption DEF ApiInit, Membership
<1>5. Pending(NoChange)
  BY DEF Pending, NoChange
<1>6. Serving(NoHandler, NoChange)
  BY DEF Serving, NoHandler
<1> QED BY <1>1, <1>3, <1>4, <1>5, <1>6 DEF ApiInv

LEMMA ApiStep == ApiInv /\ [ApiNext]_apiVars => ApiInv'
<1> SUFFICES ASSUME ApiInv, [ApiNext]_apiVars PROVE ApiInv'
  OBVIOUS
<1>1. CASE UNCHANGED apiVars
  BY <1>1 DEF apiVars, ApiInv, ApiShape, Membership, Pending, Serving, TookEffect, Requested
<1>2. ASSUME NEW c \in Clients, NEW raw \in Inputs, Send(c, raw) PROVE ApiInv'
  BY <1>2, SendServes
<1>3. ASSUME NEW c \in Clients, HandlerStep(c) PROVE ApiInv'
  <2>1. CASE Crud(c)
    BY <2>1, CrudServes
  <2>2. CASE Propose(c) \/ Read(c)
    BY <2>2, ProposeServes
  <2>3. CASE GetMembership(c)
    BY <2>3, GetMembershipServes
  <2>4. CASE RequestChange(c)
    BY <2>4, RequestServes
  <2>5. CASE Refused(c)
    BY <2>5, FailServes
  <2> QED BY <1>3, <2>1, <2>2, <2>3, <2>4, <2>5 DEF HandlerStep
<1>4. ASSUME NEW c \in Clients, Quit(c) PROVE ApiInv'
  BY <1>4, QuitServes
<1>5. ASSUME NEW c \in Clients, Receive(c) \/ Deadline(c) PROVE ApiInv'
  BY <1>5, ReceiveServes
<1>6. ASSUME NEW c \in Clients, Fail(c) PROVE ApiInv'
  BY <1>6, FailServes
<1>7. ASSUME NEW c \in Clients, CommitChange(c) PROVE ApiInv'
  BY <1>7, CommitServes
<1>8. ASSUME NEW c \in Clients, LoseChange(c) PROVE ApiInv'
  BY <1>8, LoseServes
<1> QED BY <1>1, <1>2, <1>3, <1>4, <1>5, <1>6, <1>7, <1>8 DEF ApiNext

LEMMA ApiInvariant == ApiSpec => []ApiInv
  BY ApiInitially, ApiStep, PTL DEF ApiSpec

(* Crud answers "bad request" to a message that passed the client's          *)
(* validation only for what a pattern cannot see.                            *)
THEOREM ValidatedIsParsedCorrect == ApiSpec => []ValidatedIsParsed
<1>1. ApiInv => ValidatedIsParsed
  <2> SUFFICES ASSUME ApiInv, NEW c \in Clients, handler[c].step = "answer",
                      handler[c].code = 400, Validate(handler[c].raw)
               PROVE  \E k \in DOMAIN handler[c].raw : Cause(handler[c].raw, k)
    BY DEF ValidatedIsParsed, Cause
  <2>1. IsMessage(handler[c].raw) /\ ParseCommand(handler[c].raw) = BadRequest
    BY DEF ApiInv, Serving
  <2> QED BY <2>1, ValidatedParses
<1> QED BY <1>1, ApiInvariant, PTL

(* JOIN_NODE and REMOVE_NODE are answered 200 only if the change of this     *)
(* very call was made, whichever calls raced with it or were given up.       *)
THEOREM AnsweredChangesTookEffectCorrect == ApiSpec => []AnsweredChangesTookEffect
<1>1. ApiInv => AnsweredChangesTookEffect
  <2> SUFFICES ASSUME ApiInv, NEW c \in Clients, handler[c].step = "answer", handler[c].code = 200
               PROVE  TookEffect(handler[c])
    BY DEF AnsweredChangesTookEffect, TookEffect
  <2> QED BY DEF ApiInv, Serving
<1> QED BY <1>1, ApiInvariant, PTL

(* A call's step becomes "refused" when Dragonboat turns its change down,    *)
(* and in no other way.                                                      *)
LEMMA RefusedOnlyByCommit ==
  ASSUME ApiInv, [ApiNext]_apiVars, NEW c \in Clients,
         handler[c].step # "refused", handler'[c].step = "refused"
  PROVE  CommitChange(c) /\ handler[c].step = "wait" /\ ~Accepts(change[c])
<1>0. /\ DOMAIN handler = Clients /\ handler'[c] # handler[c] /\ handler'[c].step = "refused"
      /\ NoHandler.step # "refused"
  BY DEF ApiInv, ApiShape, NoHandler
<1>1. ASSUME NEW d \in Clients, Goto(d, "error") \/ Goto(d, "wait") PROVE FALSE
  <2>1. \E step \in {"error", "wait"} : handler' = [handler EXCEPT ![d] = Moved(handler[d], step)]
    BY <1>1, HandlerMoves
  <2>2. \A step : Moved(handler[d], step).step = step
    BY DEF Moved
  <2> QED BY <1>0, <2>1, <2>2
<1>2. ASSUME NEW d \in Clients, NEW code, Respond(d, code) PROVE FALSE
  <2>1. handler' = [handler EXCEPT ![d] = Answered(handler[d], code)]
    BY <1>2, HandlerMoves
  <2>2. Answered(handler[d], code).step = "answer"
    BY DEF Answered
  <2> QED BY <1>0, <2>1, <2>2
<1>3. ASSUME NEW d \in Clients, handler' = [handler EXCEPT ![d] = NoHandler] PROVE FALSE
  BY <1>0, <1>3
<1>4. ASSUME NEW d \in Clients, NEW raw \in Inputs, Send(d, raw) PROVE FALSE
  <2>1. handler' = [handler EXCEPT ![d] = [NoHandler EXCEPT !.step = "crud", !.raw = raw]]
    BY <1>4 DEF Send
  <2>2. [NoHandler EXCEPT !.step = "crud", !.raw = raw].step = "crud"
    BY DEF NoHandler
  <2> QED BY <1>0, <2>1, <2>2
<1>5. ASSUME NEW d \in Clients, Crud(d) PROVE FALSE
  <2> DEFINE cmd == ParseCommand(handler[d].raw)
  <2>1. CASE cmd = BadRequest
    <3>1. Respond(d, 400)
      BY <1>5, <2>1 DEF Crud
    <3> QED BY <1>2, <3>1
  <2>2. CASE cmd # BadRequest
    <3>1. handler' = [handler EXCEPT ![d].step = StepOf(cmd), ![d].cmd = cmd, ![d].raw = <<>>]
      BY <1>5, <2>2 DEF Crud
    <3>2. cmd.type \in Commandlist
      BY <2>2, ParseType
    <3> HIDE DEF cmd
    <3>3. StepOf(cmd) # "refused"
      BY <3>2, StepOfCommand
    <3>4. handler'[d].step = StepOf(cmd) /\ \A e \in Clients \ {d} : handler'[e] = handler[e]
      BY <3>1, <1>0 DEF ApiInv, ApiShape
    <3> QED BY <1>0, <3>3, <3>4
  <2> QED BY <2>1, <2>2
<1>6. ASSUME NEW d \in Clients, GetMembership(d) PROVE FALSE
  <2> DEFINE new == IF handler[d].cmd.type = "JOIN_NODE" THEN MaxIdPlusOne(members)
                    ELSE ValueOf[handler[d].cmd.id]
  <2>1. \/ Goto(d, "error")
        \/ handler' = [handler EXCEPT ![d].step = "request", ![d].view = members, ![d].id = new]
    BY <1>6, Zenon DEF GetMembership
  <2> HIDE DEF new
  <2>2. CASE handler' = [handler EXCEPT ![d].step = "request", ![d].view = members, ![d].id = new]
    <3>1. handler'[d].step = "request" /\ \A e \in Clients \ {d} : handler'[e] = handler[e]
      BY <2>2, <1>0 DEF ApiInv, ApiShape
    <3> QED BY <1>0, <3>1
  <2> QED BY <1>1, <2>1, <2>2
<1>7. ASSUME NEW d \in Clients, CommitChange(d) PROVE d = c /\ handler[d].step = "wait" /\ ~Accepts(change[d])
  <2>1. Outcome(d, Accepts(change[d]))
    BY <1>7 DEF CommitChange
  <2>2. handler[d].step = "wait"
    BY <1>0, <2>1, Zenon DEF Outcome
  <2>3. ~Accepts(change[d]) /\ Goto(d, "refused")
    BY <1>2, <2>1, <2>2, Zenon DEF Outcome
  <2>4. handler' = [handler EXCEPT ![d] = Moved(handler[d], "refused")]
    BY <2>3, HandlerMoves
  <2> QED BY <1>0, <2>2, <2>3, <2>4
<1>8. ASSUME UNCHANGED handler PROVE FALSE
  BY <1>0, <1>8
<1>9. ASSUME NEW d \in Clients, Fail(d) PROVE FALSE
  BY <1>1, <1>9 DEF Fail
<1>10. ASSUME NEW d \in Clients, Propose(d) \/ Read(d) \/ RequestChange(d) \/ Refused(d) PROVE FALSE
  BY <1>1, <1>2, <1>10 DEF Propose, Read, RequestChange, Refused
<1>11. ASSUME NEW d \in Clients, Quit(d) \/ LoseChange(d) PROVE FALSE
  BY <1>8, <1>11 DEF Quit, LoseChange
<1>12. ASSUME NEW d \in Clients, Receive(d) \/ Deadline(d) PROVE FALSE
  BY <1>3, <1>12 DEF Receive, Deadline
<1>13. CASE UNCHANGED apiVars
  BY <1>8, <1>13 DEF apiVars
<1> QED BY <1>4, <1>5, <1>6, <1>7, <1>9, <1>10, <1>11, <1>12, <1>13 DEF ApiNext, HandlerStep

(* A JOIN_NODE decided on the membership that Crud had read fails only for a *)
(* removed id or a member's address, since its id is one that no member of   *)
(* that membership has.                                                      *)
THEOREM JoinRefusedForCauseCorrect == ApiSpec => JoinRefusedForCause
<1>1. ASSUME ApiInv, [ApiNext]_apiVars, NEW c \in Clients,
             handler[c].cmd.type = "JOIN_NODE", handler[c].view = members,
             handler[c].step # "refused", handler'[c].step = "refused"
      PROVE  handler[c].id \in removed \/ handler[c].cmd.id \in Addresses(members)
  <2>1. /\ handler[c].step = "wait" /\ ~Accepts(change[c]) /\ change[c].kind # "none"
    BY <1>1, RefusedOnlyByCommit DEF CommitChange
  <2>2. handler[c].id \notin DOMAIN members /\ change[c] = Requested(handler[c])
    BY <1>1, <2>1 DEF ApiInv, Serving
  <2>3. /\ change[c].kind = "JOIN_NODE" /\ change[c].id = handler[c].id
        /\ change[c].address = handler[c].cmd.id
    BY <1>1, <2>2 DEF Requested
  <2>4. change[c].id \in DOMAIN members \cup removed \/ change[c].address \in Addresses(members)
    BY <2>1, <2>3, Zenon DEF Accepts
  <2> QED BY <2>2, <2>3, <2>4
<1>2. ApiInv /\ [ApiNext]_apiVars =>
        [\A c \in Clients :
           /\ handler[c].cmd.type = "JOIN_NODE" /\ handler[c].view = members
           /\ handler[c].step # "refused" /\ handler'[c].step = "refused"
           => handler[c].id \in removed \/ handler[c].cmd.id \in Addresses(members)]_apiVars
  BY <1>1
<1> QED BY <1>2, ApiInvariant, PTL DEF ApiSpec, JoinRefusedForCause
=============================================================================
