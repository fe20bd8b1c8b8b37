------------------------------- MODULE Lookup -------------------------------
(***************************************************************************)
(* A GET served by Lookup (src/statemachine/statemachine.go) while Update  *)
(* and Sync run: the host lets Lookup run concurrently with both, and      *)
(* neither s.pending nor the pair of queue and block is guarded by a lock. *)
(*                                                                         *)
(* The scan of findCommandInPending is one step per position, because each *)
(* iteration reads the field s.pending again.  A read that the race        *)
(* detector would flag sees the slice before or after a concurrent append  *)
(* or clearPendingQueue; a position beyond the new slice panics, and no    *)
(* caller recovers.                                                        *)
(***************************************************************************)
EXTENDS ByStateMachine

CONSTANT GetKeys  \* the <<part, id>> pairs that GETs ask for

ASSUME GetKeysAssumption == GetKeys \subseteq Parts \X Ids

VARIABLE get      \* the GET being served

lookupVars == <<vars, get>>

(* i is the loop's index; body the document to answer with, NoDoc for        *)
(* NotFound; created tells that the scan stopped at a CREATE_PART; seen      *)
(* gathers what the document has been since the call (history).              *)
NoGet == [step |-> "none", key |-> <<>>, i |-> 0, body |-> NoDoc, created |-> FALSE, seen |-> {}]

LookupTypeOK ==
  /\ get.step \in {"none", "scan", "state", "done", "error"}
  /\ get.step # "none" => get.key \in GetKeys
  /\ get.i \in 0..MaxLog
  /\ get.body \in DocOrNil
  /\ get.created \in BOOLEAN
  /\ get.seen \subseteq DocOrNil

LookupInit == Init /\ get = NoGet

PastTheEnd == Len(pending) + 1  \* mutant: off by one

ScanFrom == Len(pending)

(* Lookup parses the GET and starts to scan at the end of the queue. *)
LookupStart(key) ==
  /\ up /\ get.step = "none"
  /\ get' = [NoGet EXCEPT !.step = "scan", !.key = key, !.i = ScanFrom,
                          !.seen = {LiveDoc(key[1], key[2])}]
  /\ UNCHANGED vars

(* LookupGetRequest on the pending command that the scan stopped at. *)
AnswerOverlooksDel(q) ==  \* mutant: a pending DEL does not answer the GET
  CASE q.type = "DELETE_PART"     -> [get EXCEPT !.step = "done"]
    [] q.type \in {"POST", "PUT"} -> [get EXCEPT !.step = "done", !.body = q.doc]
    [] OTHER -> [get EXCEPT !.step = "state", !.created = (q.type = "CREATE_PART")]

AnswerFromPending(q) ==
  CASE q.type \in {"DEL", "DELETE_PART"} -> [get EXCEPT !.step = "done"]
    [] q.type \in {"POST", "PUT"}        -> [get EXCEPT !.step = "done", !.body = q.doc]
    [] OTHER                             -> [get EXCEPT !.step = "state", !.created = TRUE]

LookupScan ==
  /\ get.step = "scan"
  /\ get.i <= Len(pending)
  /\ get' = IF get.i = 0 THEN [get EXCEPT !.step = "state"]
            ELSE IF Matches(Queued(get.i), [part |-> get.key[1], id |-> get.key[2]])
                 THEN AnswerFromPending(Queued(get.i))
                 ELSE [get EXCEPT !.i = @ - 1]
  /\ UNCHANGED vars

(* The queue was cleared under the scan: index out of range. *)
LookupPanic ==
  /\ get.step = "scan"
  /\ get.i > Len(pending)
  /\ Stop
  /\ get' = NoGet
  /\ UNCHANGED crashes

(* LookupGetRequestInState: one View transaction of the shard's block. *)
LookupInState ==
  /\ get.step = "state"
  /\ get' = IF FirstRune[get.key[1]] \notin Shards THEN [get EXCEPT !.step = "error"]
            ELSE [get EXCEPT !.step = "done",
                             !.body = GetDocumentString(block[FirstRune[get.key[1]]],
                                                        get.key[1], get.key[2])]
  /\ UNCHANGED vars

LookupReturn ==
  /\ get.step \in {"done", "error"}
  /\ get' = NoGet
  /\ UNCHANGED vars

LookupStep ==
  \/ \E key \in GetKeys : LookupStart(key)
  \/ LookupScan
  \/ LookupPanic
  \/ LookupInState
  \/ LookupReturn

(* A step of the rest of the replica, which the GET observes and, when the   *)
(* process stops, does not survive.                                          *)
Observe ==
  \/ get.step = "none" /\ get' = get
  \/ get.step # "none" /\ ~up' /\ get' = NoGet
  \/ /\ get.step # "none" /\ up'
     /\ \E key \in {get.key} :
          get' = [get EXCEPT !.seen = @ \cup {LiveDoc(key[1], key[2])'}]

LookupNext == (Next /\ Observe) \/ LookupStep

LookupSpec == LookupInit /\ [][LookupNext]_lookupVars

-----------------------------------------------------------------------------
(* A GET answers with a document state that was current at some moment       *)
(* between its call and its answer, however it interleaves with Update and   *)
(* Sync, unless the scan stopped at a pending CREATE_PART.                   *)
ReadIsCurrent ==
  get.step = "done" /\ ~get.created => get.body \in get.seen
=============================================================================
