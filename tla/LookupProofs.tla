---------------------------- MODULE LookupProofs ----------------------------
(***************************************************************************)
(* A GET that runs beside Update and Sync: its state is well-typed for     *)
(* every batching, and for hosts that give Update at most one entry of     *)
(* each shard at a time it answers with a state of the document that was   *)
(* current during the call.                                                *)
(***************************************************************************)
EXTENDS Lookup, StoreProofs

(* The queue holds an entry at most once, so it is no longer than the log:   *)
(* the scan's index is bounded by it.                                        *)
LEMMA QueueBounded ==
  ASSUME IInv
  PROVE  Len(pending) \in 0..MaxLog
<1> DEFINE n == Len(pending)
           m == Len(log)
<1>1. /\ n \in Nat /\ m \in Nat /\ m <= MaxLog /\ MaxLog \in Nat
      /\ pending \in [1..n -> 1..m]
  BY BoundsAssumption DEF IInv, TypeOK
<1>2. \A j, k \in 1..n : j # k => pending[j] # pending[k]
  <2>1. \A k \in 1..n : \A j \in 1..(k - 1) : pending[j] # pending[k]
    <3> SUFFICES ASSUME NEW k \in 1..n, NEW j \in 1..(k - 1), pending[j] = pending[k]
                 PROVE  FALSE
      OBVIOUS
    <3>1. pending[j] < pending[k]
      BY DEF IInv, QueueOrdered
    <3>2. j \in 1..n
      BY <1>1
    <3>3. pending[j] \in Nat
      BY <1>1, <3>2
    <3> QED BY <3>1, <3>3
  <2>2. \A j, k \in 1..n : j < k => j \in 1..(k - 1)
    BY <1>1
  <2>3. \A j, k \in 1..n : j # k => j < k \/ k < j
    BY <1>1
  <2> QED BY <2>1, <2>2, <2>3
<1>3. pending \in Injection(1..n, 1..m)
  BY <1>1, <1>2 DEF Injection, IsInjective
<1>4. IsFiniteSet(1..m) /\ Cardinality(1..m) = m /\ Cardinality(1..n) = n
  <2> HIDE DEF n, m
  <2>1. IsFiniteSet(1..m) /\ Cardinality(1..m) = IF 1 > m THEN 0 ELSE m - 1 + 1
    BY <1>1, FS_Interval
  <2>2. Cardinality(1..n) = IF 1 > n THEN 0 ELSE n - 1 + 1
    BY <1>1, FS_Interval
  <2> QED BY <1>1, <2>1, <2>2
<1>5. Cardinality(1..n) <= Cardinality(1..m)
  BY <1>3, <1>4, FS_Injection
<1> QED BY <1>1, <1>4, <1>5

LEMMA LiveDocType ==
  ASSUME TypeOK, NEW p \in Parts, NEW id \in Ids
  PROVE  LiveDoc(p, id) \in DocOrNil
<1> DEFINE D == 1..Len(pending)
           S == DocPos(Queue, D, p, id)
           k == Newest(S)
<1>1. Len(pending) \in Nat /\ Bounded(D)
  BY QueueType DEF Bounded
<1>2. k = 0 \/ k \in S
  <2>1. Bounded(S)
    BY <1>1, PosBounded
  <2> HIDE DEF S
  <2> QED BY <2>1, NewestOf
<1>3. S \subseteq D
  BY DEF DocPos
<1>4. LiveDoc(p, id) = DocAfter(Queue, D, p, id, DiskDoc(p, id))
  BY <1>1, LiveIs
<1>5. DiskDoc(p, id) \in DocOrNil
  BY BlockTypes
<1>6. k \in S /\ Queue[k].type \in {"POST", "PUT"} => Queue[k].doc \in Documents
  BY <1>3, QueueType
<1> QED BY <1>2, <1>4, <1>5, <1>6 DEF DocAfter, DocOrNil

LiveDocTyped == TypeOK => \A p \in Parts, id \in Ids : LiveDoc(p, id) \in DocOrNil

LEMMA LiveDocTypedNext == LiveDocTyped'
<1>1. LiveDocTyped
  BY LiveDocType DEF LiveDocTyped
<1> QED BY <1>1, PTL

-----------------------------------------------------------------------------
(* The typed state of the GET. *)
Gets == [step : {"none", "scan", "state", "done", "error"}, key : GetKeys \cup {<<>>},
         i : 0..MaxLog, body : DocOrNil, created : BOOLEAN, seen : SUBSET DocOrNil]

GetType == get \in Gets /\ (get.step # "none" => get.key \in GetKeys)

LEMMA NoGetType == NoGet \in Gets /\ NoGet.step = "none"
  BY BoundsAssumption DEF NoGet, Gets, DocOrNil

LEMMA KeyType ==
  ASSUME NEW key \in GetKeys
  PROVE  key[1] \in Parts /\ key[2] \in Ids
  BY GetKeysAssumption

(* A step of the GET itself, apart from a panic, leaves the replica alone.   *)
LEMMA LookupIsQuiet ==
  ASSUME LookupStep, ~LookupPanic
  PROVE  UNCHANGED vars
  BY DEF LookupStep, LookupStart, LookupScan, LookupInState, LookupReturn

LEMMA LookupKeepsIInv ==
  ASSUME IInv, [LookupNext]_lookupVars
  PROVE  IInv'
<1>1. ASSUME LookupPanic PROVE IInv'
  <2>1. Stop /\ crashes' = crashes
    BY <1>1 DEF LookupPanic
  <2>2. TypeOK'
    BY <2>1, TypeStop DEF IInv, TypeOK
  <2> QED BY <2>1, <2>2, RecoveryStop
<1>2. ASSUME [Next]_vars PROVE IInv'
  BY <1>2, RecoveryStep
<1>3. LookupPanic \/ [Next]_vars
  BY LookupIsQuiet DEF LookupNext, lookupVars
<1> QED BY <1>1, <1>2, <1>3

LEMMA AnswerType ==
  ASSUME get \in Gets, NEW q, q.type \in {"POST", "PUT"} => q.doc \in DocOrNil
  PROVE  AnswerFromPending(q) \in Gets /\ AnswerFromPending(q).key = get.key
<1>1. CASE q.type \in {"DEL", "DELETE_PART"}
  <2>1. AnswerFromPending(q) = [get EXCEPT !.step = "done"]
    BY <1>1 DEF AnswerFromPending
  <2> QED BY <2>1 DEF Gets
<1>2. CASE q.type \in {"POST", "PUT"}
  <2>1. AnswerFromPending(q) = [get EXCEPT !.step = "done", !.body = q.doc]
    BY <1>2 DEF AnswerFromPending
  <2> QED BY <1>2, <2>1 DEF Gets
<1>3. CASE q.type \notin {"DEL", "DELETE_PART", "POST", "PUT"}
  <2>1. AnswerFromPending(q) = [get EXCEPT !.step = "state", !.created = TRUE]
    BY <1>3 DEF AnswerFromPending
  <2> QED BY <2>1 DEF Gets
<1> QED BY <1>1, <1>2, <1>3

LEMMA GetTypeStep ==
  ASSUME IInv, IInv', GetType, [LookupNext]_lookupVars
  PROVE  GetType'
<1>1. ASSUME NEW key \in GetKeys, LookupStart(key) PROVE GetType'
  <2>1. LiveDoc(key[1], key[2]) \in DocOrNil
    BY KeyType, LiveDocType DEF IInv
  <2>2. ScanFrom \in 0..MaxLog
    BY QueueBounded DEF ScanFrom
  <2>3. get' = [NoGet EXCEPT !.step = "scan", !.key = key, !.i = ScanFrom,
                             !.seen = {LiveDoc(key[1], key[2])}]
    BY <1>1 DEF LookupStart
  <2>4. get' = [step |-> "scan", key |-> key, i |-> ScanFrom, body |-> NoDoc, created |-> FALSE,
                seen |-> {LiveDoc(key[1], key[2])}]
    BY <2>3 DEF NoGet
  <2> QED BY <2>1, <2>2, <2>4 DEF GetType, Gets, DocOrNil
<1>2. ASSUME LookupScan PROVE GetType'
  <2>1. /\ get \in Gets /\ get.step = "scan" /\ get.i <= Len(pending) /\ get.key \in GetKeys
    BY <1>2 DEF LookupScan, GetType
  <2>2. CASE get.i = 0
    BY <1>2, <2>1, <2>2 DEF LookupScan, GetType, Gets
  <2>3. CASE get.i # 0
    <3>1. get.i \in 1..Len(pending)
      BY <2>1, <2>3, QueueType DEF IInv, Gets
    <3>2. Queued(get.i) = Queue[get.i]
      BY <3>1, QueueType DEF IInv, Queued
    <3>3. Queued(get.i).type \in {"POST", "PUT"} => Queued(get.i).doc \in DocOrNil
      BY <3>1, <3>2, QueueType DEF IInv, DocOrNil
    <3>4. AnswerFromPending(Queued(get.i)) \in Gets /\ AnswerFromPending(Queued(get.i)).key = get.key
      BY <2>1, <3>3, AnswerType
    <3>5. [get EXCEPT !.i = @ - 1] \in Gets /\ [get EXCEPT !.i = @ - 1].key = get.key
      BY <2>1, <2>3, BoundsAssumption DEF Gets
    <3>6. get' \in Gets /\ get'.key = get.key
      BY <1>2, <2>3, <3>4, <3>5 DEF LookupScan
    <3> QED BY <2>1, <3>6 DEF GetType
  <2> QED BY <2>2, <2>3
<1>3. ASSUME LookupInState PROVE GetType'
  <2>1. get \in Gets /\ get.key \in GetKeys
    BY <1>3 DEF LookupInState, GetType
  <2>2. FirstRune[get.key[1]] \in Shards =>
          GetDocumentString(block[FirstRune[get.key[1]]], get.key[1], get.key[2]) \in DocOrNil
    BY <2>1, KeyType DEF GetDocumentString, IInv, TypeOK, Blocks, DocOrNil
  <2>3. get' = IF FirstRune[get.key[1]] \notin Shards THEN [get EXCEPT !.step = "error"]
               ELSE [get EXCEPT !.step = "done",
                                !.body = GetDocumentString(block[FirstRune[get.key[1]]],
                                                           get.key[1], get.key[2])]
    BY <1>3 DEF LookupInState
  <2> QED BY <2>1, <2>2, <2>3 DEF GetType, Gets
<1>4. ASSUME get' = NoGet PROVE GetType'
  BY <1>4, NoGetType DEF GetType
<1>5. ASSUME get' = get PROVE GetType'
  BY <1>5 DEF GetType
<1>6. ASSUME NEW key \in {get.key}, get.step # "none",
             get' = [get EXCEPT !.seen = @ \cup {LiveDoc(key[1], key[2])'}]
      PROVE  GetType'
  <2>1. get \in Gets /\ key \in GetKeys /\ get.key \in GetKeys
    BY <1>6 DEF GetType
  <2>2. LiveDoc(key[1], key[2])' \in DocOrNil
    BY <2>1, KeyType, LiveDocTypedNext DEF LiveDocTyped, IInv
  <2> QED BY <1>6, <2>1, <2>2 DEF GetType, Gets
<1> QED BY <1>1, <1>2, <1>3, <1>4, <1>5, <1>6
        DEF LookupNext, LookupStep, LookupPanic, LookupReturn, Observe, lookupVars

LEMMA GetTypeInvariant == LookupSpec => [](IInv /\ GetType)
<1>1. LookupInit => IInv /\ GetType
  BY RecoveryInit, NoGetType DEF LookupInit, GetType
<1>2. (IInv /\ GetType) /\ [LookupNext]_lookupVars => (IInv /\ GetType)'
  BY LookupKeepsIInv, GetTypeStep
<1> QED BY <1>1, <1>2, PTL DEF LookupSpec

(* The state of a GET is well-typed, however it interleaves with Update and  *)
(* Sync: in particular the scan's index stays within the bound of the log,   *)
(* because the queue holds no entry twice.                                   *)
THEOREM LookupTypeCorrect == LookupSpec => []LookupTypeOK
<1>1. GetType => LookupTypeOK
  BY DEF GetType, Gets, LookupTypeOK
<1> QED BY <1>1, GetTypeInvariant, PTL

-----------------------------------------------------------------------------
(* What the scan has still to find: the document that the positions up to i  *)
(* make of the one on disk.                                                  *)
UpTo(i) == {j \in 1..Len(pending) : j <= i}

Rest(i, p, id) == DocAfter(Queue, UpTo(i), p, id, DiskDoc(p, id))

(* While a GET is served, the document's present state is among those seen,  *)
(* and so is what the rest of the scan will lead to.                         *)
GetIsCurrent(p, id) ==
  /\ LiveDoc(p, id) \in get.seen
  /\ get.step \in {"scan", "state"} => get.body = NoDoc
  /\ get.step = "scan" => Rest(get.i, p, id) \in get.seen
  /\ get.step = "state" /\ ~get.created => Rest(0, p, id) \in get.seen
  /\ get.step = "done" /\ ~get.created => get.body \in get.seen

RInv ==
  \A p \in Parts, id \in Ids : get.step # "none" /\ get.key = <<p, id>> => GetIsCurrent(p, id)

LEMMA RestIs ==
  ASSUME TypeOK, NEW p, NEW id
  PROVE  /\ Rest(0, p, id) = DiskDoc(p, id)
         /\ \A i \in Nat : i >= Len(pending) => Rest(i, p, id) = LiveDoc(p, id)
<1>1. Len(pending) \in Nat
  BY QueueType
<1>2. UpTo(0) = {} /\ \A i \in Nat : i >= Len(pending) => UpTo(i) = 1..Len(pending)
  BY <1>1 DEF UpTo
<1>3. Newest({}) = 0 /\ DocPos(Queue, {}, p, id) = {}
  BY DEF Newest, DocPos
<1>4. DocAfter(Queue, {}, p, id, DiskDoc(p, id)) = DiskDoc(p, id)
  BY <1>3 DEF DocAfter
<1> QED BY <1>1, <1>2, <1>4, LiveIs DEF Rest

RestIsNow ==
  TypeOK => \A p, id : /\ Rest(0, p, id) = DiskDoc(p, id)
                       /\ \A i \in Nat : i >= Len(pending) => Rest(i, p, id) = LiveDoc(p, id)

LEMMA RestIsNext == RestIsNow'
<1>1. RestIsNow
  BY RestIs DEF RestIsNow
<1> QED BY <1>1, PTL

(* A step of the replica changes what the scan will find to nothing but the  *)
(* document's present state.                                                 *)
LEMMA RestStep ==
  ASSUME IInv, BInv, IInv', [Next]_vars, ~Stop, NEW p \in Parts, NEW id \in Ids, NEW i \in Nat
  PROVE  Rest(i, p, id)' \in {Rest(i, p, id), LiveDoc(p, id), LiveDoc(p, id)'}
<1>0. TypeOK /\ TypeOK' /\ Len(pending) \in Nat
  BY QueueType DEF IInv
<1>1. Rest(i, p, id)' = DocAfter(Queue', UpTo(i)', p, id, DiskDoc(p, id)')
  BY DEF Rest
<1>2. ASSUME SameQueue, block' = block PROVE Rest(i, p, id)' = Rest(i, p, id)
  <2>1. Queue' = Queue /\ UpTo(i)' = UpTo(i) /\ DiskDoc(p, id)' = DiskDoc(p, id)
    BY <1>2, FrameQueue, FrameStores DEF UpTo, SameQueue
  <2> QED BY <1>1, <2>1 DEF Rest
<1>3. ASSUME NEW a \in 1..Len(log), pending' = Append(pending, a), UNCHANGED <<log, block>>
      PROVE  Rest(i, p, id)' \in {Rest(i, p, id), LiveDoc(p, id)'}
  <2>1. pending' = Append(pending, a) /\ UNCHANGED <<log, block>>
    BY <1>3
  <2>2. Len(pending') = Len(pending) + 1 /\ \A k \in 1..Len(pending) : Queue'[k] = Queue[k]
    BY <2>1, AppendQueue
  <2>3. CASE i <= Len(pending)
    <3> DEFINE D == UpTo(i)
               q == Queue'
               r == Queue
    <3>1. UpTo(i)' = D /\ D \subseteq 1..Len(pending) /\ \A k \in D : q[k] = r[k]
      BY <1>0, <2>2, <2>3 DEF UpTo
    <3>2. Bounded(D)
      BY <1>0, <3>1 DEF Bounded
    <3>3. DiskDoc(p, id)' = DiskDoc(p, id)
      BY <2>1 DEF DiskDoc, DiskPart
    <3> HIDE DEF D, q, r
    <3>4. DocPos(q, D, p, id) = DocPos(r, D, p, id) /\ \A j \in DocPos(q, D, p, id) : q[j] = r[j]
      BY <3>1 DEF DocPos
    <3>5. DocAfter(q, D, p, id, DiskDoc(p, id)) = DocAfter(r, D, p, id, DiskDoc(p, id))
      BY <3>2, <3>4, DocAfterAgree
    <3> QED BY <1>1, <3>1, <3>3, <3>5 DEF D, q, r, Rest
  <2>4. CASE i > Len(pending)
    BY <1>0, <2>2, <2>4, RestIsNext DEF RestIsNow
  <2> QED BY <1>0, <2>3, <2>4
<1>4. ASSUME NEW c \in Shards, TxCommit(c)
      PROVE  Rest(i, p, id)' \in {Rest(i, p, id), LiveDoc(p, id)}
  <2>1. SameQueue /\ block' = [block EXCEPT ![c] = tx[c].block] /\ block \in [Shards -> Blocks]
    BY <1>0, <1>4 DEF TxCommit, hostVars, SameQueue, TypeOK
  <2>2. Queue' = Queue /\ UpTo(i)' = UpTo(i)
    BY <2>1, FrameQueue DEF SameQueue, UpTo
  <2>3. DiskDoc(p, id)' \in {DiskDoc(p, id), LiveDoc(p, id)}
    <3>1. CASE FirstRune[p] = c
      BY <1>4, <3>1, CommitStores
    <3>2. CASE FirstRune[p] # c
      <4>1. FirstRune[p] \in Shards => block'[FirstRune[p]] = block[FirstRune[p]]
        BY <2>1, <3>2
      <4>2. DiskDoc(p, id)' = DiskDoc(p, id)
        BY <4>1 DEF DiskDoc, DiskPart
      <4> QED BY <4>2
    <3> QED BY <3>1, <3>2
  <2> QED BY <1>1, <2>2, <2>3 DEF Rest, DocAfter
<1>5. ASSUME ClearPendingQueue PROVE Rest(i, p, id)' = LiveDoc(p, id)'
  <2>1. Len(pending') = 0
    BY <1>5 DEF ClearPendingQueue
  <2> QED BY <1>0, <2>1, RestIsNext DEF RestIsNow
<1> QED BY <1>2, <1>3, <1>4, <1>5, QueueSteps

LEMMA LookupKeepsSInv ==
  ASSUME MaxShardBatch <= 1, IInv, SInv, IInv', [LookupNext]_lookupVars
  PROVE  SInv'
<1>1. ASSUME LookupPanic PROVE SInv'
  <2>1. BInv' /\ phase' # "update"
    BY <1>1, StoreEmptied DEF LookupPanic, Stop, diskVars, SInv, BInv
  <2> QED BY <2>1, NothingAtHandNext DEF NothingAtHandNow, SInv, BInv
<1>2. ASSUME [Next]_vars PROVE SInv'
  BY <1>2, StoreStep
<1>3. LookupPanic \/ [Next]_vars
  BY LookupIsQuiet DEF LookupNext, lookupVars
<1> QED BY <1>1, <1>2, <1>3

(* One step of the scan: the newest position either answers or drops out.    *)
LEMMA RestDown ==
  ASSUME TypeOK, NEW p \in Parts, NEW id \in Ids, NEW i \in 1..Len(pending)
  PROVE  Rest(i, p, id) =
           IF Matches(Queued(i), [part |-> p, id |-> id])
           THEN IF Queued(i).type \in {"POST", "PUT"} THEN Queued(i).doc ELSE NoDoc
           ELSE Rest(i - 1, p, id)
<1> DEFINE D == UpTo(i - 1)
           q == Queue
           base == DiskDoc(p, id)
<1>1. Len(pending) \in Nat
  BY QueueType
<1>2. UpTo(i) = D \cup {i} /\ (\A j \in D : j < i) /\ D \cup {i} \subseteq 1..Len(pending)
  BY <1>1 DEF UpTo
<1>3. Bounded(D \cup {i})
  BY <1>1, <1>2 DEF Bounded
<1>4. q[i] = Queued(i)
  BY DEF Queue, Queued
<1>5. Rest(i, p, id) = DocAfter(q, D \cup {i}, p, id, base) /\ Rest(i - 1, p, id) = DocAfter(q, D, p, id, base)
  BY <1>2 DEF Rest
<1> HIDE DEF D, q, base
<1>6. DocAfter(q, D \cup {i}, p, id, base) =
           IF q[i].part = p /\ (q[i].type \in PartTypes \/ q[i].id = id)
           THEN IF q[i].type \in {"POST", "PUT"} THEN q[i].doc ELSE NoDoc
           ELSE DocAfter(q, D, p, id, base)
  BY <1>2, <1>3, DocAfterAdd
<1>7. Matches(q[i], [part |-> p, id |-> id]) <=> q[i].part = p /\ (q[i].type \in PartTypes \/ q[i].id = id)
  BY DEF Matches, IsPart, PartTypes
<1> QED BY <1>4, <1>5, <1>6, <1>7

(* The steps of the GET. *)
LEMMA CurrentStart ==
  ASSUME IInv, NEW key \in GetKeys, LookupStart(key)
  PROVE  RInv'
<1> SUFFICES ASSUME NEW p \in Parts, NEW id \in Ids, get'.key = <<p, id>>
             PROVE  GetIsCurrent(p, id)'
  BY DEF RInv
<1>1. get' = [step |-> "scan", key |-> key, i |-> Len(pending), body |-> NoDoc, created |-> FALSE,
              seen |-> {LiveDoc(key[1], key[2])}]
  BY DEF LookupStart, NoGet, ScanFrom
<1>2. key[1] = p /\ key[2] = id
  BY <1>1
<1>3. UNCHANGED vars
  BY DEF LookupStart
<1>4. LiveDoc(p, id)' = LiveDoc(p, id) /\ \A i : Rest(i, p, id)' = Rest(i, p, id)
  BY <1>3 DEF vars, LiveDoc, Rest, Queue, Queued, UpTo, DiskDoc, DiskPart
<1>5. Rest(Len(pending), p, id) = LiveDoc(p, id)
  BY RestIs, QueueType DEF IInv
<1>6. LiveDoc(p, id) \in get'.seen /\ get'.step = "scan" /\ get'.body = NoDoc /\ get'.i = Len(pending)
  BY <1>1, <1>2
<1> QED BY <1>4, <1>5, <1>6 DEF GetIsCurrent

LEMMA CurrentScan ==
  ASSUME IInv, GetType, RInv, LookupScan
  PROVE  RInv'
<1> SUFFICES ASSUME NEW p \in Parts, NEW id \in Ids, get'.key = <<p, id>>
             PROVE  GetIsCurrent(p, id)'
  BY DEF RInv
<1>0. get \in Gets /\ get.step = "scan" /\ get.i <= Len(pending) /\ Len(pending) \in Nat /\ TypeOK
  BY QueueType DEF LookupScan, GetType, IInv
<1>1. UNCHANGED vars
  BY DEF LookupScan
<1>2. LiveDoc(p, id)' = LiveDoc(p, id) /\ \A i : Rest(i, p, id)' = Rest(i, p, id)
  BY <1>1 DEF vars, LiveDoc, Rest, Queue, Queued, UpTo, DiskDoc, DiskPart
<1>3. get'.key = get.key /\ get'.seen = get.seen
  BY <1>0 DEF LookupScan, AnswerFromPending, Gets
<1>4. GetIsCurrent(p, id)
  BY <1>0, <1>3 DEF RInv
<1>5. CASE get.i = 0
  <2>1. get' = [get EXCEPT !.step = "state"]
    BY <1>5 DEF LookupScan
  <2>2. get'.step = "state" /\ get'.body = get.body
    BY <1>0, <2>1 DEF Gets
  <2> QED BY <1>0, <1>2, <1>3, <1>4, <1>5, <2>2 DEF GetIsCurrent
<1>6. CASE get.i # 0
  <2> DEFINE hit == Matches(Queued(get.i), [part |-> p, id |-> id])
             q == Queued(get.i)
  <2>1. get.i \in 1..Len(pending)
    BY <1>0, <1>6 DEF Gets
  <2>2. get.key[1] = p /\ get.key[2] = id
    BY <1>3
  <2>3. Rest(get.i, p, id) = IF hit THEN IF q.type \in {"POST", "PUT"} THEN q.doc ELSE NoDoc
                             ELSE Rest(get.i - 1, p, id)
    BY <1>0, <2>1, RestDown
  <2>4. get' = IF hit THEN AnswerFromPending(q) ELSE [get EXCEPT !.i = @ - 1]
    BY <1>6, <2>2 DEF LookupScan
  <2> HIDE DEF hit, q
  <2>5. CASE ~hit
    <3>1. get'.step = "scan" /\ get'.body = get.body /\ get'.i = get.i - 1
      BY <1>0, <2>4, <2>5 DEF Gets
    <3> QED BY <1>0, <1>2, <1>3, <1>4, <2>3, <2>5, <3>1 DEF GetIsCurrent
  <2>6. CASE hit /\ q.type \in {"DEL", "DELETE_PART"}
    <3>1. get'.step = "done" /\ get'.body = get.body
      BY <1>0, <2>4, <2>6 DEF Gets, AnswerFromPending
    <3> QED BY <1>0, <1>2, <1>3, <1>4, <2>3, <2>6, <3>1 DEF GetIsCurrent
  <2>7. CASE hit /\ q.type \in {"POST", "PUT"}
    <3>1. get' = [get EXCEPT !.step = "done", !.body = q.doc]
      BY <2>4, <2>7 DEF AnswerFromPending
    <3>2. get'.step = "done" /\ get'.body = q.doc
      BY <1>0, <3>1 DEF Gets
    <3> QED BY <1>0, <1>2, <1>3, <1>4, <2>3, <2>7, <3>2 DEF GetIsCurrent
  <2>8. CASE hit /\ q.type \notin {"DEL", "DELETE_PART", "POST", "PUT"}
    <3>1. get' = [get EXCEPT !.step = "state", !.created = TRUE]
      BY <2>4, <2>8 DEF AnswerFromPending
    <3>2. get'.step = "state" /\ get'.created /\ get'.body = get.body
      BY <1>0, <3>1 DEF Gets
    <3> QED BY <1>0, <1>2, <1>3, <1>4, <3>2 DEF GetIsCurrent
  <2> QED BY <2>5, <2>6, <2>7, <2>8
<1> QED BY <1>5, <1>6

LEMMA CurrentInState ==
  ASSUME IInv, GetType, RInv, LookupInState
  PROVE  RInv'
<1> SUFFICES ASSUME NEW p \in Parts, NEW id \in Ids, get'.key = <<p, id>>
             PROVE  GetIsCurrent(p, id)'
  BY DEF RInv
<1>0. get \in Gets /\ get.step = "state" /\ TypeOK
  BY DEF LookupInState, GetType, IInv
<1>1. UNCHANGED vars
  BY DEF LookupInState
<1>2. LiveDoc(p, id)' = LiveDoc(p, id)
  BY <1>1 DEF vars, LiveDoc, Queued, DiskDoc, DiskPart
<1>3. get'.key = get.key /\ get'.seen = get.seen /\ get'.created = get.created
  BY <1>0 DEF LookupInState, Gets
<1>4. GetIsCurrent(p, id)
  BY <1>0, <1>3 DEF RInv
<1>5. get.key[1] = p /\ get.key[2] = id
  BY <1>3
<1>6. CASE FirstRune[p] \notin Shards
  <2>1. get'.step = "error"
    BY <1>0, <1>5, <1>6 DEF LookupInState, Gets
  <2> QED BY <1>2, <1>3, <1>4, <2>1 DEF GetIsCurrent
<1>7. CASE FirstRune[p] \in Shards
  <2>1. get'.step = "done" /\ get'.body = GetDocumentString(block[FirstRune[p]], p, id)
    BY <1>0, <1>5, <1>7 DEF LookupInState, Gets
  <2>2. GetDocumentString(block[FirstRune[p]], p, id) = DiskDoc(p, id)
    BY <1>7 DEF GetDocumentString, DiskDoc, DiskPart
  <2>3. Rest(0, p, id) = DiskDoc(p, id)
    BY <1>0, RestIs
  <2> QED BY <1>0, <1>2, <1>3, <1>4, <2>1, <2>2, <2>3 DEF GetIsCurrent
<1> QED BY <1>6, <1>7

(* A step of the replica that the GET observes. *)
LEMMA CurrentObserve ==
  ASSUME IInv, SInv, IInv', GetType, RInv, [Next]_vars, up', get.step # "none",
         NEW key \in {get.key}, get' = [get EXCEPT !.seen = @ \cup {LiveDoc(key[1], key[2])'}]
  PROVE  RInv'
<1> SUFFICES ASSUME NEW p \in Parts, NEW id \in Ids, get'.key = <<p, id>>
             PROVE  GetIsCurrent(p, id)'
  BY DEF RInv
<1>0. get \in Gets /\ get.i \in Nat /\ 0 \in Nat
  BY BoundsAssumption DEF GetType, Gets
<1>1. /\ get'.step = get.step /\ get'.key = get.key /\ get'.i = get.i
      /\ get'.body = get.body /\ get'.created = get.created
      /\ get'.seen = get.seen \cup {LiveDoc(key[1], key[2])'}
  BY <1>0 DEF Gets
<1>2. key[1] = p /\ key[2] = id
  BY <1>1
<1>3. get'.seen = get.seen \cup {LiveDoc(p, id)'}
  BY <1>1, <1>2
<1>4. GetIsCurrent(p, id)
  BY <1>1 DEF RInv
<1>5. ~Stop
  BY DEF Stop
<1>6. Rest(get.i, p, id)' \in {Rest(get.i, p, id), LiveDoc(p, id), LiveDoc(p, id)'}
  BY <1>0, <1>1, <1>5, RestStep DEF SInv, BInv
<1>7. Rest(0, p, id)' \in {Rest(0, p, id), LiveDoc(p, id), LiveDoc(p, id)'}
  BY <1>0, <1>5, RestStep DEF SInv, BInv
<1> QED BY <1>1, <1>3, <1>4, <1>6, <1>7 DEF GetIsCurrent

LEMMA CurrentStep ==
  ASSUME IInv, SInv, IInv', GetType, RInv, [LookupNext]_lookupVars
  PROVE  RInv'
<1>1. ASSUME get'.step = "none" PROVE RInv'
  BY <1>1 DEF RInv
<1>2. ASSUME UNCHANGED lookupVars PROVE RInv'
  <2>1. get' = get /\ UNCHANGED vars
    BY <1>2 DEF lookupVars
  <2>2. \A p, id : LiveDoc(p, id)' = LiveDoc(p, id) /\ \A i : Rest(i, p, id)' = Rest(i, p, id)
    BY <2>1 DEF vars, LiveDoc, Rest, Queue, Queued, UpTo, DiskDoc, DiskPart
  <2> QED BY <2>1, <2>2 DEF RInv, GetIsCurrent
<1>3. ASSUME Next, Observe PROVE RInv'
  <2>1. CASE get.step = "none" /\ get' = get
    BY <1>1, <2>1
  <2>2. CASE get' = NoGet
    BY <1>1, <2>2, NoGetType
  <2>3. ASSUME get.step # "none", up', NEW key \in {get.key},
               get' = [get EXCEPT !.seen = @ \cup {LiveDoc(key[1], key[2])'}]
        PROVE  RInv'
    BY <1>3, <2>3, CurrentObserve
  <2> QED BY <1>3, <2>1, <2>2, <2>3 DEF Observe
<1>4. ASSUME LookupPanic \/ LookupReturn PROVE RInv'
  <2>1. get' = NoGet
    BY <1>4 DEF LookupPanic, LookupReturn
  <2> QED BY <1>1, <2>1, NoGetType
<1> QED BY <1>2, <1>3, <1>4, CurrentStart, CurrentScan, CurrentInState DEF LookupNext, LookupStep

(* For hosts that give Update at most one entry of each shard at a time, a   *)
(* GET answers with a state that the document had between the call and the   *)
(* answer, wherever its scan of s.pending and its View transaction fall      *)
(* between the steps of Update and Sync, unless the scan stopped at a        *)
(* pending CREATE_PART.                                                      *)
THEOREM ReadIsCurrentCorrect ==
  ASSUME MaxShardBatch <= 1
  PROVE  LookupSpec => []ReadIsCurrent
<1> DEFINE Inv == IInv /\ SInv /\ GetType /\ RInv
<1>1. LookupInit => Inv
  <2> SUFFICES ASSUME LookupInit PROVE Inv
    OBVIOUS
  <2>1. IInv /\ SInv
    BY RecoveryInit, StoreInit DEF LookupInit
  <2>2. GetType /\ get.step = "none"
    BY NoGetType DEF LookupInit, GetType
  <2> QED BY <2>1, <2>2 DEF RInv
<1>2. Inv /\ [LookupNext]_lookupVars => Inv'
  <2> SUFFICES ASSUME Inv, [LookupNext]_lookupVars PROVE Inv'
    OBVIOUS
  <2>1. IInv'
    BY LookupKeepsIInv
  <2>2. SInv'
    BY <2>1, LookupKeepsSInv
  <2>3. GetType' /\ RInv'
    BY <2>1, GetTypeStep, CurrentStep
  <2> QED BY <2>1, <2>2, <2>3
<1>3. Inv => ReadIsCurrent
  <2> SUFFICES ASSUME Inv, get.step = "done", ~get.created PROVE get.body \in get.seen
    BY DEF ReadIsCurrent
  <2>1. get.key \in Parts \X Ids
    BY GetKeysAssumption DEF GetType
  <2>2. PICK p \in Parts, id \in Ids : get.key = <<p, id>>
    BY <2>1
  <2> QED BY <2>2 DEF RInv, GetIsCurrent
<1> HIDE DEF Inv
<1> QED BY <1>1, <1>2, <1>3, PTL DEF LookupSpec
=============================================================================
