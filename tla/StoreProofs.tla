---------------------------- MODULE StoreProofs ----------------------------
(***************************************************************************)
(* For hosts that give Update at most one entry of each shard at a time:   *)
(* Sync never meets a nil bucket, Update decides as if the queue had been  *)
(* flushed, and the state machine implements DocStore.                     *)
(*                                                                         *)
(* The argument is about the queue as a list of commands: what a part and  *)
(* a document are after some of its positions were applied to what is on   *)
(* disk.                                                                   *)
(***************************************************************************)
EXTENDS ByStateMachineProofs, FiniteSetTheorems

PartTypes == {"CREATE_PART", "DELETE_PART"}

DocTypes == {"POST", "PUT", "DEL"}

(* The positions in D of a queue q of commands that concern part p, and      *)
(* those that concern its document id.                                       *)
PartPos(q, D, p) == {j \in D : q[j].part = p /\ q[j].type \in PartTypes}

DocPos(q, D, p, id) == {j \in D : q[j].part = p /\ (q[j].type \in PartTypes \/ q[j].id = id)}

(* The newest command on the existence of part p, and its document id, once  *)
(* the positions in D were applied to base.                                  *)
PartAfter(q, D, p, base) ==
  LET k == Newest(PartPos(q, D, p))
  IN  IF k = 0 THEN base ELSE q[k].type

DocAfter(q, D, p, id, base) ==
  LET k == Newest(DocPos(q, D, p, id))
  IN  IF k = 0 THEN base ELSE IF q[k].type \in {"POST", "PUT"} THEN q[k].doc ELSE NoDoc

Before(D, k) == {j \in D : j < k}

(* A command at position k finds its part, or for a CREATE_PART misses it. *)
LegalAt(q, D, k, base) ==
  q[k].type = "CREATE_PART" <=> PartAfter(q, Before(D, k), q[k].part, base) # "CREATE_PART"

-----------------------------------------------------------------------------
(* A set of queue positions. *)
Bounded(D) == \E n \in Nat : D \subseteq 1..n

LEMMA NewestOf ==
  ASSUME NEW S, Bounded(S)
  PROVE  /\ S = {} => Newest(S) = 0
         /\ S # {} => Newest(S) \in S /\ \A j \in S : j <= Newest(S)
         /\ S \subseteq Nat \ {0}
<1>1. PICK n \in Nat : S \in SUBSET (1..n)
  BY DEF Bounded
<1>2. S \subseteq Nat \ {0}
  BY <1>1
<1> QED BY <1>1, <1>2, NewestProperties

LEMMA BoundedSubset ==
  ASSUME NEW S, Bounded(S), NEW T, T \subseteq S
  PROVE  Bounded(T)
  BY DEF Bounded

LEMMA PosBounded ==
  ASSUME NEW q, NEW D, Bounded(D), NEW p, NEW id
  PROVE  Bounded(PartPos(q, D, p)) /\ Bounded(DocPos(q, D, p, id))
<1>1. PartPos(q, D, p) \subseteq D /\ DocPos(q, D, p, id) \subseteq D
  BY DEF PartPos, DocPos
<1> QED BY <1>1, BoundedSubset

(* The greatest element of a set of positions is its newest. *)
LEMMA NewestIs ==
  ASSUME NEW S, Bounded(S), NEW k \in S, \A j \in S : j <= k
  PROVE  Newest(S) = k /\ k # 0
<1>1. Newest(S) \in S /\ \A j \in S : j <= Newest(S)
  BY NewestOf
<1>2. PICK m \in S : m = Newest(S)
  BY <1>1
<1>3. m <= k /\ k <= m /\ m \in Nat /\ k \in Nat /\ k # 0
  BY <1>1, <1>2, NewestOf
<1> QED BY <1>2, <1>3

(* The outcome depends on the commands at the positions that count. *)
LEMMA AfterAgree ==
  ASSUME NEW q, NEW r, NEW D, NEW E, NEW p, NEW base, Bounded(D),
         PartPos(q, D, p) = PartPos(r, E, p),
         \A j \in PartPos(q, D, p) : q[j] = r[j]
  PROVE  PartAfter(q, D, p, base) = PartAfter(r, E, p, base)
<1>1. Newest(PartPos(q, D, p)) = 0 \/ Newest(PartPos(q, D, p)) \in PartPos(q, D, p)
  BY PosBounded, NewestOf
<1> QED BY <1>1 DEF PartAfter

LEMMA DocAfterAgree ==
  ASSUME NEW q, NEW r, NEW D, NEW E, NEW p, NEW id, NEW base, Bounded(D),
         DocPos(q, D, p, id) = DocPos(r, E, p, id),
         \A j \in DocPos(q, D, p, id) : q[j] = r[j]
  PROVE  DocAfter(q, D, p, id, base) = DocAfter(r, E, p, id, base)
<1>1. Newest(DocPos(q, D, p, id)) = 0 \/ Newest(DocPos(q, D, p, id)) \in DocPos(q, D, p, id)
  BY PosBounded, NewestOf
<1> QED BY <1>1 DEF DocAfter

(* One more position, after all the others. *)
LEMMA AfterAdd ==
  ASSUME NEW q, NEW D, NEW k, Bounded(D \cup {k}), \A j \in D : j < k, NEW p, NEW base
  PROVE  PartAfter(q, D \cup {k}, p, base) =
           IF q[k].part = p /\ q[k].type \in PartTypes THEN q[k].type
           ELSE PartAfter(q, D, p, base)
<1> DEFINE S == PartPos(q, D \cup {k}, p)
<1>0. Bounded(S) /\ \A j \in D \cup {k} : j <= k
  BY PosBounded, NewestOf
<1>1. CASE q[k].part = p /\ q[k].type \in PartTypes
  <2>1. k \in S /\ \A j \in S : j <= k
    BY <1>0, <1>1 DEF PartPos
  <2>2. Newest(S) = k /\ k # 0
    <3> HIDE DEF S
    <3> QED BY <1>0, <2>1, NewestIs
  <2> QED BY <1>1, <2>2 DEF PartAfter
<1>2. CASE ~(q[k].part = p /\ q[k].type \in PartTypes)
  <2>1. S = PartPos(q, D, p)
    BY <1>2 DEF PartPos
  <2> QED BY <1>2, <2>1 DEF PartAfter
<1> QED BY <1>1, <1>2

LEMMA DocAfterAdd ==
  ASSUME NEW q, NEW D, NEW k, Bounded(D \cup {k}), \A j \in D : j < k, NEW p, NEW id, NEW base
  PROVE  DocAfter(q, D \cup {k}, p, id, base) =
           IF q[k].part = p /\ (q[k].type \in PartTypes \/ q[k].id = id)
           THEN IF q[k].type \in {"POST", "PUT"} THEN q[k].doc ELSE NoDoc
           ELSE DocAfter(q, D, p, id, base)
<1> DEFINE S == DocPos(q, D \cup {k}, p, id)
           counts == q[k].part = p /\ (q[k].type \in PartTypes \/ q[k].id = id)
<1>0. Bounded(S) /\ \A j \in D \cup {k} : j <= k
  BY PosBounded, NewestOf
<1>1. CASE counts
  <2>1. k \in S /\ \A j \in S : j <= k
    BY <1>0, <1>1 DEF DocPos
  <2>2. Newest(S) = k /\ k # 0
    <3> HIDE DEF S
    <3> QED BY <1>0, <2>1, NewestIs
  <2> QED BY <1>1, <2>2 DEF DocAfter
<1>2. CASE ~counts
  <2>1. S = DocPos(q, D, p, id)
    BY <1>2 DEF DocPos
  <2> QED BY <1>2, <2>1 DEF DocAfter
<1> QED BY <1>1, <1>2

(* What the newest command for a document tells of its part. *)
LEMMA PartOfNewest ==
  ASSUME NEW q, NEW D, Bounded(D), NEW p, NEW id, NEW base,
         NEW k, k = Newest(DocPos(q, D, p, id)), k # 0
  PROVE  PartAfter(q, D, p, base) =
           IF q[k].type \in PartTypes THEN q[k].type ELSE PartAfter(q, Before(D, k), p, base)
<1> DEFINE S == PartPos(q, D, p)
           T == DocPos(q, D, p, id)
<1>0. Bounded(T) /\ Bounded(S)
  BY PosBounded
<1>1. Bounded(T) /\ Bounded(S) /\ S \subseteq T /\ k = Newest(T)
  BY <1>0 DEF DocPos, PartPos
<1>2. k \in T /\ \A j \in S : j <= k
  <2> HIDE DEF S, T
  <2> QED BY <1>1, NewestOf
<1>3. CASE q[k].type \in PartTypes
  <2>1. k \in S
    BY <1>2, <1>3 DEF PartPos, DocPos
  <2>2. Newest(S) = k
    <3> HIDE DEF S
    <3> QED BY <1>1, <1>2, <2>1, NewestIs
  <2>3. PartAfter(q, D, p, base) = q[k].type
    BY <2>2 DEF PartAfter
  <2> QED BY <1>3, <2>3
<1>4. CASE q[k].type \notin PartTypes
  <2>1. \A j \in S : j < k
    <3>1. k \notin S
      BY <1>4 DEF PartPos
    <3>2. k \in Nat /\ S \subseteq Nat
      <4> HIDE DEF S, T
      <4> QED BY <1>1, <1>2, NewestOf
    <3> HIDE DEF S
    <3> QED BY <1>2, <3>1, <3>2
  <2>2. S = PartPos(q, Before(D, k), p)
    BY <2>1 DEF PartPos, Before
  <2>3. PartAfter(q, D, p, base) = PartAfter(q, Before(D, k), p, base)
    BY <2>2 DEF PartAfter
  <2> QED BY <1>4, <2>3
<1> QED BY <1>3, <1>4

(* Where no part is, no document is. *)
LEMMA NoPartNoDoc ==
  ASSUME NEW q, NEW D, Bounded(D), NEW p, NEW id,
         NEW part, NEW doc, part # "CREATE_PART" => doc = NoDoc,
         \A k \in D : q[k].type \in PartTypes \cup DocTypes,
         \A k \in D : q[k].part = p => LegalAt(q, D, k, part),
         PartAfter(q, D, p, part) # "CREATE_PART"
  PROVE  DocAfter(q, D, p, id, doc) = NoDoc
<1> DEFINE S == DocPos(q, D, p, id)
<1>1. PICK k : k = Newest(S)
  OBVIOUS
<1>2. Bounded(S) /\ S \subseteq D
  <2>1. Bounded(S)
    BY PosBounded
  <2> QED BY <2>1 DEF DocPos
<1>3. CASE S = {}
  <2>1. PartPos(q, D, p) = {} /\ Newest({}) = 0
    BY <1>3 DEF PartPos, DocPos, Newest
  <2> QED BY <1>3, <2>1 DEF PartAfter, DocAfter
<1>4. CASE S # {}
  <2>1. k \in S /\ k # 0
    <3> HIDE DEF S
    <3> QED BY <1>1, <1>2, <1>4, NewestOf
  <2>2. k \in D /\ q[k].part = p
    BY <2>1 DEF DocPos
  <2>3. CASE q[k].type \in PartTypes
    BY <1>1, <2>1, <2>3 DEF DocAfter, PartTypes
  <2>4. CASE q[k].type \notin PartTypes
    <3>1. PartAfter(q, D, p, part) = PartAfter(q, Before(D, k), p, part)
      BY <1>1, <2>1, <2>4, PartOfNewest
    <3>2. LegalAt(q, D, k, part)
      BY <2>2
    <3>3. q[k].type = "CREATE_PART"
      BY <2>2, <3>1, <3>2 DEF LegalAt
    <3> QED BY <2>4, <3>3 DEF PartTypes
  <2> QED BY <2>3, <2>4
<1> QED BY <1>3, <1>4

-----------------------------------------------------------------------------
(* The queue as commands, and the inductive invariant. *)

Queue == [k \in 1..Len(pending) |-> log[pending[k]]]

(* What is on disk, as a queue would have made it. *)
OnDisk(p) == IF DiskPart(p) THEN "CREATE_PART" ELSE "DELETE_PART"

(* Shard c's part of the queue is still to be committed. *)
Undone(c) == ~(phase = "apply" /\ tx[c].state = "done")

(* Update has at most one entry of a shard at hand, and what it looked up    *)
(* for it is what it would find now.                                         *)
OneOfShard ==
  \A i, j \in AtHand :
    ShardOf(log[i]) = ShardOf(log[j]) /\ ShardOf(log[i]) \in Shards => i = j

LookedUp ==
  \A i \in DOMAIN existing : existing = FindExisting(ShardOf(log[i]), {i})

(* A block keeps no documents of a bucket that it does not have. *)
Clean ==
  \A p \in Parts, id \in Ids :
    FirstRune[p] \in Shards /\ p \notin block[FirstRune[p]].buckets =>
      block[FirstRune[p]].docs[p][id] = NoDoc

(* Every command that waits in the queue will find its part, a CREATE_PART   *)
(* will miss it.                                                             *)
QueueLegal ==
  \A k \in 1..Len(pending) :
    Undone(ShardOf(Queue[k])) =>
      LegalAt(Queue, 1..Len(pending), k, OnDisk(Queue[k].part))

(* The positions that shard c's goroutine has applied, and what it has built.*)
Done(c) == GetPendingUpdatesForShard(c) \ tx[c].todo

Built(c) ==
  /\ tx[c].todo \subseteq GetPendingUpdatesForShard(c)
  /\ \A j \in Done(c), k \in tx[c].todo : j < k
  /\ tx[c].state = "indexed" => tx[c].todo = {}
  /\ \A p \in Parts : FirstRune[p] = c =>
       /\ p \in tx[c].block.buckets <=> PartAfter(Queue, Done(c), p, OnDisk(p)) = "CREATE_PART"
       /\ \A id \in Ids :
            tx[c].block.docs[p][id] = DocAfter(Queue, Done(c), p, id, DiskDoc(p, id))

(* A shard that has committed is as the queue left it. *)
Committed(c) ==
  \A p \in Parts : FirstRune[p] = c =>
    /\ DiskPart(p) <=> LivePart(p)
    /\ \A id \in Ids : DiskDoc(p, id) = LiveDoc(p, id)

Building ==
  phase = "apply" =>
    \A c \in Shards :
      /\ tx[c].state = "none" => GetPendingUpdatesForShard(c) = {}
      /\ tx[c].state \in {"run", "indexed"} => Built(c)
      /\ tx[c].state = "done" => Committed(c)

(* What blocks, queue and goroutines are to one another, however many        *)
(* entries Update has at hand.                                               *)
BInv == Clean /\ QueueLegal /\ Building

SInv ==
  /\ OneOfShard
  /\ LookedUp
  /\ Clean
  /\ QueueLegal
  /\ Building

-----------------------------------------------------------------------------
(* What clients see of a part and a document is what the queue makes of the  *)
(* disk.                                                                     *)
LEMMA LiveIs ==
  ASSUME Len(pending) \in Nat, NEW p, NEW id
  PROVE  /\ LivePart(p) <=> PartAfter(Queue, 1..Len(pending), p, OnDisk(p)) = "CREATE_PART"
         /\ LiveDoc(p, id) = DocAfter(Queue, 1..Len(pending), p, id, DiskDoc(p, id))
<1> DEFINE n == Len(pending)
           S == {j \in 1..n : Queued(j).part = p /\ Queued(j).type \in PartTypes}
           T == {j \in 1..n : /\ Queued(j).part = p
                              /\ Queued(j).type \in PartTypes \/ Queued(j).id = id}
<1>1. \A j \in 1..n : Queued(j) = Queue[j]
  BY DEF Queued, Queue
<1>2. PartPos(Queue, 1..n, p) = S /\ DocPos(Queue, 1..n, p, id) = T
  BY <1>1 DEF PartPos, DocPos
<1>3. LivePart(p) = IF Newest(S) = 0 THEN DiskPart(p) ELSE Queued(Newest(S)).type = "CREATE_PART"
  BY DEF LivePart, PartTypes
<1>4. LiveDoc(p, id) =
        IF Newest(T) = 0 THEN DiskDoc(p, id)
        ELSE IF Queued(Newest(T)).type \in {"POST", "PUT"} THEN Queued(Newest(T)).doc ELSE NoDoc
  BY DEF LiveDoc, PartTypes
<1>5. S \in SUBSET (1..n) /\ T \in SUBSET (1..n)
  OBVIOUS
<1>6. (Newest(S) = 0 \/ Newest(S) \in 1..n) /\ (Newest(T) = 0 \/ Newest(T) \in 1..n)
  <2> HIDE DEF S, T
  <2> QED BY <1>5, NewestProperties
<1> HIDE DEF S, T
<1>7. LivePart(p) <=> PartAfter(Queue, 1..n, p, OnDisk(p)) = "CREATE_PART"
  BY <1>1, <1>2, <1>3, <1>6 DEF PartAfter, OnDisk
<1>8. LiveDoc(p, id) = DocAfter(Queue, 1..n, p, id, DiskDoc(p, id))
  BY <1>1, <1>2, <1>4, <1>6 DEF DocAfter
<1> QED BY <1>7, <1>8

LiveIsQueue ==
  Len(pending) \in Nat =>
    \A p, id :
      /\ LivePart(p) <=> PartAfter(Queue, 1..Len(pending), p, OnDisk(p)) = "CREATE_PART"
      /\ LiveDoc(p, id) = DocAfter(Queue, 1..Len(pending), p, id, DiskDoc(p, id))

LEMMA LiveIsNow == LiveIsQueue
  BY LiveIs DEF LiveIsQueue

LEMMA LiveIsNext == LiveIsQueue'
  BY LiveIsNow, PTL

LEMMA QueueType ==
  ASSUME TypeOK
  PROVE  /\ Len(pending) \in Nat
         /\ \A k \in 1..Len(pending) :
              /\ Queue[k] = log[pending[k]]
              /\ Queue[k] \in Commands
              /\ Queue[k].type \in PartTypes \cup DocTypes
              /\ Queue[k].part \in Parts
              /\ ShardOf(Queue[k]) = FirstRune[Queue[k].part]
              /\ Queue[k].type \in DocTypes => Queue[k].id \in Ids
              /\ Queue[k].type \in {"POST", "PUT"} => Queue[k].doc \in Documents
<1>1. Len(pending) \in Nat /\ \A k \in 1..Len(pending) : log[pending[k]] \in Commands
  BY DEF TypeOK
<1>2. \A k \in 1..Len(pending) : Queue[k] = log[pending[k]] /\ Queue[k] \in Commands
  BY <1>1 DEF Queue
<1> QED BY <1>1, <1>2, CommandType DEF PartTypes, DocTypes, ShardOf, IsPart

LEMMA BlockTypes ==
  ASSUME TypeOK
  PROVE  /\ \A p : DiskPart(p) \in BOOLEAN
         /\ \A p \in Parts, id \in Ids : DiskDoc(p, id) \in DocOrNil
         /\ \A p \in Parts, id \in Ids : ~DiskPart(p) => DiskDoc(p, id) = NoDoc
  BY DEF TypeOK, DiskPart, DiskDoc, Blocks, DocOrNil

(* Positions of a shard are the only ones that count for its parts. *)
LEMMA ShardPositions ==
  ASSUME TypeOK, NEW p \in Parts, NEW id, NEW c, FirstRune[p] = c,
         NEW D \in SUBSET (1..Len(pending)), NEW E \in SUBSET (1..Len(pending)),
         D \cap GetPendingUpdatesForShard(c) = E \cap GetPendingUpdatesForShard(c)
  PROVE  /\ PartPos(Queue, D, p) = PartPos(Queue, E, p)
         /\ DocPos(Queue, D, p, id) = DocPos(Queue, E, p, id)
<1>1. \A j \in 1..Len(pending) : Queue[j].part = p => j \in GetPendingUpdatesForShard(c)
  BY QueueType DEF GetPendingUpdatesForShard
<1> QED BY <1>1 DEF PartPos, DocPos

(* No document lives in a part that does not. *)
LEMMA LiveNoPart ==
  ASSUME IInv, QueueLegal, NEW p \in Parts, NEW id \in Ids,
         Undone(FirstRune[p]), ~LivePart(p)
  PROVE  LiveDoc(p, id) = NoDoc
<1> DEFINE n == Len(pending)
<1>0. TypeOK
  BY DEF IInv
<1>1. n \in Nat /\ \A k \in 1..n : Queue[k].type \in PartTypes \cup DocTypes
  BY <1>0, QueueType
<1>2. \A k \in 1..n : Queue[k].part = p => LegalAt(Queue, 1..n, k, OnDisk(p))
  BY <1>0, QueueType DEF QueueLegal
<1>3. PartAfter(Queue, 1..n, p, OnDisk(p)) # "CREATE_PART"
  BY <1>1, LiveIs
<1>4. OnDisk(p) # "CREATE_PART" => DiskDoc(p, id) = NoDoc
  BY <1>0, BlockTypes DEF OnDisk
<1>5. DocAfter(Queue, 1..n, p, id, DiskDoc(p, id)) = NoDoc
  <2> DEFINE D == 1..n
  <2>0. Bounded(D)
    BY <1>1 DEF Bounded
  <2>1. /\ \A k \in D : Queue[k].type \in PartTypes \cup DocTypes
        /\ \A k \in D : Queue[k].part = p => LegalAt(Queue, D, k, OnDisk(p))
        /\ PartAfter(Queue, D, p, OnDisk(p)) # "CREATE_PART"
    BY <1>1, <1>2, <1>3
  <2> HIDE DEF D, n
  <2>2. DocAfter(Queue, D, p, id, DiskDoc(p, id)) = NoDoc
    BY <1>4, <2>0, <2>1, NoPartNoDoc
  <2> QED BY <2>2 DEF D
<1> QED BY <1>1, <1>5, LiveIs

(* What Update looks up for an entry is what it would find after a flush,    *)
(* except that a pending DEL passes for a document that is empty.            *)
LEMMA FoundIsLive ==
  ASSUME IInv, QueueLegal, NEW i \in 1..Len(log), ShardOf(log[i]) \in Shards, phase # "apply"
  PROVE  LET e == FindExisting(ShardOf(log[i]), {i})[i]
             k == FindCommandInPending(log[i])
         IN  /\ e.partExists \in BOOLEAN
             /\ e.partExists <=> LivePart(log[i].part)
             /\ ~IsPart(log[i]) =>
                  IF k # 0 /\ Queued(k).type = "DEL"
                  THEN e.doc = EmptyDoc /\ LiveDoc(log[i].part, log[i].id) = NoDoc
                  ELSE e.doc = LiveDoc(log[i].part, log[i].id)
<1> DEFINE cmd == log[i]
           p == cmd.part
           c == ShardOf(cmd)
           n == Len(pending)
           S == DocPos(Queue, 1..n, p, cmd.id)
           k == Newest(S)
           e == FindExisting(c, {i})[i]
<1>0. TypeOK /\ n \in Nat /\ S \in SUBSET (1..n)
  BY QueueType DEF IInv, DocPos
<1>1. cmd \in Commands /\ p \in Parts /\ c = FirstRune[p] /\ (~IsPart(cmd) => cmd.id \in Ids)
  BY <1>0, CommandType DEF TypeOK, ShardOf
<1>2. FindCommandInPending(cmd) = k
  <2>1. MatchPositions(cmd) = S
    BY <1>0, QueueType DEF MatchPositions, Matches, DocPos, IsPart, PartTypes
  <2> QED BY <2>1 DEF FindCommandInPending
<1>3. StateSearch({i}) <=> k = 0
  BY <1>2 DEF StateSearch
<1>4. e = IF k = 0 THEN FindExistingDocument(block[c], cmd, FindInPending(cmd)) ELSE FindInPending(cmd)
  BY <1>3 DEF FindExisting
<1>5. CASE k = 0
  <2>1. S = {}
    <3> HIDE DEF S
    <3>1. S # {} => Newest(S) \in S
      BY <1>0, NewestProperties
    <3> QED BY <1>0, <1>5, <3>1
  <2>2. PartPos(Queue, 1..n, p) = {}
    BY <2>1 DEF PartPos, DocPos
  <2>3. Newest({}) = 0
    BY DEF Newest
  <2>4. (LivePart(p) <=> DiskPart(p)) /\ LiveDoc(p, cmd.id) = DiskDoc(p, cmd.id)
    BY <1>0, <2>1, <2>2, <2>3, LiveIs DEF PartAfter, DocAfter, OnDisk
  <2>5. FindInPending(cmd) = [partExists |-> FALSE, doc |-> NoDoc]
    BY <1>2, <1>5 DEF FindInPending
  <2>6. e = [partExists |-> p \in block[c].buckets,
             doc |-> IF IsPart(cmd) THEN NoDoc ELSE GetDocumentString(block[c], p, cmd.id)]
    BY <1>4, <1>5, <2>5 DEF FindExistingDocument
  <2>7. DiskPart(p) <=> p \in block[c].buckets
    BY <1>1 DEF DiskPart
  <2>8. ~IsPart(cmd) => e.doc = DiskDoc(p, cmd.id)
    BY <1>1, <2>6, <2>7 DEF GetDocumentString, DiskDoc
  <2>9. e.partExists \in BOOLEAN /\ (e.partExists <=> LivePart(p))
    <3> HIDE DEF e
    <3>1. e.partExists = (p \in block[c].buckets)
      BY <2>6
    <3>2. e.partExists \in BOOLEAN
      BY <3>1
    <3>3. e.partExists <=> p \in block[c].buckets
      BY <3>1
    <3> QED BY <2>4, <2>7, <3>2, <3>3
  <2>10. ~IsPart(cmd) => e.doc = LiveDoc(p, cmd.id)
    BY <2>4, <2>8
  <2> HIDE DEF e, k
  <2> QED BY <1>2, <1>5, <2>9, <2>10 DEF e
<1>6. CASE k # 0
  <2>1. k \in S /\ k \in 1..n /\ Queue[k].part = p
    <3>1. k \in S
      <4> HIDE DEF S
      <4> QED BY <1>0, <1>6, NewestProperties
    <3> QED BY <3>1 DEF DocPos
  <2>2. Queue[k] = log[pending[k]] /\ Queue[k].type \in PartTypes \cup DocTypes /\ Queued(k) = Queue[k]
    BY <1>0, <2>1, QueueType DEF Queued
  <2>3. e = IF Queue[k].type = "DELETE_PART" THEN [partExists |-> FALSE, doc |-> NoDoc]
            ELSE IF Queue[k].type = "CREATE_PART" THEN [partExists |-> TRUE, doc |-> NoDoc]
            ELSE [partExists |-> TRUE, doc |-> Queue[k].doc]
    BY <1>2, <1>4, <1>6, <2>2 DEF FindInPending
  <2>4. LiveDoc(p, cmd.id) = IF Queue[k].type \in {"POST", "PUT"} THEN Queue[k].doc ELSE NoDoc
    BY <1>0, <1>6, LiveIs DEF DocAfter
  <2>5. k = Newest(DocPos(Queue, 1..n, p, cmd.id)) /\ k \in DocPos(Queue, 1..n, p, cmd.id)
    BY <2>1
  <2>6. /\ Queue[k].type \in PartTypes => (LivePart(p) <=> Queue[k].type = "CREATE_PART")
        /\ Queue[k].type \notin PartTypes =>
             (LivePart(p) <=> PartAfter(Queue, Before(1..n, k), p, OnDisk(p)) = "CREATE_PART")
    <3> HIDE DEF k, S
    <3>1. LivePart(p) <=> PartAfter(Queue, 1..n, p, OnDisk(p)) = "CREATE_PART"
      BY <1>0, LiveIs
    <3>2. /\ Queue[k].type \in PartTypes =>
               PartAfter(Queue, 1..n, p, OnDisk(p)) = Queue[k].type
          /\ Queue[k].type \notin PartTypes =>
               PartAfter(Queue, 1..n, p, OnDisk(p)) =
                 PartAfter(Queue, Before(1..n, k), p, OnDisk(p))
      <4> DEFINE D == 1..n
      <4>1. Bounded(D)
        BY <1>0 DEF Bounded
      <4>2. k = Newest(DocPos(Queue, D, p, cmd.id)) /\ k # 0
        BY <1>6 DEF k, S
      <4> HIDE DEF D, n, p
      <4>3. PartAfter(Queue, D, p, OnDisk(p)) =
              IF Queue[k].type \in PartTypes THEN Queue[k].type
              ELSE PartAfter(Queue, Before(D, k), p, OnDisk(p))
        BY <4>1, <4>2, PartOfNewest
      <4> QED BY <4>3 DEF D
    <3> QED BY <3>1, <3>2
  <2>7. Queue[k].type \in DocTypes => LivePart(p)
    <3>1. LegalAt(Queue, 1..n, k, OnDisk(p))
      BY <2>1 DEF QueueLegal, Undone
    <3> QED BY <2>1, <2>6, <3>1 DEF LegalAt, DocTypes, PartTypes
  <2>8. Queue[k].type = "DEL" => Queue[k].doc = EmptyDoc
    <3>1. Queue[k] \in Commands
      BY <1>0, <2>1, QueueType
    <3> QED BY <3>1, CommandsAssumption DEF WriteCommands, POST, PUT, DEL, CREATE_PART, DELETE_PART
  <2>9. e.partExists \in BOOLEAN /\ (e.partExists <=> LivePart(p))
    <3> HIDE DEF k, e
    <3>1. CASE Queue[k].type = "DELETE_PART"
      BY <2>3, <2>6, <3>1 DEF PartTypes
    <3>2. CASE Queue[k].type = "CREATE_PART"
      BY <2>3, <2>6, <3>2 DEF PartTypes
    <3>3. CASE Queue[k].type \in DocTypes
      BY <2>3, <2>7, <3>3 DEF DocTypes
    <3> QED BY <2>2, <3>1, <3>2, <3>3 DEF PartTypes
  <2>10. IF Queue[k].type = "DEL" THEN e.doc = EmptyDoc /\ LiveDoc(p, cmd.id) = NoDoc
         ELSE e.doc = LiveDoc(p, cmd.id)
    BY <2>2, <2>3, <2>4, <2>8 DEF PartTypes, DocTypes
  <2> QED BY <1>2, <1>6, <2>2, <2>9, <2>10
<1> QED BY <1>5, <1>6

-----------------------------------------------------------------------------
(* Steps that leave the queue, the blocks and the goroutines alone. *)
SameQueue ==
  /\ pending' = pending
  /\ \A i \in 1..Len(log) : log'[i] = log[i]

LEMMA FrameQueue ==
  ASSUME IInv, SameQueue
  PROVE  /\ Queue' = Queue
         /\ \A c : GetPendingUpdatesForShard(c)' = GetPendingUpdatesForShard(c)
<1>1. Len(pending) \in Nat /\ \A k \in 1..Len(pending) : pending[k] \in 1..Len(log)
  BY PendingInLog DEF IInv
<1>2. pending' = pending /\ \A k \in 1..Len(pending) : log'[pending'[k]] = log[pending[k]]
  BY <1>1 DEF SameQueue
<1> QED BY <1>2 DEF Queue, GetPendingUpdatesForShard

LEMMA FrameStores ==
  ASSUME IInv, SameQueue, block' = block
  PROVE  /\ \A p : /\ DiskPart(p)' = DiskPart(p)
                   /\ OnDisk(p)' = OnDisk(p)
                   /\ LivePart(p)' <=> LivePart(p)
         /\ \A p, id : /\ DiskDoc(p, id)' = DiskDoc(p, id)
                       /\ LiveDoc(p, id)' = LiveDoc(p, id)
<1>1. \A p : DiskPart(p)' = DiskPart(p) /\ OnDisk(p)' = OnDisk(p)
  BY DEF DiskPart, OnDisk
<1>2. \A p, id : DiskDoc(p, id)' = DiskDoc(p, id)
  BY DEF DiskPart, DiskDoc
<1>3. Queue' = Queue /\ pending' = pending /\ Len(pending) \in Nat
  BY FrameQueue, PendingInLog DEF SameQueue, IInv
<1>4. \A p, id :
        /\ LivePart(p) <=> PartAfter(Queue, 1..Len(pending), p, OnDisk(p)) = "CREATE_PART"
        /\ LiveDoc(p, id) = DocAfter(Queue, 1..Len(pending), p, id, DiskDoc(p, id))
  BY <1>3, LiveIsNow DEF LiveIsQueue
<1>5. \A p, id :
        /\ LivePart(p)' <=> PartAfter(Queue', 1..Len(pending'), p, OnDisk(p)') = "CREATE_PART"
        /\ LiveDoc(p, id)' = DocAfter(Queue', 1..Len(pending'), p, id, DiskDoc(p, id)')
  BY <1>3, LiveIsNext DEF LiveIsQueue
<1> QED BY <1>1, <1>2, <1>3, <1>4, <1>5

LEMMA StoreFrame ==
  ASSUME IInv, BInv, SameQueue, block' = block, tx' = tx,
         (phase = "apply") = (phase' = "apply")
  PROVE  BInv'
<1>1. Clean'
  BY DEF BInv, Clean
<1>2. Queue' = Queue /\ pending' = pending /\ \A c : GetPendingUpdatesForShard(c)' = GetPendingUpdatesForShard(c)
  BY FrameQueue DEF SameQueue
<1>3. QueueLegal'
  BY <1>2, FrameStores DEF BInv, QueueLegal, Undone
<1>4. \A c : (Done(c)' = Done(c)) /\ (Built(c)' <=> Built(c)) /\ (Committed(c)' <=> Committed(c))
  <2>1. \A c : Done(c)' = Done(c)
    BY <1>2 DEF Done
  <2>2. \A c : Built(c)' <=> Built(c)
    BY <1>2, <2>1, FrameStores DEF Built
  <2>3. \A c : Committed(c)' <=> Committed(c)
    BY FrameStores DEF Committed
  <2> QED BY <2>1, <2>2, <2>3
<1>5. Building'
  BY <1>2, <1>4 DEF BInv, Building
<1> QED BY <1>1, <1>3, <1>5 DEF BInv

LEMMA FoundFrame ==
  ASSUME IInv, SameQueue, block' = block, NEW i \in 1..Len(log), NEW c
  PROVE  FindExisting(c, {i})' = FindExisting(c, {i})
<1>1. Len(pending) \in Nat /\ \A k \in 1..Len(pending) : pending[k] \in 1..Len(log)
  BY PendingInLog DEF IInv
<1>2. /\ pending' = pending /\ log'[i] = log[i]
      /\ \A k \in 1..Len(pending) : log'[pending[k]] = log[pending[k]]
  BY <1>1 DEF SameQueue
<1> DEFINE S == MatchPositions(log[i])
           k == FindCommandInPending(log[i])
<1>3. MatchPositions(log[i])' = S
  BY <1>2 DEF MatchPositions
<1>4. FindCommandInPending(log[i])' = k
  BY <1>3 DEF FindCommandInPending
<1>5. k = 0 \/ k \in 1..Len(pending)
  <2>1. S \in SUBSET (1..Len(pending)) /\ k = Newest(S)
    BY DEF MatchPositions, FindCommandInPending
  <2> HIDE DEF S, k
  <2> QED BY <1>1, <2>1, NewestProperties
<1>6. FindInPending(log[i])' = FindInPending(log[i])
  <2> HIDE DEF k
  <2>1. k = 0 \/ log'[pending'[k]] = log[pending[k]]
    BY <1>2, <1>5
  <2> QED BY <1>4, <2>1 DEF FindInPending, k
<1>7. StateSearch({i})' <=> StateSearch({i})
  BY <1>4 DEF StateSearch
<1> QED BY <1>2, <1>6, <1>7 DEF FindExisting

(* Outside Update no entry is at hand. *)
LEMMA NothingAtHand ==
  ASSUME IInv, phase # "update"
  PROVE  OneOfShard /\ LookedUp
  BY DEF IInv, Memory, OneOfShard, LookedUp, AtHand

NothingAtHandNow == IInv /\ phase # "update" => OneOfShard /\ LookedUp

LEMMA NothingAtHandNext == NothingAtHandNow'
<1>1. NothingAtHandNow
  BY NothingAtHand DEF NothingAtHandNow
<1> QED BY <1>1, PTL

LEMMA StorePropose ==
  ASSUME IInv, SInv, NEW cmd \in Commands, Propose(cmd)
  PROVE  SInv'
<1>1. /\ \A i \in 1..Len(log) : log'[i] = log[i]
      /\ UNCHANGED <<phase, batch, existing, pending, block, tx>>
  BY DEF IInv, TypeOK, Propose, updateVars, diskVars
<1>2. SameQueue /\ AtHand' = AtHand /\ AtHand \subseteq 1..Len(log)
  BY <1>1 DEF SameQueue, AtHand, IInv, TypeOK
<1>3. OneOfShard'
  BY <1>1, <1>2 DEF SInv, OneOfShard, ShardOf
<1>4. LookedUp'
  <2> SUFFICES ASSUME NEW i \in DOMAIN existing
               PROVE  existing = FindExisting(ShardOf(log[i]), {i})'
    BY <1>1 DEF LookedUp
  <2>1. i \in 1..Len(log) /\ log'[i] = log[i]
    BY <1>1 DEF IInv, TypeOK
  <2>2. FindExisting(ShardOf(log[i]), {i})' = FindExisting(ShardOf(log[i]), {i})
    BY <1>1, <1>2, <2>1, FoundFrame
  <2>3. existing = FindExisting(ShardOf(log[i]), {i})
    BY DEF SInv, LookedUp
  <2> QED BY <2>2, <2>3
<1> QED BY <1>1, <1>2, <1>3, <1>4, StoreFrame DEF SInv, BInv

LEMMA AtMostOne ==
  ASSUME NEW S, IsFiniteSet(S), Cardinality(S) <= 1, NEW i \in S, NEW j \in S
  PROVE  i = j
<1>1. Cardinality(S) \in Nat
  BY FS_CardinalityType
<1>2. Cardinality(S) # 0
  BY FS_EmptySet
<1>3. Cardinality(S) = 1
  BY <1>1, <1>2
<1>4. PICK x : S = {x}
  BY <1>3, FS_Singleton
<1> QED BY <1>4

LEMMA StoreUpdateStart ==
  ASSUME MaxShardBatch <= 1, IInv, SInv, NEW n \in 1..MaxBatch, UpdateStart(n)
  PROVE  SInv'
<1> DEFINE E == (applied + 1)..(applied + n)
<1>1. /\ phase = "idle" /\ phase' = "update" /\ batch' = E
      /\ \A c \in Shards : Cardinality(OfShard(E, c)) <= MaxShardBatch
      /\ UNCHANGED <<log, existing, pending, block, tx>>
  BY DEF UpdateStart, hostVars, diskVars
<1>2. DOMAIN existing = {} /\ applied \in Nat /\ n \in Nat /\ MaxShardBatch \in Nat
  BY <1>1, BoundsAssumption DEF IInv, Memory, TypeOK
<1>3. AtHand' = E /\ LookedUp'
  BY <1>1, <1>2 DEF AtHand, LookedUp
<1>4. OneOfShard'
  <2> SUFFICES ASSUME NEW i \in E, NEW j \in E, ShardOf(log[i]) = ShardOf(log[j]), ShardOf(log[i]) \in Shards
               PROVE  i = j
    BY <1>1, <1>3 DEF OneOfShard
  <2> DEFINE S == OfShard(E, ShardOf(log[i]))
  <2>1. i \in S /\ j \in S /\ S \subseteq E
    BY DEF OfShard
  <2>2. IsFiniteSet(E)
    BY <1>2, FS_Interval
  <2>3. IsFiniteSet(S)
    BY <2>1, <2>2, FS_Subset
  <2>4. Cardinality(S) <= 1
    <3>1. Cardinality(S) <= MaxShardBatch /\ Cardinality(S) \in Nat
      BY <1>1, <2>3, FS_CardinalityType
    <3> HIDE DEF S
    <3> QED BY <1>2, <3>1
  <2> HIDE DEF S
  <2> QED BY <2>1, <2>3, <2>4, AtMostOne
<1>5. SameQueue
  BY <1>1 DEF SameQueue
<1> QED BY <1>1, <1>3, <1>4, <1>5, StoreFrame DEF SInv, BInv

LEMMA StoreUpdateShard ==
  ASSUME IInv, SInv, NEW c \in Shards, UpdateShard(c)
  PROVE  SInv'
<1>1. /\ DOMAIN existing = {} /\ OfShard(batch, c) # {}
      /\ existing' = FindExisting(c, OfShard(batch, c))
      /\ batch' = batch \ OfShard(batch, c)
      /\ UNCHANGED <<log, phase, pending, block, tx>>
  BY DEF UpdateShard, hostVars, diskVars
<1>2. PICK i \in batch : ShardOf(log[i]) = c
  BY <1>1 DEF OfShard
<1>3. OfShard(batch, c) = {i}
  BY <1>2 DEF OfShard, SInv, OneOfShard, AtHand
<1>4. existing' = FindExisting(c, {i}) /\ DOMAIN existing' = {i}
  BY <1>1, <1>3 DEF FindExisting
<1>5. SameQueue /\ i \in 1..Len(log)
  BY <1>1 DEF SameQueue, IInv, TypeOK
<1>6. FindExisting(c, {i})' = FindExisting(c, {i})
  BY <1>1, <1>5, FoundFrame
<1>7. LookedUp'
  BY <1>1, <1>2, <1>4, <1>6 DEF LookedUp
<1>8. OneOfShard'
  <2>1. AtHand' = AtHand
    BY <1>1, <1>2, <1>3, <1>4 DEF AtHand
  <2> QED BY <1>1, <2>1 DEF SInv, OneOfShard
<1> QED BY <1>1, <1>5, <1>7, <1>8, StoreFrame DEF SInv, BInv

-----------------------------------------------------------------------------
(* DecideEntry. *)

(* The one entry of the shard is decided on what the queue and the block     *)
(* hold.                                                                     *)
Decides(i) ==
  /\ phase = "update" /\ phase' = "update"
  /\ DOMAIN existing = {i} /\ DOMAIN existing' = {}
  /\ ShardOf(log[i]) \in Shards
  /\ existing[i] = FindExisting(ShardOf(log[i]), {i})[i]
  /\ result'[i] = Decide(log[i], existing[i])
  /\ pending' = IF Decide(log[i], existing[i]) = 200 THEN Append(pending, i) ELSE pending
  /\ UNCHANGED <<log, batch, block, tx>>

LEMMA DecidesOne ==
  ASSUME IInv, SInv, DecideEntry
  PROVE  \E i \in 1..Len(log) : Decides(i)
<1>1. PICK i \in DOMAIN existing :
        /\ phase = "update" /\ phase' = "update"
        /\ result' = [result EXCEPT ![i] = Decide(log[i], existing[i])]
        /\ pending' = IF Decide(log[i], existing[i]) = 200 THEN Append(pending, i) ELSE pending
        /\ existing' = [j \in DOMAIN existing \ {i} |-> existing[j]]
        /\ UNCHANGED <<log, batch, block, tx>>
  BY DEF DecideEntry, hostVars, diskVars
<1>2. i \in 1..Len(log) /\ i \in 1..MaxLog
  BY BoundsAssumption DEF IInv, TypeOK
<1>3. existing = FindExisting(ShardOf(log[i]), {i})
  BY DEF SInv, LookedUp
<1>4. DOMAIN existing = {i}
  BY <1>3 DEF FindExisting
<1>5. DOMAIN existing' = {}
  BY <1>1, <1>4
<1>6. ShardOf(log[i]) \in Shards
  BY DEF IInv, EntriesAtHand
<1>7. result'[i] = Decide(log[i], existing[i])
  BY <1>1, <1>2 DEF IInv, TypeOK
<1>8. existing[i] = FindExisting(ShardOf(log[i]), {i})[i]
  BY <1>3
<1> QED BY <1>1, <1>2, <1>4, <1>5, <1>6, <1>7, <1>8 DEF Decides

(* The queue with one more command, and what that does to the stores. *)
LEMMA AppendQueue ==
  ASSUME IInv, UNCHANGED <<log, block>>, NEW i \in 1..Len(log), pending' = Append(pending, i)
  PROVE  /\ Len(pending) \in Nat /\ Len(pending') = Len(pending) + 1
         /\ Queue'[Len(pending) + 1] = log[i]
         /\ \A k \in 1..Len(pending) : Queue'[k] = Queue[k]
         /\ \A D, p, base : D \subseteq 1..Len(pending) =>
              PartAfter(Queue', D, p, base) = PartAfter(Queue, D, p, base)
<1>1. Len(pending) \in Nat /\ pending \in Seq(1..Len(log))
  BY PendingInLog DEF IInv, TypeOK
<1>2. /\ Len(pending') = Len(pending) + 1
      /\ pending'[Len(pending) + 1] = i
      /\ \A k \in 1..Len(pending) : pending'[k] = pending[k]
  BY <1>1
<1>3. /\ Queue'[Len(pending) + 1] = log[i]
      /\ \A k \in 1..Len(pending) : Queue'[k] = Queue[k]
  <2>1. Queue' = [k \in 1..Len(pending') |-> log'[pending'[k]]]
    BY DEF Queue
  <2> QED BY <1>1, <1>2, <2>1 DEF Queue
<1>4. ASSUME NEW D, NEW p, NEW base, D \subseteq 1..Len(pending)
      PROVE  PartAfter(Queue', D, p, base) = PartAfter(Queue, D, p, base)
  <2> DEFINE q == Queue'
             r == Queue
  <2>1. Bounded(D)
    BY <1>1, <1>4 DEF Bounded
  <2>2. \A j \in D : q[j] = r[j]
    BY <1>3, <1>4
  <2> HIDE DEF q, r
  <2>3. PartPos(q, D, p) = PartPos(r, D, p) /\ \A j \in PartPos(q, D, p) : q[j] = r[j]
    BY <2>2 DEF PartPos
  <2>4. PartAfter(q, D, p, base) = PartAfter(r, D, p, base)
    BY <2>1, <2>3, AfterAgree
  <2> QED BY <2>4 DEF q, r
<1> QED BY <1>1, <1>2, <1>3, <1>4

LEMMA AppendStores ==
  ASSUME IInv, UNCHANGED <<log, block>>, NEW i \in 1..Len(log), pending' = Append(pending, i),
         NEW p, NEW id
  PROVE  /\ LivePart(p)' <=> IF log[i].part = p /\ log[i].type \in PartTypes
                             THEN log[i].type = "CREATE_PART" ELSE LivePart(p)
         /\ LiveDoc(p, id)' = IF log[i].part = p /\ (log[i].type \in PartTypes \/ log[i].id = id)
                              THEN IF log[i].type \in {"POST", "PUT"} THEN log[i].doc ELSE NoDoc
                              ELSE LiveDoc(p, id)
<1> DEFINE n == Len(pending)
           D == 1..n
           m == n + 1
           q == Queue'
           r == Queue
<1>1. /\ n \in Nat /\ Len(pending') = m
      /\ q[m] = log[i]
      /\ \A k \in D : q[k] = r[k]
      /\ \A x, base : PartAfter(q, D, x, base) = PartAfter(r, D, x, base)
  BY AppendQueue
<1>2. 1..m = D \cup {m} /\ Bounded(D \cup {m}) /\ Bounded(D) /\ \A j \in D : j < m
  BY <1>1 DEF Bounded
<1>3. /\ LivePart(p) <=> PartAfter(r, D, p, OnDisk(p)) = "CREATE_PART"
      /\ LiveDoc(p, id) = DocAfter(r, D, p, id, DiskDoc(p, id))
  BY <1>1, LiveIs
<1>4. /\ LivePart(p)' <=> PartAfter(q, 1..m, p, OnDisk(p)') = "CREATE_PART"
      /\ LiveDoc(p, id)' = DocAfter(q, 1..m, p, id, DiskDoc(p, id)')
  BY <1>1, LiveIsNext DEF LiveIsQueue
<1>5. OnDisk(p)' = OnDisk(p) /\ DiskDoc(p, id)' = DiskDoc(p, id)
  BY DEF OnDisk, DiskDoc, DiskPart
<1> HIDE DEF n, D, m, q, r
<1>6. DocAfter(q, D, p, id, DiskDoc(p, id)) = DocAfter(r, D, p, id, DiskDoc(p, id))
  <2>1. DocPos(q, D, p, id) = DocPos(r, D, p, id) /\ \A j \in DocPos(q, D, p, id) : q[j] = r[j]
    BY <1>1 DEF DocPos
  <2> QED BY <1>2, <2>1, DocAfterAgree
<1>7. PartAfter(q, D \cup {m}, p, OnDisk(p)) =
        IF q[m].part = p /\ q[m].type \in PartTypes THEN q[m].type
        ELSE PartAfter(q, D, p, OnDisk(p))
  <2>1. Bounded(D \cup {m}) /\ \A j \in D : j < m
    BY <1>2
  <2> QED BY ONLY <2>1, AfterAdd, SMT
<1>8. DocAfter(q, D \cup {m}, p, id, DiskDoc(p, id)) =
        IF q[m].part = p /\ (q[m].type \in PartTypes \/ q[m].id = id)
        THEN IF q[m].type \in {"POST", "PUT"} THEN q[m].doc ELSE NoDoc
        ELSE DocAfter(q, D, p, id, DiskDoc(p, id))
  BY <1>2, DocAfterAdd
<1>9. LivePart(p)' <=> IF log[i].part = p /\ log[i].type \in PartTypes
                       THEN log[i].type = "CREATE_PART" ELSE LivePart(p)
  BY <1>1, <1>2, <1>3, <1>4, <1>5, <1>7
<1>10. LiveDoc(p, id)' = IF log[i].part = p /\ (log[i].type \in PartTypes \/ log[i].id = id)
                         THEN IF log[i].type \in {"POST", "PUT"} THEN log[i].doc ELSE NoDoc
                         ELSE LiveDoc(p, id)
  BY <1>1, <1>2, <1>3, <1>4, <1>5, <1>6, <1>8
<1> QED BY <1>9, <1>10

(* What Update accepts finds its part, and a CREATE_PART misses it. *)
LEMMA AcceptedLegal ==
  ASSUME IInv, SInv, NEW i \in 1..Len(log), Decides(i), Decide(log[i], existing[i]) = 200
  PROVE  log[i].type = "CREATE_PART" <=> ~LivePart(log[i].part)
<1> DEFINE cmd == log[i]
           e == existing[i]
<1>1. cmd.type \in {"POST", "PUT", "DEL", "CREATE_PART", "DELETE_PART"}
  BY CommandType DEF IInv, TypeOK
<1>2. e.partExists \in BOOLEAN /\ (e.partExists <=> LivePart(cmd.part))
  BY FoundIsLive DEF Decides, SInv
<1>3. Decide(cmd, e) = 200
  OBVIOUS
<1> HIDE DEF cmd, e
<1>4. cmd.type = "CREATE_PART" <=> ~e.partExists
  BY <1>1, <1>2, <1>3 DEF Decide
<1> QED BY <1>2, <1>4 DEF cmd

(* An accepted command may join the queue if it is legal now. *)
LEMMA StoreAppend ==
  ASSUME IInv, BInv, NEW i \in 1..Len(log), pending' = Append(pending, i), UNCHANGED <<log, block>>,
         phase = "update", phase' = "update",
         log[i].type = "CREATE_PART" <=> ~LivePart(log[i].part)
  PROVE  BInv'
<1> DEFINE n == Len(pending)
<1>1. Clean' /\ Building'
  BY DEF BInv, Clean, Building
<1>2. /\ n \in Nat /\ Len(pending') = n + 1
      /\ Queue'[n + 1] = log[i]
      /\ \A k \in 1..n : Queue'[k] = Queue[k]
      /\ \A D, p, base : D \subseteq 1..n => PartAfter(Queue', D, p, base) = PartAfter(Queue, D, p, base)
  BY AppendQueue
<1>3. \A p : OnDisk(p)' = OnDisk(p)
  BY DEF OnDisk, DiskPart
<1>4. ASSUME NEW k \in 1..n
      PROVE  LegalAt(Queue', 1..(n + 1), k, OnDisk(Queue'[k].part))
  <2>1. Before(1..(n + 1), k) = Before(1..n, k) /\ Before(1..n, k) \subseteq 1..n
    BY <1>2 DEF Before
  <2>2. LegalAt(Queue, 1..n, k, OnDisk(Queue[k].part))
    BY DEF BInv, QueueLegal, Undone
  <2> QED BY <1>2, <1>3, <2>1, <2>2 DEF LegalAt
<1>5. LegalAt(Queue', 1..(n + 1), n + 1, OnDisk(log[i].part))
  <2>1. Before(1..(n + 1), n + 1) = 1..n
    BY <1>2 DEF Before
  <2>2. LivePart(log[i].part) <=> PartAfter(Queue, 1..n, log[i].part, OnDisk(log[i].part)) = "CREATE_PART"
    BY <1>2, LiveIs
  <2> QED BY <1>2, <1>3, <2>1, <2>2 DEF LegalAt
<1>6. QueueLegal'
  <2> SUFFICES ASSUME NEW k \in 1..(n + 1)
               PROVE  LegalAt(Queue', 1..(n + 1), k, OnDisk(Queue'[k].part))
    BY <1>2, <1>3 DEF QueueLegal
  <2>1. k \in 1..n \/ k = n + 1
    BY <1>2
  <2> QED BY <1>2, <1>4, <1>5, <2>1
<1> QED BY <1>1, <1>6 DEF BInv

LEMMA StoreDecide ==
  ASSUME IInv, SInv, DecideEntry
  PROVE  SInv'
<1>1. PICK i \in 1..Len(log) : Decides(i)
  BY DecidesOne
<1>2. AtHand' \subseteq AtHand /\ log' = log
  BY <1>1 DEF AtHand, Decides
<1>3. OneOfShard' /\ LookedUp'
  BY <1>1, <1>2 DEF Decides, SInv, OneOfShard, LookedUp
<1>4. CASE Decide(log[i], existing[i]) # 200
  <2>1. SameQueue /\ UNCHANGED <<block, tx, phase>>
    BY <1>1, <1>4 DEF SameQueue, Decides
  <2> QED BY <1>3, <2>1, StoreFrame DEF SInv, BInv
<1>5. CASE Decide(log[i], existing[i]) = 200
  <2>1. pending' = Append(pending, i) /\ UNCHANGED <<log, block>> /\ phase' = "update" /\ phase = "update"
    BY <1>1, <1>5 DEF Decides
  <2> QED BY <1>1, <1>3, <1>5, <2>1, AcceptedLegal, StoreAppend DEF SInv, BInv
<1> QED BY <1>4, <1>5

-----------------------------------------------------------------------------
(* Sync. *)

LEMMA StoreSyncStart ==
  ASSUME IInv, BInv, SyncStart
  PROVE  BInv'
<1>1. /\ phase = "idle" /\ phase' = "apply"
      /\ tx' = [c \in Shards |->
                  IF GetPendingUpdatesForShard(c) = {} THEN NoTx
                  ELSE [state |-> "run", todo |-> GetPendingUpdatesForShard(c),
                        block |-> block[c], index |-> index[c]]]
      /\ UNCHANGED <<log, pending, block>>
  BY DEF SyncStart, hostVars, diskVars
<1>3. SameQueue
  BY <1>1 DEF SameQueue
<1>4. Queue' = Queue /\ pending' = pending /\ \A c : GetPendingUpdatesForShard(c)' = GetPendingUpdatesForShard(c)
  BY <1>1, <1>3, FrameQueue
<1>5. Clean'
  BY <1>1 DEF BInv, Clean
<1>6. QueueLegal'
  <2>1. \A k \in 1..Len(pending) : LegalAt(Queue, 1..Len(pending), k, OnDisk(Queue[k].part))
    BY <1>1 DEF BInv, QueueLegal, Undone
  <2> QED BY <1>1, <1>3, <1>4, <2>1, FrameStores DEF QueueLegal
<1>7. ASSUME NEW c \in Shards
      PROVE  /\ tx'[c].state = "none" => GetPendingUpdatesForShard(c) = {}
             /\ tx'[c].state \in {"run", "indexed"} => Built(c)'
             /\ tx'[c].state # "done"
  <2>1. CASE GetPendingUpdatesForShard(c) = {}
    BY <1>1, <2>1 DEF NoTx
  <2>2. CASE GetPendingUpdatesForShard(c) # {}
    <3>1. tx'[c] = [state |-> "run", todo |-> GetPendingUpdatesForShard(c),
                    block |-> block[c], index |-> index[c]]
      BY <1>1, <2>2
    <3>2. Done(c)' = {}
      BY <1>4, <3>1 DEF Done
    <3>3. ASSUME NEW p \in Parts, FirstRune[p] = c
          PROVE  /\ p \in block[c].buckets <=> PartAfter(Queue', {}, p, OnDisk(p)') = "CREATE_PART"
                 /\ \A id \in Ids :
                      block[c].docs[p][id] = DocAfter(Queue', {}, p, id, DiskDoc(p, id)')
      <4>1. Newest({}) = 0 /\ PartPos(Queue', {}, p) = {} /\ \A id : DocPos(Queue', {}, p, id) = {}
        BY DEF Newest, PartPos, DocPos
      <4>2. PartAfter(Queue', {}, p, OnDisk(p)') = OnDisk(p)'
        BY <4>1 DEF PartAfter
      <4>3. \A id : DocAfter(Queue', {}, p, id, DiskDoc(p, id)') = DiskDoc(p, id)'
        BY <4>1 DEF DocAfter
      <4>4. p \in block[c].buckets <=> OnDisk(p)' = "CREATE_PART"
        BY <1>1, <3>3 DEF OnDisk, DiskPart
      <4>5. \A id \in Ids : block[c].docs[p][id] = DiskDoc(p, id)'
        BY <1>1, <3>3 DEF DiskDoc, DiskPart, BInv, Clean
      <4> QED BY <4>2, <4>3, <4>4, <4>5
    <3>4. Built(c)'
      BY <1>4, <3>1, <3>2, <3>3 DEF Built
    <3> QED BY <3>1, <3>4
  <2> QED BY <2>1, <2>2
<1>8. Building'
  BY <1>1, <1>4, <1>7 DEF Building
<1> QED BY <1>5, <1>6, <1>8 DEF BInv

(* A goroutine's step leaves the other shards as they were. *)
ShardBuilding(c) ==
  /\ tx[c].state = "none" => GetPendingUpdatesForShard(c) = {}
  /\ tx[c].state \in {"run", "indexed"} => Built(c)
  /\ tx[c].state = "done" => Committed(c)

ShardLegal(c) ==
  \A k \in GetPendingUpdatesForShard(c) :
    Undone(c) => LegalAt(Queue, 1..Len(pending), k, OnDisk(Queue[k].part))

LEMMA OtherShard ==
  ASSUME IInv, phase = "apply", phase' = "apply", SameQueue, NEW d \in Shards,
         tx'[d] = tx[d], block'[d] = block[d], ShardBuilding(d), ShardLegal(d)
  PROVE  ShardBuilding(d)' /\ ShardLegal(d)'
<1>1. /\ Queue' = Queue /\ pending' = pending
      /\ GetPendingUpdatesForShard(d)' = GetPendingUpdatesForShard(d)
      /\ Done(d)' = Done(d)
  BY FrameQueue DEF SameQueue, Done
<1>2. \A p : FirstRune[p] = d =>
        /\ DiskPart(p)' <=> DiskPart(p)
        /\ OnDisk(p)' = OnDisk(p)
        /\ \A id : DiskDoc(p, id)' = DiskDoc(p, id)
  BY DEF DiskPart, OnDisk, DiskDoc
<1>3. \A p : FirstRune[p] = d =>
        /\ LivePart(p)' <=> LivePart(p)
        /\ \A id : LiveDoc(p, id)' = LiveDoc(p, id)
  <2>1. Len(pending) \in Nat
    BY PendingInLog DEF IInv
  <2>2. \A p, id :
          /\ LivePart(p) <=> PartAfter(Queue, 1..Len(pending), p, OnDisk(p)) = "CREATE_PART"
          /\ LiveDoc(p, id) = DocAfter(Queue, 1..Len(pending), p, id, DiskDoc(p, id))
    BY <2>1, LiveIsNow DEF LiveIsQueue
  <2>3. \A p, id :
          /\ LivePart(p)' <=> PartAfter(Queue', 1..Len(pending'), p, OnDisk(p)') = "CREATE_PART"
          /\ LiveDoc(p, id)' = DocAfter(Queue', 1..Len(pending'), p, id, DiskDoc(p, id)')
    BY <1>1, <2>1, LiveIsNext DEF LiveIsQueue
  <2> QED BY <1>1, <1>2, <2>2, <2>3
<1>4. Built(d) => Built(d)'
  BY <1>1, <1>2 DEF Built
<1>5. Committed(d) => Committed(d)'
  BY <1>2, <1>3 DEF Committed
<1>6. ShardBuilding(d)'
  BY <1>1, <1>4, <1>5 DEF ShardBuilding
<1>7. ShardLegal(d)'
  <2>1. \A k \in GetPendingUpdatesForShard(d) : FirstRune[Queue[k].part] = d
    BY QueueType DEF IInv, GetPendingUpdatesForShard
  <2> QED BY <1>1, <1>2, <2>1 DEF ShardLegal, Undone
<1> QED BY <1>6, <1>7

LEMMA ByShard ==
  ASSUME IInv
  PROVE  /\ Building <=> (phase = "apply" => \A c \in Shards : ShardBuilding(c))
         /\ QueueLegal <=> \A c \in Shards : ShardLegal(c)
<1>1. Building <=> (phase = "apply" => \A c \in Shards : ShardBuilding(c))
  BY DEF Building, ShardBuilding
<1>2. \A k \in 1..Len(pending) :
        ShardOf(Queue[k]) \in Shards /\ k \in GetPendingUpdatesForShard(ShardOf(Queue[k]))
  BY QueueType DEF IInv, QueueCovered, GetPendingUpdatesForShard
<1>3. \A c : \A k \in GetPendingUpdatesForShard(c) : k \in 1..Len(pending) /\ ShardOf(Queue[k]) = c
  BY QueueType DEF IInv, GetPendingUpdatesForShard
<1>4. QueueLegal <=> \A c \in Shards : ShardLegal(c)
  BY <1>2, <1>3 DEF QueueLegal, ShardLegal
<1> QED BY <1>1, <1>4

ByShardNow ==
  IInv => /\ Building <=> (phase = "apply" => \A c \in Shards : ShardBuilding(c))
          /\ QueueLegal <=> \A c \in Shards : ShardLegal(c)

LEMMA ByShardNext == ByShardNow'
<1>1. ByShardNow
  BY ByShard DEF ByShardNow
<1> QED BY <1>1, PTL

(* So a step of shard c has only its own shard to show. *)
LEMMA GoroutineFrame ==
  ASSUME IInv, BInv, IInv', phase = "apply", phase' = "apply", SameQueue, NEW c \in Shards,
         \A d \in Shards \ {c} : tx'[d] = tx[d] /\ block'[d] = block[d],
         Clean', ShardBuilding(c)', ShardLegal(c)'
  PROVE  BInv'
<1>2. \A d \in Shards : ShardBuilding(d) /\ ShardLegal(d)
  BY ByShard DEF BInv
<1>3. \A d \in Shards : ShardBuilding(d)' /\ ShardLegal(d)'
  BY <1>2, OtherShard
<1>4. Building' /\ QueueLegal'
  BY <1>3, ByShardNext DEF ByShardNow
<1> QED BY <1>4 DEF BInv

(* What one entry of ApplyUpdates' loop does to a part and to a document. *)
LEMMA ApplyToPart ==
  ASSUME NEW b \in Blocks, NEW cmd \in Commands, NEW p \in Parts
  PROVE  p \in ApplyToBlock(b, cmd).buckets <=>
           IF cmd.part = p /\ cmd.type \in PartTypes THEN cmd.type = "CREATE_PART" ELSE p \in b.buckets
<1>1. cmd.type \in {"POST", "PUT", "DEL", "CREATE_PART", "DELETE_PART"} /\ cmd.part \in Parts
  BY CommandType
<1>2. CASE cmd.type \in PartTypes
  BY <1>1, <1>2 DEF ApplyToBlock, PartTypes, Blocks
<1>3. CASE cmd.type \notin PartTypes
  BY <1>1, <1>3 DEF ApplyToBlock, PartTypes, Blocks
<1> QED BY <1>2, <1>3

LEMMA ApplyToDoc ==
  ASSUME NEW b \in Blocks, NEW cmd \in Commands, NEW p \in Parts, NEW id \in Ids
  PROVE  ApplyToBlock(b, cmd).docs[p][id] =
           IF cmd.part = p /\ (cmd.type = "DELETE_PART" \/ (cmd.type \in DocTypes /\ cmd.id = id))
           THEN IF cmd.type \in {"POST", "PUT"} THEN cmd.doc ELSE NoDoc
           ELSE b.docs[p][id]
<1>1. /\ cmd.type \in {"POST", "PUT", "DEL", "CREATE_PART", "DELETE_PART"} /\ cmd.part \in Parts
      /\ cmd.type \in DocTypes => cmd.id \in Ids
  BY CommandType DEF IsPart, DocTypes
<1>2. b.docs \in [Parts -> [Ids -> DocOrNil]] /\ b.buckets \subseteq Parts
  BY DEF Blocks
<1>3. CASE cmd.type = "CREATE_PART"
  BY <1>1, <1>2, <1>3 DEF ApplyToBlock, PartTypes, DocTypes, Blocks
<1>4. CASE cmd.type = "DELETE_PART"
  BY <1>1, <1>2, <1>4 DEF ApplyToBlock, PartTypes, DocTypes, NoDocs, Blocks
<1>5. CASE cmd.type = "DEL"
  BY <1>1, <1>2, <1>5 DEF ApplyToBlock, PartTypes, DocTypes, Blocks
<1>6. CASE cmd.type \in {"POST", "PUT"}
  BY <1>1, <1>2, <1>6 DEF ApplyToBlock, PartTypes, DocTypes, Blocks
<1> QED BY <1>1, <1>3, <1>4, <1>5, <1>6

(* Within a shard, positions before k are all that k's legality is about. *)
LEMMA LegalWithin ==
  ASSUME TypeOK, NEW c, NEW D \in SUBSET GetPendingUpdatesForShard(c),
         NEW k \in GetPendingUpdatesForShard(c),
         \A j \in GetPendingUpdatesForShard(c) : j < k => j \in D,
         NEW base
  PROVE  /\ PartAfter(Queue, Before(D, k), Queue[k].part, base) =
              PartAfter(Queue, Before(1..Len(pending), k), Queue[k].part, base)
         /\ LegalAt(Queue, D, k, base) <=> LegalAt(Queue, 1..Len(pending), k, base)
<1> DEFINE G == GetPendingUpdatesForShard(c)
           N == 1..Len(pending)
           p == Queue[k].part
           B == Before(D, k)
           C == Before(N, k)
<1>1. G \subseteq N /\ Len(pending) \in Nat /\ k \in N
  BY QueueType DEF GetPendingUpdatesForShard
<1>2. p \in Parts /\ FirstRune[p] = c
  BY <1>1, QueueType DEF GetPendingUpdatesForShard
<1>3. B \subseteq N /\ C \subseteq N /\ B \cap G = C \cap G
  BY <1>1 DEF Before
<1>4. Bounded(B)
  BY <1>1, <1>3 DEF Bounded
<1>5. PartPos(Queue, B, p) = PartPos(Queue, C, p)
  <2> HIDE DEF B, C, p
  <2> QED BY <1>2, <1>3, ShardPositions
<1>6. \A j \in PartPos(Queue, B, p) : Queue[j] = Queue[j]
  OBVIOUS
<1>7. PartAfter(Queue, B, p, base) = PartAfter(Queue, C, p, base)
  <2> HIDE DEF B, C, p
  <2> QED BY <1>4, <1>5, <1>6, AfterAgree
<1> QED BY <1>7 DEF LegalAt

(* One entry of ApplyUpdates' loop: the transaction stays what the queue     *)
(* makes of the disk.  CREATE_PART leaves the documents alone, which is      *)
(* right only because a part that is missing has none.                       *)
LEMMA StoreTxApply ==
  ASSUME IInv, BInv, IInv', NEW c \in Shards, TxApply(c)
  PROVE  BInv'
<1>1. PICK k \in tx[c].todo :
        /\ NextInTx(c, k)
        /\ tx' = [tx EXCEPT ![c] = [state |-> "run",
                                    todo  |-> tx[c].todo \ {k},
                                    block |-> ApplyToBlock(tx[c].block, log[pending[k]]),
                                    index |-> ApplyToIndex(tx[c].block, tx[c].index, log[pending[k]])]]
        /\ UNCHANGED <<log, phase, pending, block>>
  BY DEF TxApply, hostVars, diskVars
<1> DEFINE G == GetPendingUpdatesForShard(c)
           N == 1..Len(pending)
           cmd == Queue[k]
           D == Done(c)
           b == tx[c].block
           a == ApplyToBlock(b, cmd)
<1>2. /\ phase = "apply" /\ tx[c].state = "run" /\ \A j \in tx[c].todo : k <= j
  BY <1>1 DEF NextInTx
<1>3. TypeOK /\ tx \in [Shards -> Txs] /\ b \in Blocks /\ SameQueue
  BY <1>1 DEF IInv, TypeOK, Txs, SameQueue
<1>4. Built(c)
  BY <1>2 DEF BInv, Building
<1>5. /\ tx[c].todo \subseteq G /\ k \in G /\ G \subseteq N /\ Len(pending) \in Nat
      /\ \A j \in D : j < k
      /\ D \subseteq G
  BY <1>3, <1>4, QueueType DEF Built, Done, GetPendingUpdatesForShard
<1>6. cmd = log[pending[k]] /\ cmd \in Commands /\ FirstRune[cmd.part] = c
  BY <1>3, <1>5, QueueType DEF GetPendingUpdatesForShard
<1>7. /\ tx'[c].state = "run" /\ tx'[c].todo = tx[c].todo \ {k} /\ tx'[c].block = a
      /\ \A d \in Shards \ {c} : tx'[d] = tx[d]
  BY <1>1, <1>3, <1>6
<1>8. /\ Queue' = Queue
      /\ G' = G
      /\ Done(c)' = D \cup {k}
  BY <1>3, <1>5, <1>7, FrameQueue DEF Done
<1>9. Clean'
  BY <1>1 DEF BInv, Clean
<1>10. ShardLegal(c)'
  <2>1. ShardLegal(c)
    BY ByShard DEF BInv
  <2>2. \A j \in G : LegalAt(Queue, N, j, OnDisk(Queue[j].part))
    BY <1>2, <2>1 DEF ShardLegal, Undone
  <2> QED BY <1>1, <1>3, <1>8, <2>2, FrameStores DEF ShardLegal
<1>11. \A j \in G : LegalAt(Queue, N, j, OnDisk(Queue[j].part))
  <2>1. ShardLegal(c)
    BY ByShard DEF BInv
  <2> QED BY <1>2, <2>1 DEF ShardLegal, Undone
<1>12. Bounded(D) /\ Bounded(D \cup {k}) /\ \A j \in D : j < k
  BY <1>5 DEF Bounded
<1>13. ASSUME NEW p \in Parts, FirstRune[p] = c
       PROVE  p \in a.buckets <=> PartAfter(Queue, D \cup {k}, p, OnDisk(p)) = "CREATE_PART"
  <2>1. p \in b.buckets <=> PartAfter(Queue, D, p, OnDisk(p)) = "CREATE_PART"
    BY <1>4, <1>13 DEF Built
  <2>2. p \in a.buckets <=> IF cmd.part = p /\ cmd.type \in PartTypes THEN cmd.type = "CREATE_PART"
                            ELSE p \in b.buckets
    BY <1>3, <1>6, ApplyToPart
  <2>3. PartAfter(Queue, D \cup {k}, p, OnDisk(p)) =
          IF cmd.part = p /\ cmd.type \in PartTypes THEN cmd.type ELSE PartAfter(Queue, D, p, OnDisk(p))
    <3> HIDE DEF D
    <3> QED BY ONLY <1>12, AfterAdd, SMT
  <2> QED BY <2>1, <2>2, <2>3
<1>14. ASSUME NEW p \in Parts, FirstRune[p] = c, NEW id \in Ids
       PROVE  a.docs[p][id] = DocAfter(Queue, D \cup {k}, p, id, DiskDoc(p, id))
  <2>1. b.docs[p][id] = DocAfter(Queue, D, p, id, DiskDoc(p, id))
    BY <1>4, <1>14 DEF Built
  <2>2. a.docs[p][id] =
          IF cmd.part = p /\ (cmd.type = "DELETE_PART" \/ (cmd.type \in DocTypes /\ cmd.id = id))
          THEN IF cmd.type \in {"POST", "PUT"} THEN cmd.doc ELSE NoDoc
          ELSE b.docs[p][id]
    BY <1>3, <1>6, ApplyToDoc
  <2>3. DocAfter(Queue, D \cup {k}, p, id, DiskDoc(p, id)) =
          IF cmd.part = p /\ (cmd.type \in PartTypes \/ cmd.id = id)
          THEN IF cmd.type \in {"POST", "PUT"} THEN cmd.doc ELSE NoDoc
          ELSE DocAfter(Queue, D, p, id, DiskDoc(p, id))
    <3> HIDE DEF D
    <3> QED BY ONLY <1>12, DocAfterAdd, SMT
  <2>4. cmd.type = "CREATE_PART" /\ cmd.part = p => DocAfter(Queue, D, p, id, DiskDoc(p, id)) = NoDoc
    <3> SUFFICES ASSUME cmd.type = "CREATE_PART", cmd.part = p
                 PROVE  DocAfter(Queue, D, p, id, DiskDoc(p, id)) = NoDoc
      OBVIOUS
    <3>1. \A j \in D : \A i \in G : i < j => i \in D
      BY <1>4, <1>5 DEF Built, Done
    <3>2. \A i \in G : i < k => i \in D
      BY <1>2, <1>5 DEF Done
    <3>3. \A j \in D : Queue[j].part = p => LegalAt(Queue, D, j, OnDisk(p))
      BY <1>3, <1>5, <1>11, <3>1, LegalWithin
    <3>4. Before(D, k) = D
      BY <1>5 DEF Before
    <3>5. LegalAt(Queue, D, k, OnDisk(p))
      BY <1>3, <1>5, <1>11, <3>2, LegalWithin
    <3>6. PartAfter(Queue, D, p, OnDisk(p)) # "CREATE_PART"
      BY <3>4, <3>5 DEF LegalAt
    <3>7. \A j \in D : Queue[j].type \in PartTypes \cup DocTypes
      BY <1>3, <1>5, QueueType
    <3>8. OnDisk(p) # "CREATE_PART" => DiskDoc(p, id) = NoDoc
      BY <1>3, BlockTypes DEF OnDisk
    <3> HIDE DEF D
    <3> QED BY <1>12, <3>3, <3>6, <3>7, <3>8, NoPartNoDoc
  <2>5. cmd.type \in PartTypes \cup DocTypes
    BY <1>3, <1>5, QueueType
  <2> HIDE DEF cmd, a, b, D
  <2> QED BY <2>1, <2>2, <2>3, <2>4, <2>5 DEF PartTypes, DocTypes
<1>15. Built(c)'
  <2>1. \A p, id : OnDisk(p)' = OnDisk(p) /\ DiskDoc(p, id)' = DiskDoc(p, id)
    BY <1>1, <1>3, FrameStores
  <2>2. /\ tx'[c].todo \subseteq G'
        /\ \A i \in D \cup {k}, j \in tx'[c].todo : i < j
    <3>1. \A i \in tx[c].todo : i \in Nat
      BY <1>5
    <3> QED BY <1>2, <1>4, <1>5, <1>7, <1>8, <3>1 DEF Built
  <2> HIDE DEF a, b, D, G
  <2> QED BY <1>7, <1>8, <1>13, <1>14, <2>1, <2>2 DEF Built, G
<1>16. ShardBuilding(c)'
  BY <1>7, <1>15 DEF ShardBuilding
<1> QED BY <1>1, <1>2, <1>3, <1>7, <1>9, <1>10, <1>16, GoroutineFrame

LEMMA StoreIndexBatch ==
  ASSUME IInv, BInv, IInv', NEW c \in Shards, IndexBatch(c)
  PROVE  BInv'
<1>1. /\ phase = "apply" /\ tx[c].state = "run" /\ tx[c].todo = {}
      /\ tx' = [tx EXCEPT ![c].state = "indexed"]
      /\ UNCHANGED <<log, phase, pending, block>>
  BY DEF IndexBatch, hostVars
<1>2. tx \in [Shards -> Txs] /\ SameQueue
  BY <1>1 DEF IInv, TypeOK, SameQueue
<1>3. /\ tx'[c].state = "indexed" /\ tx'[c].todo = {} /\ tx'[c].block = tx[c].block
      /\ \A d \in Shards \ {c} : tx'[d] = tx[d]
  BY <1>1, <1>2 DEF Txs
<1>4. Built(c) /\ ShardLegal(c) /\ Clean
  BY <1>1, ByShard DEF BInv, ShardBuilding
<1>5. Clean'
  BY <1>1, <1>4 DEF Clean
<1>6. /\ Queue' = Queue /\ GetPendingUpdatesForShard(c)' = GetPendingUpdatesForShard(c)
      /\ Done(c)' = Done(c)
  BY <1>1, <1>2, <1>3, FrameQueue DEF Done
<1>7. \A p, id : OnDisk(p)' = OnDisk(p) /\ DiskDoc(p, id)' = DiskDoc(p, id)
  BY <1>1, <1>2, FrameStores
<1>8. Built(c)'
  BY <1>1, <1>3, <1>4, <1>6, <1>7 DEF Built
<1>9. ShardLegal(c)'
  BY <1>1, <1>3, <1>4, <1>6, <1>7 DEF ShardLegal, Undone
<1>10. ShardBuilding(c)'
  BY <1>3, <1>8 DEF ShardBuilding
<1> QED BY <1>1, <1>2, <1>3, <1>5, <1>9, <1>10, GoroutineFrame

(* A shard's transaction commits what clients already see, and they see the  *)
(* same afterwards.                                                          *)
LEMMA CommitStores ==
  ASSUME IInv, BInv, NEW c \in Shards, TxCommit(c), NEW p \in Parts, FirstRune[p] = c
  PROVE  /\ p \in tx[c].block.buckets <=> LivePart(p)
         /\ DiskPart(p)' <=> LivePart(p)
         /\ LivePart(p)' <=> LivePart(p)
         /\ \A id \in Ids : /\ tx[c].block.docs[p][id] = LiveDoc(p, id)
                            /\ DiskDoc(p, id)' = LiveDoc(p, id)
                            /\ LiveDoc(p, id)' = LiveDoc(p, id)
<1>1. /\ phase = "apply" /\ tx[c].state = "indexed"
      /\ block' = [block EXCEPT ![c] = tx[c].block]
      /\ UNCHANGED <<log, pending>>
  BY DEF TxCommit, hostVars
<1> DEFINE G == GetPendingUpdatesForShard(c)
           N == 1..Len(pending)
<1>2. TypeOK /\ block'[c] = tx[c].block /\ SameQueue /\ Len(pending) \in Nat /\ QueueLegal
  BY <1>1, PendingInLog DEF IInv, TypeOK, SameQueue, BInv
<1>3. Built(c) /\ tx[c].todo = {} /\ Done(c) = G
  BY <1>1 DEF BInv, Building, Built, Done
<1>4. Queue' = Queue
  BY <1>2, FrameQueue
<1>5. G \subseteq N /\ G \cap G = N \cap G /\ N \subseteq N /\ Bounded(G)
  BY <1>2 DEF GetPendingUpdatesForShard, Bounded
<1>6. PartPos(Queue, G, p) = PartPos(Queue, N, p) /\ \A id : DocPos(Queue, G, p, id) = DocPos(Queue, N, p, id)
  <2> HIDE DEF N
  <2> QED BY <1>2, <1>5, ShardPositions DEF N
<1>7. p \in tx[c].block.buckets <=> LivePart(p)
  <2>1. PartAfter(Queue, G, p, OnDisk(p)) = PartAfter(Queue, N, p, OnDisk(p))
    BY <1>6 DEF PartAfter
  <2>2. p \in tx[c].block.buckets <=> PartAfter(Queue, G, p, OnDisk(p)) = "CREATE_PART"
    BY <1>3 DEF Built
  <2> QED BY <1>2, <2>1, <2>2, LiveIs
<1>8. DiskPart(p)' <=> LivePart(p)
  BY <1>2, <1>7 DEF DiskPart
<1>9. LivePart(p)' <=> LivePart(p)
  <2>1. LivePart(p)' <=> PartAfter(Queue, N, p, OnDisk(p)') = "CREATE_PART"
    BY <1>1, <1>2, <1>4, LiveIsNext DEF LiveIsQueue
  <2>2. LivePart(p) <=> PartAfter(Queue, N, p, OnDisk(p)) = "CREATE_PART"
    BY <1>2, LiveIs
  <2>3. OnDisk(p)' = "CREATE_PART" <=> LivePart(p)
    BY <1>8 DEF OnDisk
  <2>4. CASE Newest(PartPos(Queue, N, p)) = 0
    BY <2>1, <2>3, <2>4 DEF PartAfter
  <2>5. CASE Newest(PartPos(Queue, N, p)) # 0
    BY <2>1, <2>2, <2>5 DEF PartAfter
  <2> QED BY <2>4, <2>5
<1>10. ASSUME NEW id \in Ids
       PROVE  /\ tx[c].block.docs[p][id] = LiveDoc(p, id)
              /\ DiskDoc(p, id)' = LiveDoc(p, id)
              /\ LiveDoc(p, id)' = LiveDoc(p, id)
  <2>1. DocAfter(Queue, G, p, id, DiskDoc(p, id)) = DocAfter(Queue, N, p, id, DiskDoc(p, id))
    BY <1>6 DEF DocAfter
  <2>2. tx[c].block.docs[p][id] = DocAfter(Queue, G, p, id, DiskDoc(p, id))
    BY <1>3 DEF Built
  <2>3. tx[c].block.docs[p][id] = LiveDoc(p, id)
    BY <1>2, <2>1, <2>2, LiveIs
  <2>4. ~LivePart(p) => LiveDoc(p, id) = NoDoc
    BY <1>1, <1>2, LiveNoPart DEF Undone
  <2>5. DiskDoc(p, id)' = LiveDoc(p, id)
    BY <1>2, <1>8, <2>3, <2>4 DEF DiskDoc
  <2>6. LiveDoc(p, id)' = DocAfter(Queue, N, p, id, DiskDoc(p, id)')
    BY <1>1, <1>2, <1>4, LiveIsNext DEF LiveIsQueue
  <2>7. LiveDoc(p, id) = DocAfter(Queue, N, p, id, DiskDoc(p, id))
    BY <1>2, LiveIs
  <2>8. LiveDoc(p, id)' = LiveDoc(p, id)
    <3>1. CASE Newest(DocPos(Queue, N, p, id)) = 0
      BY <2>5, <2>6, <3>1 DEF DocAfter
    <3>2. CASE Newest(DocPos(Queue, N, p, id)) # 0
      BY <2>6, <2>7, <3>2 DEF DocAfter
    <3> QED BY <3>1, <3>2
  <2> QED BY <2>3, <2>5, <2>8
<1> QED BY <1>7, <1>8, <1>9, <1>10

LEMMA StoreTxCommit ==
  ASSUME IInv, BInv, IInv', NEW c \in Shards, TxCommit(c)
  PROVE  BInv'
<1>1. /\ phase = "apply" /\ tx[c].state = "indexed"
      /\ block' = [block EXCEPT ![c] = tx[c].block]
      /\ tx' = [tx EXCEPT ![c].state = "done"]
      /\ UNCHANGED <<log, phase, pending>>
  BY DEF TxCommit, hostVars
<1>2. SameQueue /\ tx \in [Shards -> Txs] /\ block \in [Shards -> Blocks]
  BY <1>1 DEF IInv, TypeOK, SameQueue
<1>3. /\ tx'[c].state = "done" /\ block'[c] = tx[c].block
      /\ \A d \in Shards \ {c} : tx'[d] = tx[d] /\ block'[d] = block[d]
  BY <1>1, <1>2 DEF Txs
<1>4. Committed(c)'
  BY CommitStores DEF Committed
<1>5. ShardBuilding(c)' /\ ShardLegal(c)'
  BY <1>1, <1>3, <1>4 DEF ShardBuilding, ShardLegal, Undone
<1>6. Clean'
  <2> SUFFICES ASSUME NEW p \in Parts, NEW id \in Ids, FirstRune[p] \in Shards,
                      p \notin block'[FirstRune[p]].buckets
               PROVE  block'[FirstRune[p]].docs[p][id] = NoDoc
    BY DEF Clean
  <2>1. CASE FirstRune[p] = c
    <3>1. ~LivePart(p) /\ block'[c].docs[p][id] = LiveDoc(p, id)
      BY <1>3, <2>1, CommitStores
    <3>2. LiveDoc(p, id) = NoDoc
      BY <1>1, <2>1, <3>1, LiveNoPart DEF BInv, Undone
    <3> QED BY <2>1, <3>1, <3>2
  <2>2. CASE FirstRune[p] # c
    BY <1>3, <2>2 DEF BInv, Clean
  <2> QED BY <2>1, <2>2
<1> QED BY <1>1, <1>2, <1>3, <1>5, <1>6, GoroutineFrame

(* Steps that empty the queue, with no goroutine left. *)
LEMMA StoreEmptied ==
  ASSUME BInv, pending' = <<>>, phase' \notin {"update", "apply"}, block' = block
  PROVE  BInv'
<1>2. Clean'
  BY DEF BInv, Clean
<1>3. QueueLegal' /\ Building'
  BY DEF QueueLegal, Building
<1> QED BY <1>2, <1>3 DEF BInv

LEMMA StoreInit == Init => SInv
<1> SUFFICES ASSUME Init PROVE SInv
  OBVIOUS
<1>1. batch = {} /\ DOMAIN existing = {} /\ pending = <<>> /\ phase = "idle"
  BY DEF Init, NoEntries
<1>2. OneOfShard /\ LookedUp /\ QueueLegal /\ Building
  BY <1>1 DEF OneOfShard, LookedUp, AtHand, QueueLegal, Building
<1>3. Clean
  BY DEF Init, Clean, EmptyBlock, NoDocs
<1> QED BY <1>2, <1>3 DEF SInv

(* A step keeps blocks, queue and goroutines together if what it accepts is  *)
(* legal.                                                                    *)
LEMMA BlocksStep ==
  ASSUME IInv, BInv, IInv', [Next]_vars, DecideEntry => BInv'
  PROVE  BInv'
<1>1. ASSUME NEW cmd \in Commands, Propose(cmd) PROVE BInv'
  <2>1. SameQueue /\ UNCHANGED <<block, tx, phase>>
    BY <1>1 DEF Propose, updateVars, diskVars, SameQueue, IInv, TypeOK
  <2> QED BY <2>1, StoreFrame
<1>2. ASSUME UpdateStep PROVE BInv'
  <2>1. ASSUME NEW n \in 1..MaxBatch, UpdateStart(n) PROVE BInv'
    <3>1. SameQueue /\ UNCHANGED <<block, tx>> /\ phase = "idle" /\ phase' = "update"
      BY <2>1 DEF UpdateStart, SameQueue, hostVars, diskVars
    <3> QED BY <3>1, StoreFrame
  <2>2. ASSUME NEW c \in Shards, UpdateShard(c) PROVE BInv'
    <3>1. SameQueue /\ UNCHANGED <<block, tx, phase>>
      BY <2>2 DEF UpdateShard, SameQueue, hostVars, diskVars
    <3> QED BY <3>1, StoreFrame
  <2>3. ASSUME UpdateReturn PROVE BInv'
    <3>1. SameQueue /\ UNCHANGED <<block, tx>> /\ phase = "update" /\ phase' = "idle"
      BY <2>3 DEF UpdateReturn, SameQueue, diskVars
    <3> QED BY <3>1, StoreFrame
  <2> QED BY <1>2, <2>1, <2>2, <2>3 DEF UpdateStep
<1>3. ASSUME SyncStart PROVE BInv'
  BY <1>3, StoreSyncStart
<1>4. ASSUME Stop PROVE BInv'
  BY <1>4, StoreEmptied DEF Stop, diskVars
<1>5. ASSUME SyncStep PROVE BInv'
  <2>1. ASSUME NEW c \in Shards, SyncPanic(c) PROVE BInv'
    BY <1>4, <2>1 DEF SyncPanic
  <2>2. ASSUME ClearPendingQueue PROVE BInv'
    BY <2>2, StoreEmptied DEF ClearPendingQueue, diskVars
  <2>3. ASSUME UpdateLastUpdateIndex PROVE BInv'
    <3>1. SameQueue /\ UNCHANGED <<block, tx>> /\ phase = "meta" /\ phase' = "idle"
      BY <2>3 DEF UpdateLastUpdateIndex, SameQueue, hostVars
    <3> QED BY <3>1, StoreFrame
  <2> QED BY <1>5, <2>1, <2>2, <2>3, StoreTxApply, StoreIndexBatch, StoreTxCommit DEF SyncStep
<1>6. ASSUME Open PROVE BInv'
  <2>1. SameQueue /\ UNCHANGED <<block, tx>> /\ phase = "idle" /\ phase' = "idle"
    BY <1>6 DEF Open, SameQueue, diskVars, IInv, Memory
  <2> QED BY <2>1, StoreFrame
<1>7. ASSUME Crash \/ Close PROVE BInv'
  BY <1>4, <1>7 DEF Crash, Close
<1>8. CASE UNCHANGED vars
  <2>1. SameQueue /\ UNCHANGED <<block, tx, phase>>
    BY <1>8 DEF vars, SameQueue
  <2> QED BY <2>1, StoreFrame
<1> QED BY <1>1, <1>2, <1>3, <1>5, <1>6, <1>7, <1>8 DEF Next

LEMMA StoreStep ==
  ASSUME MaxShardBatch <= 1, IInv, SInv, IInv', [Next]_vars
  PROVE  SInv'
<1>1. BInv'
  BY BlocksStep, StoreDecide DEF SInv, BInv
<1>2. CASE phase' # "update"
  BY <1>1, <1>2, NothingAtHandNext DEF NothingAtHandNow, SInv, BInv
<1>3. CASE phase' = "update"
  <2>1. CASE \E cmd \in Commands : Propose(cmd)
    BY <2>1, StorePropose
  <2>2. CASE UpdateStep
    <3>1. ~UpdateReturn
      BY <1>3 DEF UpdateReturn
    <3> QED BY <2>2, <3>1, StoreUpdateStart, StoreUpdateShard, StoreDecide DEF UpdateStep
  <2>3. ~SyncStart /\ ~SyncStep /\ ~Stop
    <3>1. ~SyncStart /\ ~Stop
      BY <1>3 DEF SyncStart, Stop
    <3>2. ~SyncStep
      BY <1>3 DEF SyncStep, TxApply, NextInTx, IndexBatch, TxCommit, SyncPanic, Stop,
                  ClearPendingQueue, UpdateLastUpdateIndex
    <3> QED BY <3>1, <3>2
  <2>4. ~Open /\ ~Crash /\ ~Close
    BY <1>3, <2>3 DEF Open, Crash, Close, IInv, Memory
  <2>5. CASE UNCHANGED vars
    <3>1. SameQueue /\ UNCHANGED <<log, batch, existing, pending, block, tx, phase>>
      BY <2>5 DEF vars, SameQueue
    <3>2. OneOfShard'
      BY <3>1 DEF SInv, OneOfShard, AtHand
    <3>3. LookedUp'
      <4> SUFFICES ASSUME NEW i \in DOMAIN existing
                   PROVE  existing = FindExisting(ShardOf(log[i]), {i})'
        BY <3>1 DEF LookedUp
      <4>1. FindExisting(ShardOf(log[i]), {i})' = FindExisting(ShardOf(log[i]), {i})
        BY <3>1, FoundFrame DEF IInv, TypeOK
      <4> QED BY <4>1 DEF SInv, LookedUp
    <3> QED BY <1>1, <3>2, <3>3 DEF SInv, BInv
  <2> QED BY <2>1, <2>2, <2>3, <2>4, <2>5 DEF Next
<1> QED BY <1>2, <1>3

LEMMA StoreInvariant ==
  ASSUME MaxShardBatch <= 1
  PROVE  Spec => [](IInv /\ SInv)
<1>1. Init => IInv /\ SInv
  BY RecoveryInit, StoreInit
<1>2. (IInv /\ SInv) /\ [Next]_vars => (IInv /\ SInv)'
  BY RecoveryStep, StoreStep
<1> QED BY <1>1, <1>2, PTL DEF Spec

-----------------------------------------------------------------------------
(* A goroutine meets the bucket that its entry needs. *)
LEMMA BucketThere ==
  ASSUME IInv, BInv, NEW c \in Shards, NEW k \in tx[c].todo, NextInTx(c, k)
  PROVE  ~NilBucket(tx[c].block, Queued(k))
<1> DEFINE G == GetPendingUpdatesForShard(c)
           D == Done(c)
           cmd == Queue[k]
<1>1. /\ phase = "apply" /\ tx[c].state = "run" /\ \A j \in tx[c].todo : k <= j
  BY DEF NextInTx
<1>2. TypeOK /\ Built(c) /\ ShardLegal(c)
  BY <1>1, ByShard DEF IInv, BInv, ShardBuilding
<1>3. k \in G /\ D \subseteq G /\ G \subseteq 1..Len(pending) /\ Len(pending) \in Nat
  BY <1>2, QueueType DEF Built, Done, GetPendingUpdatesForShard
<1>4. cmd = Queued(k) /\ cmd.part \in Parts /\ FirstRune[cmd.part] = c
  BY <1>2, <1>3, QueueType DEF Queued, GetPendingUpdatesForShard
<1>5. /\ \A j \in G : j < k => j \in D
      /\ Before(D, k) = D
  BY <1>1, <1>2, <1>3 DEF Done, Before, Built
<1>6. LegalAt(Queue, 1..Len(pending), k, OnDisk(cmd.part))
  BY <1>1, <1>2, <1>3 DEF ShardLegal, Undone
<1>7. LegalAt(Queue, D, k, OnDisk(cmd.part))
  BY <1>2, <1>3, <1>5, <1>6, LegalWithin
<1>8. cmd.part \in tx[c].block.buckets <=> PartAfter(Queue, D, cmd.part, OnDisk(cmd.part)) = "CREATE_PART"
  BY <1>2, <1>4 DEF Built
<1> QED BY <1>4, <1>5, <1>7, <1>8 DEF LegalAt, NilBucket

(* Sync finds a bucket for every entry it applies, whatever Updates, Syncs   *)
(* and restarts came before: no goroutine of ApplyUpdates takes the process  *)
(* down when the host gives Update at most one entry of a shard at a time.   *)
THEOREM SyncNeverPanicsCorrect ==
  ASSUME MaxShardBatch <= 1
  PROVE  Spec => []SyncNeverPanics
<1>1. IInv /\ SInv => SyncNeverPanics
  BY BucketThere DEF SyncNeverPanics, SInv, BInv
<1> QED BY <1>1, StoreInvariant, PTL

(* Update gives every entry the code it would give with the queue flushed,   *)
(* so replicas that Sync at different moments decide alike; the exception is *)
(* an entry for which the scan of the queue stops at a DEL.                  *)
THEOREM DecidesAsIfFlushedCorrect ==
  ASSUME MaxShardBatch <= 1
  PROVE  Spec => DecidesAsIfFlushed
<1> DEFINE AsIfFlushed ==
      \A i \in DOMAIN existing \ DOMAIN existing' :
        \/ phase' # "update"
        \/ LET k == FindCommandInPending(log[i])
           IN  k # 0 /\ Queued(k).type = "DEL"
        \/ result'[i] = Decide(log[i], FlushedExisting(log[i]))
<1>1. ASSUME IInv, SInv, NEW i \in 1..Len(log), Decides(i),
             ~LET k == FindCommandInPending(log[i]) IN k # 0 /\ Queued(k).type = "DEL"
      PROVE  Decide(log[i], existing[i]) = Decide(log[i], FlushedExisting(log[i]))
  <2> DEFINE cmd == log[i]
             e == existing[i]
             f == FlushedExisting(cmd)
  <2>1. cmd.type \in {"POST", "PUT", "DEL", "CREATE_PART", "DELETE_PART"}
    BY <1>1, CommandType DEF IInv, TypeOK
  <2>2. /\ e.partExists \in BOOLEAN /\ (e.partExists <=> LivePart(cmd.part))
        /\ ~IsPart(cmd) => e.doc = LiveDoc(cmd.part, cmd.id)
    BY <1>1, FoundIsLive DEF Decides, SInv
  <2>3. (f.partExists <=> LivePart(cmd.part)) /\ (~IsPart(cmd) => f.doc = LiveDoc(cmd.part, cmd.id))
    BY DEF FlushedExisting
  <2> HIDE DEF cmd, e, f
  <2>4. Decide(cmd, e) = Decide(cmd, f)
    BY <2>1, <2>2, <2>3 DEF Decide, IsPart
  <2> QED BY <2>4 DEF cmd, e, f
<1>2. ASSUME IInv, SInv, DecideEntry PROVE AsIfFlushed
  <2>1. PICK i \in 1..Len(log) : Decides(i)
    BY <1>2, DecidesOne
  <2>2. DOMAIN existing \ DOMAIN existing' = {i} /\ result'[i] = Decide(log[i], existing[i])
    BY <2>1 DEF Decides
  <2> QED BY <1>1, <1>2, <2>1, <2>2
<1>3. ASSUME IInv, [Next]_vars, ~DecideEntry
      PROVE  phase' # "update" \/ DOMAIN existing \ DOMAIN existing' = {}
  <2>1. ASSUME NEW c \in Shards, UpdateShard(c) PROVE DOMAIN existing = {}
    BY <2>1 DEF UpdateShard
  <2>2. ASSUME UpdateReturn \/ Stop \/ SyncStart \/ ClearPendingQueue \/ UpdateLastUpdateIndex
        PROVE  phase' # "update"
    BY <2>2 DEF UpdateReturn, Stop, SyncStart, ClearPendingQueue, UpdateLastUpdateIndex
  <2>3. ASSUME Open \/ UNCHANGED vars \/ (\E cmd \in Commands : Propose(cmd))
                 \/ (\E n \in 1..MaxBatch : UpdateStart(n))
                 \/ (\E c \in Shards : TxApply(c) \/ IndexBatch(c) \/ TxCommit(c))
        PROVE  existing' = existing
    BY <2>3 DEF Open, vars, Propose, UpdateStart, TxApply, IndexBatch, TxCommit, updateVars
  <2> QED BY <1>3, <2>1, <2>2, <2>3 DEF Next, UpdateStep, SyncStep, SyncPanic, Crash, Close
<1>4. IInv /\ SInv /\ [Next]_vars => [AsIfFlushed]_vars
  BY <1>2, <1>3
<1> QED BY <1>4, StoreInvariant, PTL DEF Spec, DecidesAsIfFlushed

-----------------------------------------------------------------------------
(* The refinement of DocStore. *)

Live == Store(LivePart, LiveDoc)

Disk == Store(DiskPart, DiskDoc)

LEMMA SameTruth ==
  ASSUME NEW a \in BOOLEAN, NEW b \in BOOLEAN, a <=> b
  PROVE  a = b
  BY SMT

StoresAre ==
  /\ \A p : LivePart(p) \in BOOLEAN /\ DiskPart(p) \in BOOLEAN
  /\ Live = [p \in Parts |-> [exists |-> LivePart(p), docs |-> [id \in Ids |-> LiveDoc(p, id)]]]
  /\ Disk = [p \in Parts |-> [exists |-> DiskPart(p), docs |-> [id \in Ids |-> DiskDoc(p, id)]]]

LEMMA StoresAreNow == StoresAre
<1>1. \A p : DiskPart(p) \in BOOLEAN
  BY DEF DiskPart
<1>2. \A p : LivePart(p) \in BOOLEAN
  BY <1>1, Zenon DEF LivePart
<1>3. /\ Live = [p \in Parts |-> [exists |-> LivePart(p), docs |-> [id \in Ids |-> LiveDoc(p, id)]]]
      /\ Disk = [p \in Parts |-> [exists |-> DiskPart(p), docs |-> [id \in Ids |-> DiskDoc(p, id)]]]
  BY DEF Live, Disk, Store
<1> QED BY <1>1, <1>2, <1>3 DEF StoresAre

LEMMA StoresAreNext == StoresAre'
  BY StoresAreNow, PTL

(* Stores with the same parts and documents are the same. *)
LEMMA SameLive ==
  ASSUME \A p \in Parts : (LivePart(p)' <=> LivePart(p)) /\ \A id \in Ids : LiveDoc(p, id)' = LiveDoc(p, id)
  PROVE  Live' = Live
<1>1. \A p \in Parts : LivePart(p)' = LivePart(p)
  BY StoresAreNow, StoresAreNext, SameTruth DEF StoresAre
<1> QED BY <1>1, StoresAreNow, StoresAreNext DEF StoresAre

LEMMA SameDisk ==
  ASSUME block' = block
  PROVE  Disk' = Disk
<1>1. \A p : DiskPart(p)' = DiskPart(p)
  BY DEF DiskPart
<1>2. \A p, id : DiskDoc(p, id)' = DiskDoc(p, id)
  BY DEF DiskDoc, DiskPart
<1> QED BY <1>1, <1>2, StoresAreNow, StoresAreNext DEF StoresAre

LEMMA SameStores ==
  ASSUME IInv, SameQueue, block' = block
  PROVE  Live' = Live /\ Disk' = Disk
  BY FrameStores, SameLive, SameDisk

(* An emptied queue leaves what is on disk. *)
LEMMA EmptyQueue ==
  ASSUME pending' = <<>>, NEW p, NEW id
  PROVE  (LivePart(p)' <=> DiskPart(p)') /\ LiveDoc(p, id)' = DiskDoc(p, id)'
<1>1. Len(pending') = 0 /\ 1..0 = {}
  OBVIOUS
<1>2. /\ LivePart(p)' <=> PartAfter(Queue', {}, p, OnDisk(p)') = "CREATE_PART"
      /\ LiveDoc(p, id)' = DocAfter(Queue', {}, p, id, DiskDoc(p, id)')
  BY <1>1, LiveIsNext DEF LiveIsQueue
<1>3. Newest({}) = 0 /\ PartPos(Queue', {}, p) = {} /\ DocPos(Queue', {}, p, id) = {}
  BY DEF Newest, PartPos, DocPos
<1>4. PartAfter(Queue', {}, p, OnDisk(p)') = OnDisk(p)'
  BY <1>3 DEF PartAfter
<1>5. DocAfter(Queue', {}, p, id, DiskDoc(p, id)') = DiskDoc(p, id)'
  BY <1>3 DEF DocAfter
<1> QED BY <1>2, <1>4, <1>5 DEF OnDisk

(* A stop loses what was not on disk. *)
LEMMA StopLoses ==
  ASSUME Stop
  PROVE  DS!Lose
<1>1. pending' = <<>> /\ block' = block
  BY DEF Stop, diskVars
<1>2. Disk' = Disk
  BY <1>1, SameDisk
<1>3. \A p \in Parts : LivePart(p)' = DiskPart(p)'
  BY <1>1, EmptyQueue, StoresAreNext, SameTruth DEF StoresAre
<1>4. \A p \in Parts, id \in Ids : LiveDoc(p, id)' = DiskDoc(p, id)'
  BY <1>1, EmptyQueue
<1>5. Live' = Disk'
  BY <1>3, <1>4, StoresAreNext DEF StoresAre
<1> QED BY <1>2, <1>5 DEF DS!Lose, Live, Disk

(* The end of a Sync changes nothing that clients see. *)
LEMMA ClearKeeps ==
  ASSUME IInv, BInv, ClearPendingQueue, NEW q \in Parts
  PROVE  (LivePart(q)' <=> LivePart(q)) /\ \A id \in Ids : LiveDoc(q, id)' = LiveDoc(q, id)
<1>1. phase = "apply" /\ Wait /\ pending' = <<>> /\ block' = block
  BY DEF ClearPendingQueue, diskVars
<1>2. ASSUME NEW p \in Parts
      PROVE  (LivePart(p) <=> DiskPart(p)) /\ \A id \in Ids : LiveDoc(p, id) = DiskDoc(p, id)
  <2>1. CASE FirstRune[p] \in Shards /\ tx[FirstRune[p]].state = "done"
    BY <1>1, <2>1 DEF BInv, Building, Committed
  <2>2. CASE ~(FirstRune[p] \in Shards /\ tx[FirstRune[p]].state = "done")
    <3>1. FirstRune[p] \in Shards => tx[FirstRune[p]].state = "none"
      BY <1>1, <2>2 DEF Wait
    <3>2. GetPendingUpdatesForShard(FirstRune[p]) = {}
      BY <1>1, <3>1 DEF BInv, Building, IInv, QueueCovered, GetPendingUpdatesForShard
    <3>3. \A j \in 1..Len(pending) : Queue[j].part # p
      BY <3>2, QueueType DEF IInv, GetPendingUpdatesForShard
    <3>4. /\ PartPos(Queue, 1..Len(pending), p) = {} /\ Newest({}) = 0
          /\ \A id : DocPos(Queue, 1..Len(pending), p, id) = {}
      BY <3>3 DEF PartPos, DocPos, Newest
    <3>5. PartAfter(Queue, 1..Len(pending), p, OnDisk(p)) = OnDisk(p)
      BY <3>4 DEF PartAfter
    <3>6. \A id : DocAfter(Queue, 1..Len(pending), p, id, DiskDoc(p, id)) = DiskDoc(p, id)
      BY <3>4 DEF DocAfter
    <3>7. Len(pending) \in Nat
      BY PendingInLog DEF IInv
    <3> QED BY <3>5, <3>6, <3>7, LiveIsNow DEF LiveIsQueue, OnDisk
  <2> QED BY <2>1, <2>2
<1>3. \A p, id : DiskPart(p)' = DiskPart(p) /\ DiskDoc(p, id)' = DiskDoc(p, id)
  BY <1>1 DEF DiskPart, DiskDoc
<1> QED BY <1>1, <1>2, <1>3, EmptyQueue

LEMMA ClearStutters ==
  ASSUME IInv, SInv, ClearPendingQueue
  PROVE  Live' = Live /\ Disk' = Disk
<1>1. block' = block
  BY DEF ClearPendingQueue, diskVars
<1>2. \A p \in Parts :
        (LivePart(p)' <=> LivePart(p)) /\ \A id \in Ids : LiveDoc(p, id)' = LiveDoc(p, id)
  BY ClearKeeps DEF SInv, BInv
<1> QED BY <1>1, <1>2, SameLive, SameDisk

(* A shard's transaction makes durable what is live of that shard. *)
LEMMA CommitPersists ==
  ASSUME IInv, SInv, NEW c \in Shards, TxCommit(c)
  PROVE  DS!Persist(c)
<1>1. SameQueue /\ block' = [block EXCEPT ![c] = tx[c].block] /\ block \in [Shards -> Blocks]
  BY DEF TxCommit, hostVars, SameQueue, IInv, TypeOK
<1>2. ASSUME NEW p \in Parts, FirstRune[p] # c
      PROVE  /\ DiskPart(p)' = DiskPart(p)
             /\ LivePart(p)' <=> LivePart(p)
             /\ \A id : DiskDoc(p, id)' = DiskDoc(p, id) /\ LiveDoc(p, id)' = LiveDoc(p, id)
  <2>1. FirstRune[p] \in Shards => block'[FirstRune[p]] = block[FirstRune[p]]
    BY <1>1, <1>2
  <2>2. (DiskPart(p)' <=> DiskPart(p)) /\ DiskPart(p) \in BOOLEAN /\ DiskPart(p)' \in BOOLEAN
    BY <2>1 DEF DiskPart
  <2>3. DiskPart(p)' = DiskPart(p)
    BY <2>2, SameTruth
  <2>4. \A id : DiskDoc(p, id)' = DiskDoc(p, id)
    <3>1. DiskPart(p) => FirstRune[p] \in Shards
      BY DEF DiskPart
    <3> QED BY <2>1, <2>3, <3>1 DEF DiskDoc
  <2>5. OnDisk(p)' = OnDisk(p)
    BY <2>3 DEF OnDisk
  <2>6. Queue' = Queue /\ pending' = pending /\ Len(pending) \in Nat
    BY <1>1, FrameQueue, PendingInLog DEF SameQueue, IInv
  <2>7. LivePart(p) <=> PartAfter(Queue, 1..Len(pending), p, OnDisk(p)) = "CREATE_PART"
    BY <2>6, LiveIsNow DEF LiveIsQueue
  <2>8. LivePart(p)' <=> PartAfter(Queue, 1..Len(pending), p, OnDisk(p)') = "CREATE_PART"
    BY <2>6, LiveIsNext DEF LiveIsQueue
  <2>9. \A id : LiveDoc(p, id) = DocAfter(Queue, 1..Len(pending), p, id, DiskDoc(p, id))
    BY <2>6, LiveIsNow DEF LiveIsQueue
  <2>10. \A id : LiveDoc(p, id)' = DocAfter(Queue, 1..Len(pending), p, id, DiskDoc(p, id)')
    BY <2>6, LiveIsNext DEF LiveIsQueue
  <2> QED BY <2>3, <2>4, <2>5, <2>7, <2>8, <2>9, <2>10
<1>3. Live' = Live
  BY <1>2, CommitStores, SameLive DEF SInv, BInv
<1>4. \A p \in Parts : DiskPart(p)' = IF FirstRune[p] = c THEN LivePart(p) ELSE DiskPart(p)
  <2>1. \A p \in Parts : FirstRune[p] = c => DiskPart(p)' = LivePart(p)
    BY CommitStores, StoresAreNow, StoresAreNext, SameTruth DEF StoresAre, SInv, BInv
  <2> QED BY <1>2, <2>1
<1>5. \A p \in Parts, id \in Ids :
        DiskDoc(p, id)' = IF FirstRune[p] = c THEN LiveDoc(p, id) ELSE DiskDoc(p, id)
  BY <1>2, CommitStores DEF SInv, BInv
<1>6. Disk' = [p \in Parts |-> IF FirstRune[p] = c THEN Live[p] ELSE Disk[p]]
  BY <1>4, <1>5, StoresAreNow, StoresAreNext DEF StoresAre
<1> QED BY <1>3, <1>6 DEF DS!Persist, Live, Disk

(* The updates of a store that DocStore's Effect makes, on the existence E   *)
(* and the documents F of its parts.                                         *)
Contents(E, F) == [p \in Parts |-> [exists |-> E[p], docs |-> F[p]]]

With(f, q, v) == [f EXCEPT ![q] = v]

WithExists(L, q, b) == [L EXCEPT ![q].exists = b]

WithDoc(L, q, x, d) == [L EXCEPT ![q].docs[x] = d]

LiveParts == [p \in Parts |-> LivePart(p)]

LiveDocs == [p \in Parts |-> [id \in Ids |-> LiveDoc(p, id)]]

LivesAre ==
  /\ Live = Contents(LiveParts, LiveDocs)
  /\ LiveParts = [p \in Parts |-> LiveParts[p]]
  /\ LiveDocs = [p \in Parts |-> LiveDocs[p]]
  /\ \A p \in Parts :
       /\ LiveParts[p] = LivePart(p)
       /\ LiveDocs[p] = [id \in Ids |-> LiveDocs[p][id]]
       /\ \A id \in Ids : LiveDocs[p][id] = LiveDoc(p, id)

LEMMA LivesAreNow == LivesAre
  BY DEF LivesAre, LiveParts, LiveDocs, Contents, Live, Store

LEMMA LivesAreNext == LivesAre'
  BY LivesAreNow, PTL

LEMMA SetExists ==
  ASSUME NEW E, DOMAIN E = Parts, NEW F, NEW q \in Parts, NEW b
  PROVE  WithExists(Contents(E, F), q, b) = Contents(With(E, q, b), F)
<1> DEFINE L == Contents(E, F)
<1>1. [L[q] EXCEPT !.exists = b] = [exists |-> b, docs |-> F[q]]
  BY DEF Contents
<1>2. [L EXCEPT ![q].exists = b] = [L EXCEPT ![q] = [exists |-> b, docs |-> F[q]]]
  BY <1>1
<1>3. [L EXCEPT ![q] = [exists |-> b, docs |-> F[q]]] = Contents([E EXCEPT ![q] = b], F)
  BY DEF Contents
<1> QED BY <1>2, <1>3 DEF With, WithExists

LEMMA SetAbsent ==
  ASSUME NEW E, DOMAIN E = Parts, NEW F, DOMAIN F = Parts, NEW q \in Parts, NEW b, NEW d
  PROVE  With(Contents(E, F), q, [exists |-> b, docs |-> d]) = Contents(With(E, q, b), With(F, q, d))
  BY DEF Contents, With

LEMMA SetDoc ==
  ASSUME NEW E, NEW F, DOMAIN F = Parts, NEW q \in Parts, NEW x, NEW d
  PROVE  WithDoc(Contents(E, F), q, x, d) = Contents(E, With(F, q, With(F[q], x, d)))
<1> DEFINE L == Contents(E, F)
           n == [F[q] EXCEPT ![x] = d]
<1>1. L[q] = [exists |-> E[q], docs |-> F[q]]
  BY DEF Contents
<1>2. [L[q] EXCEPT !.docs[x] = d] = [L[q] EXCEPT !.docs = n]
  BY <1>1
<1>3. [L[q] EXCEPT !.docs = n] = [exists |-> E[q], docs |-> n]
  <2> HIDE DEF n, L
  <2> QED BY <1>1
<1>4. [L EXCEPT ![q].docs[x] = d] = [L EXCEPT ![q] = [exists |-> E[q], docs |-> n]]
  BY <1>2, <1>3
<1>5. [L EXCEPT ![q] = [exists |-> E[q], docs |-> n]] = Contents(E, [F EXCEPT ![q] = n])
  <2> HIDE DEF n
  <2> QED BY DEF Contents
<1> QED BY <1>4, <1>5 DEF With, WithDoc

(* What Update accepts is legal and has the effect that DocStore gives it.   *)
(* A pending DEL passes for a document that was last updated at 0, so no     *)
(* command may name that stamp.                                              *)
LEMMA DecideAccepts ==
  ASSUME 0 \notin Stamps, IInv, SInv, NEW i \in 1..Len(log), Decides(i),
         Decide(log[i], existing[i]) = 200
  PROVE  DS!Accept(log[i])
<1> DEFINE cmd == log[i]
           e == existing[i]
           k == FindCommandInPending(cmd)
           q == cmd.part
<1>1. /\ cmd \in Commands
      /\ cmd.type \in {"POST", "PUT", "DEL", "CREATE_PART", "DELETE_PART"}
      /\ q \in Parts
      /\ ~IsPart(cmd) => cmd.id \in Ids
  BY CommandType DEF IInv, TypeOK
<1>2. cmd.type \in {"PUT", "DEL"} => cmd.ts \in Stamps
  BY <1>1, CommandsAssumption DEF WriteCommands, POST, PUT, DEL, CREATE_PART, DELETE_PART
<1>3. /\ e.partExists \in BOOLEAN
      /\ e.partExists <=> LivePart(q)
      /\ ~IsPart(cmd) =>
           IF k # 0 /\ Queued(k).type = "DEL"
           THEN e.doc = EmptyDoc /\ LiveDoc(q, cmd.id) = NoDoc
           ELSE e.doc = LiveDoc(q, cmd.id)
  BY FoundIsLive DEF Decides, SInv
<1>4. Decide(cmd, e) = 200
  OBVIOUS
<1>5. EmptyDoc # NoDoc /\ EmptyDoc.updated = 0
  BY NoDocAssumption DEF EmptyDoc
<1>6. pending' = Append(pending, i) /\ UNCHANGED <<log, block>>
  BY DEF Decides
<1>7. \A p, id :
        /\ LivePart(p)' <=> IF cmd.part = p /\ cmd.type \in PartTypes
                            THEN cmd.type = "CREATE_PART" ELSE LivePart(p)
        /\ LiveDoc(p, id)' = IF cmd.part = p /\ (cmd.type \in PartTypes \/ cmd.id = id)
                             THEN IF cmd.type \in {"POST", "PUT"} THEN cmd.doc ELSE NoDoc
                             ELSE LiveDoc(p, id)
  BY <1>6, AppendStores
<1>8. ~LivePart(q) => \A id \in Ids : LiveDoc(q, id) = NoDoc
  BY <1>1, LiveNoPart DEF SInv, Decides, Undone
<1>9. Disk' = Disk
  BY <1>6, SameDisk
<1>10. Live = [p \in Parts |-> [exists |-> LivePart(p), docs |-> [id \in Ids |-> LiveDoc(p, id)]]]
  BY StoresAreNow DEF StoresAre
<1>11. Live' = [p \in Parts |-> [exists |-> LivePart(p)', docs |-> [id \in Ids |-> LiveDoc(p, id)']]]
  BY StoresAreNext DEF StoresAre
<1>12. \A p : LivePart(p) \in BOOLEAN /\ LivePart(p)' \in BOOLEAN
  BY StoresAreNow, StoresAreNext DEF StoresAre
<1>13. \A p : p # q \/ cmd.type \notin PartTypes => LivePart(p)' = LivePart(p)
  BY <1>7, <1>12, SameTruth
<1>14. \A p : p = q => /\ cmd.type = "CREATE_PART" => LivePart(p)' = TRUE
                       /\ cmd.type = "DELETE_PART" => LivePart(p)' = FALSE
  <2>1. \A p : p = q => /\ cmd.type = "CREATE_PART" => (LivePart(p)' <=> TRUE)
                        /\ cmd.type = "DELETE_PART" => (LivePart(p)' <=> FALSE)
    BY <1>7 DEF PartTypes
  <2> QED BY <1>12, <2>1, SameTruth
<1> HIDE DEF cmd, e, k, q
<1>15. DS!Legal(Live, cmd)
  <2>1. /\ (Live[q].exists <=> LivePart(q))
        /\ ~IsPart(cmd) => Live[q].docs[cmd.id] = LiveDoc(q, cmd.id)
    BY <1>1, <1>10
  <2>2. CASE cmd.type = "CREATE_PART"
    <3>1. ~e.partExists
      BY <1>3, <1>4, <2>2 DEF Decide
    <3> QED BY <1>3, <2>1, <2>2, <3>1 DEF DS!Legal, q
  <2>3. CASE cmd.type = "DELETE_PART"
    <3>1. e.partExists
      BY <1>3, <1>4, <2>3 DEF Decide
    <3> QED BY <1>3, <2>1, <2>3, <3>1 DEF DS!Legal, q
  <2>4. CASE cmd.type = "POST"
    <3>1. e.partExists /\ e.doc = NoDoc
      BY <1>3, <1>4, <2>4 DEF Decide
    <3>2. LiveDoc(q, cmd.id) = NoDoc
      BY <1>3, <1>5, <2>4, <3>1 DEF IsPart
    <3> QED BY <1>3, <2>1, <2>4, <3>1, <3>2 DEF DS!Legal, q, IsPart
  <2>5. CASE cmd.type \in {"PUT", "DEL"}
    <3>1. e.partExists /\ e.doc # NoDoc /\ e.doc.updated = cmd.ts
      BY <1>3, <1>4, <2>5 DEF Decide
    <3>2. e.doc = LiveDoc(q, cmd.id)
      BY <1>2, <1>3, <1>5, <2>5, <3>1 DEF IsPart
    <3>3. Live[q].exists /\ Live[q].docs[cmd.id] # NoDoc /\ Live[q].docs[cmd.id].updated = cmd.ts
      BY <1>3, <2>1, <2>5, <3>1, <3>2 DEF IsPart
    <3> QED BY <2>5, <3>3 DEF DS!Legal, q
  <2> QED BY <1>1, <2>2, <2>3, <2>4, <2>5
<1>16. Live' = DS!Effect(Live, cmd)
  <2> DEFINE E == LiveParts
             F == LiveDocs
             G == LiveParts'
             H == LiveDocs'
             yes == TRUE
             no == FALSE
  <2>1. /\ Live = Contents(E, F) /\ Live' = Contents(G, H)
        /\ E = [p \in Parts |-> E[p]] /\ F = [p \in Parts |-> F[p]]
        /\ G = [p \in Parts |-> G[p]] /\ H = [p \in Parts |-> H[p]]
        /\ \A p \in Parts :
             /\ F[p] = [id \in Ids |-> F[p][id]] /\ \A id \in Ids : F[p][id] = LiveDoc(p, id)
             /\ H[p] = [id \in Ids |-> H[p][id]] /\ \A id \in Ids : H[p][id] = LiveDoc(p, id)'
    BY LivesAreNow, LivesAreNext DEF LivesAre
  <2>2. \A p \in Parts : /\ p # q \/ cmd.type \notin PartTypes => G[p] = E[p]
                         /\ p = q /\ cmd.type = "CREATE_PART" => G[p] = yes
                         /\ p = q /\ cmd.type = "DELETE_PART" => G[p] = no
    BY <1>13, <1>14, LivesAreNow, LivesAreNext DEF LivesAre
  <2> HIDE DEF E, F, G, H, yes, no
  <2>3. CASE cmd.type = "CREATE_PART"
    <3>1. ~LivePart(q)
      BY <1>1, <1>15, <1>10, <2>3 DEF DS!Legal, q
    <3>2. \A p \in Parts, id \in Ids : H[p][id] = F[p][id]
      BY <1>7, <1>8, <2>1, <2>3, <3>1 DEF PartTypes, q
    <3>3. H = F
      BY <2>1, <3>2
    <3>4. G = With(E, q, yes)
      BY <2>1, <2>2, <2>3 DEF PartTypes, With
    <3>5. DS!Effect(Live, cmd) = WithExists(Live, q, yes)
      BY <2>3 DEF DS!Effect, q, yes, WithExists
    <3>6. DOMAIN E = Parts
      BY <2>1
    <3>7. WithExists(Contents(E, F), q, yes) = Contents(With(E, q, yes), F)
      BY <1>1, <3>6, SetExists
    <3> QED BY <2>1, <3>3, <3>4, <3>5, <3>7
  <2>4. CASE cmd.type = "DELETE_PART"
    <3> DEFINE d == [id \in Ids |-> NoDoc]
    <3>1. \A p \in Parts, id \in Ids : H[p][id] = IF p = q THEN NoDoc ELSE F[p][id]
      BY <1>7, <2>1, <2>4 DEF PartTypes, q
    <3>2. \A p \in Parts : H[p] = IF p = q THEN d ELSE F[p]
      BY <2>1, <3>1
    <3>3. DS!Effect(Live, cmd) = With(Live, q, [exists |-> no, docs |-> d])
      BY <2>4 DEF DS!Effect, DS!Absent, q, no, With
    <3> HIDE DEF d
    <3>4. H = With(F, q, d)
      BY <2>1, <3>2 DEF With
    <3>5. G = With(E, q, no)
      BY <2>1, <2>2, <2>4 DEF PartTypes, With
    <3>6. DOMAIN E = Parts /\ DOMAIN F = Parts
      BY <2>1
    <3>7. With(Contents(E, F), q, [exists |-> no, docs |-> d]) = Contents(With(E, q, no), With(F, q, d))
      BY <1>1, <3>6, SetAbsent
    <3> QED BY <2>1, <3>3, <3>4, <3>5, <3>7
  <2>5. CASE cmd.type \in DocTypes
    <3> DEFINE d == IF cmd.type \in {"POST", "PUT"} THEN cmd.doc ELSE NoDoc
               x == cmd.id
    <3>1. \A p \in Parts, id \in Ids : H[p][id] = IF p = q /\ id = x THEN d ELSE F[p][id]
      BY <1>7, <2>1, <2>5 DEF PartTypes, DocTypes, q
    <3>2. x \in Ids
      BY <1>1, <2>5 DEF IsPart, DocTypes
    <3>3. DS!Effect(Live, cmd) = WithDoc(Live, q, x, d)
      BY <2>5 DEF DS!Effect, DocTypes, q, WithDoc
    <3> HIDE DEF d, x
    <3>4. \A p \in Parts : H[p] = IF p = q THEN With(F[p], x, d) ELSE F[p]
      BY <2>1, <3>1, <3>2 DEF With
    <3>5. H = With(F, q, With(F[q], x, d))
      BY <1>1, <2>1, <3>4 DEF With
    <3>6. G = E
      BY <2>1, <2>2, <2>5 DEF PartTypes, DocTypes
    <3>7. DOMAIN F = Parts
      BY <2>1
    <3>8. WithDoc(Contents(E, F), q, x, d) = Contents(E, With(F, q, With(F[q], x, d)))
      BY <1>1, <3>7, SetDoc
    <3> QED BY <2>1, <3>3, <3>5, <3>6, <3>8
  <2> QED BY <1>1, <2>3, <2>4, <2>5 DEF DocTypes
<1> QED BY <1>9, <1>15, <1>16 DEF DS!Accept, Live, Disk, cmd

LEMMA RefinementInit == Init => DS!Init
<1> SUFFICES ASSUME Init PROVE DS!Init
  OBVIOUS
<1>1. pending = <<>> /\ Len(pending) = 0 /\ 1..0 = {} /\ Newest({}) = 0
  BY DEF Init, Newest
<1>2. \A p \in Parts : LivePart(p) = FALSE /\ DiskPart(p) = FALSE
  BY <1>1 DEF Init, LivePart, DiskPart, EmptyBlock
<1>3. \A p \in Parts, id \in Ids : LiveDoc(p, id) = NoDoc /\ DiskDoc(p, id) = NoDoc
  BY <1>1, <1>2 DEF Init, LiveDoc, DiskDoc
<1>4. Store(LivePart, LiveDoc) = [p \in Parts |-> DS!Absent]
  BY <1>2, <1>3, Zenon DEF Store, DS!Absent
<1>5. Store(DiskPart, DiskDoc) = [p \in Parts |-> DS!Absent]
  BY <1>2, <1>3, Zenon DEF Store, DS!Absent
<1> QED BY <1>4, <1>5 DEF DS!Init

(* What a step does to the queue and to the blocks. *)
LEMMA QueueSteps ==
  ASSUME IInv, [Next]_vars
  PROVE  \/ SameQueue /\ block' = block
         \/ \E i \in 1..Len(log) : DecideEntry /\ pending' = Append(pending, i) /\ UNCHANGED <<log, block>>
         \/ \E c \in Shards : TxCommit(c)
         \/ ClearPendingQueue
         \/ Stop
<1> DEFINE Kinds == \/ SameQueue /\ block' = block
                    \/ \E i \in 1..Len(log) :
                         DecideEntry /\ pending' = Append(pending, i) /\ UNCHANGED <<log, block>>
                    \/ \E c \in Shards : TxCommit(c)
                    \/ ClearPendingQueue
                    \/ Stop
<1>1. ASSUME NEW cmd \in Commands, Propose(cmd) PROVE Kinds
  BY <1>1 DEF Propose, diskVars, SameQueue, IInv, TypeOK
<1>2. ASSUME \/ \E n \in 1..MaxBatch : UpdateStart(n)
             \/ \E c \in Shards : UpdateShard(c)
             \/ UpdateReturn \/ SyncStart \/ UpdateLastUpdateIndex \/ Open \/ UNCHANGED vars
             \/ \E c \in Shards : TxApply(c) \/ IndexBatch(c)
      PROVE  Kinds
  <2>1. UNCHANGED <<log, pending, block>>
    BY <1>2 DEF UpdateStart, UpdateShard, UpdateReturn, SyncStart, UpdateLastUpdateIndex, Open, vars,
                TxApply, IndexBatch, hostVars, diskVars
  <2> QED BY <2>1 DEF SameQueue
<1>3. ASSUME DecideEntry PROVE Kinds
  <2>1. UNCHANGED <<log, block>>
    BY <1>3 DEF DecideEntry, hostVars, diskVars
  <2>2. PICK i \in DOMAIN existing : pending' = Append(pending, i) \/ pending' = pending
    BY <1>3 DEF DecideEntry
  <2>3. i \in 1..Len(log)
    BY DEF IInv, TypeOK
  <2> QED BY <1>3, <2>1, <2>2, <2>3 DEF SameQueue
<1>4. ASSUME \/ \E c \in Shards : TxCommit(c)
             \/ ClearPendingQueue \/ Stop
      PROVE  Kinds
  BY <1>4
<1> HIDE DEF Kinds
<1>5. Kinds
  BY <1>1, <1>2, <1>3, <1>4 DEF Next, UpdateStep, SyncStep, SyncPanic, Crash, Close
<1> QED BY <1>5 DEF Kinds

LEMMA StepKinds ==
  ASSUME IInv, SInv, [Next]_vars
  PROVE  \/ SameQueue /\ block' = block
         \/ \E i \in 1..Len(log) : Decides(i) /\ Decide(log[i], existing[i]) = 200
         \/ \E c \in Shards : TxCommit(c)
         \/ ClearPendingQueue
         \/ Stop
<1>1. CASE DecideEntry
  <2>1. PICK i \in 1..Len(log) : Decides(i)
    BY <1>1, DecidesOne
  <2>2. Decide(log[i], existing[i]) # 200 => SameQueue /\ block' = block
    BY <2>1 DEF Decides, SameQueue
  <2> QED BY <2>1, <2>2
<1> QED BY <1>1, QueueSteps

(* Every step of the state machine is a step of the document store or leaves *)
(* it alone.                                                                 *)
LEMMA RefinementStep ==
  ASSUME 0 \notin Stamps, IInv, SInv, [Next]_vars
  PROVE  DS!Next \/ (Live' = Live /\ Disk' = Disk)
<1>1. ASSUME SameQueue, block' = block PROVE Live' = Live /\ Disk' = Disk
  BY <1>1, SameStores
<1>2. ASSUME NEW i \in 1..Len(log), Decides(i), Decide(log[i], existing[i]) = 200 PROVE DS!Next
  <2>1. DS!Accept(log[i])
    BY <1>2, DecideAccepts
  <2>2. log[i] \in Commands
    BY DEF IInv, TypeOK
  <2> QED BY <2>1, <2>2 DEF DS!Next
<1>3. ASSUME NEW c \in Shards, TxCommit(c) PROVE DS!Next
  BY <1>3, CommitPersists DEF DS!Next
<1>4. ASSUME ClearPendingQueue PROVE Live' = Live /\ Disk' = Disk
  BY <1>4, ClearStutters
<1>5. ASSUME Stop PROVE DS!Next
  BY <1>5, StopLoses DEF DS!Next
<1> QED BY <1>1, <1>2, <1>3, <1>4, <1>5, StepKinds

(* Update, Sync, ApplyUpdates and Open together implement the document       *)
(* store: only legal commands are performed, a shard's transaction commits   *)
(* exactly what they add up to, and a restart resumes from what was          *)
(* committed.  It takes a host that gives Update at most one entry of a      *)
(* shard at a time and clients that never name the stamp 0.                  *)
THEOREM ImplementsDocStoreCorrect ==
  ASSUME MaxShardBatch <= 1, 0 \notin Stamps
  PROVE  Spec => ImplementsDocStore
<1>1. IInv /\ SInv /\ [Next]_vars =>
        [DS!Next]_<<Store(LivePart, LiveDoc), Store(DiskPart, DiskDoc)>>
  BY RefinementStep DEF Live, Disk
<1> QED BY <1>1, RefinementInit, StoreInvariant, PTL DEF Spec, ImplementsDocStore, DS!Spec
=============================================================================
