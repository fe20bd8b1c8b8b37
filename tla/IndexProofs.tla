----------------------------- MODULE IndexProofs -----------------------------
(***************************************************************************)
(* The search index is healed by the replay.  ApplyUpdates executes the    *)
(* index batch before bolt commits, so a crash may leave an index entry    *)
(* that differs from the document in the block.  The log after the         *)
(* recorded index then holds a command on that document which Update will  *)
(* accept when it comes to it again, whatever it rejects or Syncs before.  *)
(*                                                                         *)
(* This holds for hosts that give Update at most one entry of each shard   *)
(* at a time, and for names of which no two have the same full id.         *)
(***************************************************************************)
EXTENDS StoreProofs

FullIdsDiffer ==
  \A p, q \in Parts, id, jd \in Ids : FullId(p, id) = FullId(q, jd) => p = q /\ id = jd

Ahead(p, id) == index[FirstRune[p]][FullId(p, id)] # DiskDoc(p, id)

(* ApplyUpdates makes index and block agree on a document when it comes to a *)
(* command on it, or deletes the part and finds the document in its bucket.  *)
Heals(cmd, p, id) ==
  /\ cmd.part = p
  /\ \/ cmd.type \in DocTypes /\ cmd.id = id
     \/ cmd.type = "DELETE_PART" /\ DiskDoc(p, id) # NoDoc

(* Entries that Update has decided since the process started, and the part   *)
(* commands among the entries that a replay would begin with.                *)
Decided(i) == i <= Covered /\ i \notin AtHand

PartEntries(p, S) == {j \in S : log[j].part = p /\ log[j].type \in PartTypes}

DecidedEntries == {j \in 1..Len(log) : metaIndex < j /\ Decided(j)}

ReplayedBefore(i) == {j \in 1..Len(log) : metaIndex < j /\ j < i}

(* The last part command of a set of entries creates the part.               *)
EndsWithCreate(S) ==
  \A j \in S : (\A h \in S : h <= j) => log[j].type = "CREATE_PART"

(* Whether accepted or rejected, a CREATE_PART leaves a part behind, and a   *)
(* DELETE_PART none.                                                         *)
PartsFollowLog ==
  \A p \in Parts :
    FirstRune[p] \in Shards =>
      \A j \in PartEntries(p, DecidedEntries) :
        (\A h \in PartEntries(p, DecidedEntries) : h <= j) =>
          (LivePart(p) <=> log[j].type = "CREATE_PART")

(* A replay that comes to entry i finds the part. *)
PartComes(i, p) ==
  /\ PartEntries(p, ReplayedBefore(i)) = {} => DiskPart(p)
  /\ EndsWithCreate(PartEntries(p, ReplayedBefore(i)))

(* A replay in which nothing before heals the document will accept entry i,  *)
(* which does.                                                               *)
Healer(i, p, id) ==
  /\ i \in 1..Len(log) /\ metaIndex < i /\ log[i].part = p
  /\ \/ DiskDoc(p, id) # NoDoc /\ log[i].type = "DELETE_PART"
     \/ /\ DiskDoc(p, id) # NoDoc /\ log[i].type \in {"PUT", "DEL"} /\ log[i].id = id
        /\ log[i].ts = DiskDoc(p, id).updated
     \/ /\ DiskDoc(p, id) = NoDoc /\ log[i].type = "POST" /\ log[i].id = id
        /\ PartComes(i, p)

QueuedHeals(p, id) == \E k \in 1..Len(pending) : Heals(Queue[k], p, id)

(* If the queue heals a document, a replay would too: the first command that *)
(* does was decided on what is on disk.                                      *)
QueueHealers ==
  \A p \in Parts, id \in Ids :
    FirstRune[p] \in Shards /\ Undone(FirstRune[p]) /\ QueuedHeals(p, id) =>
      \E i \in PendingSet : Healer(i, p, id)

(* An index entry that is ahead is healed by the queue or by an entry that   *)
(* Update has yet to decide.                                                 *)
WillHeal(p, id) ==
  \/ Undone(FirstRune[p]) /\ QueuedHeals(p, id)
  \/ \E i \in 1..Len(log) : ~Decided(i) /\ Healer(i, p, id)

AheadHealed ==
  \A p \in Parts, id \in Ids :
    FirstRune[p] \in Shards /\ Ahead(p, id) => WillHeal(p, id)

(* The transaction and the index batch that a goroutine builds agree on what *)
(* it has healed, and have not touched the rest.                             *)
Agrees(c, p, id) ==
  LET healed == \E k \in Done(c) : Heals(Queue[k], p, id)
  IN  IF healed THEN tx[c].index[FullId(p, id)] = tx[c].block.docs[p][id]
      ELSE /\ tx[c].index[FullId(p, id)] = index[c][FullId(p, id)]
           /\ tx[c].block.docs[p][id] = DiskDoc(p, id)

BatchAgrees ==
  phase = "apply" =>
    \A c \in Shards : tx[c].state \in {"run", "indexed"} =>
      /\ tx[c].state = "indexed" => index[c] = tx[c].index
      /\ \A p \in Parts, id \in Ids : FirstRune[p] = c => Agrees(c, p, id)

(* Update is given at most one entry of a shard. *)
OneGiven ==
  phase = "update" =>
    \A i, j \in (applied + 1)..batchEnd :
      ShardOf(log[i]) = ShardOf(log[j]) /\ ShardOf(log[i]) \in Shards => i = j

HInv == OneGiven /\ PartsFollowLog /\ QueueHealers /\ AheadHealed /\ BatchAgrees

-----------------------------------------------------------------------------
(* What the queue says of a document that it does not heal. *)

LEMMA Numbers ==
  ASSUME IInv
  PROVE  /\ Len(log) \in Nat /\ metaIndex \in Nat /\ lastIndex \in Nat /\ applied \in Nat
         /\ batchEnd \in Nat /\ Covered \in Nat /\ Covered <= Len(log)
         /\ AtHand \subseteq 1..Len(log)
         /\ phase # "update" => AtHand = {} /\ Covered = applied
         /\ phase = "update" => Covered = batchEnd /\ applied <= batchEnd
<1>1. /\ Len(log) \in Nat /\ metaIndex \in 0..Len(log) /\ lastIndex \in 0..Len(log)
      /\ applied \in 0..Len(log) /\ batchEnd \in 0..Len(log)
      /\ batch \subseteq 1..Len(log) /\ DOMAIN existing \subseteq 1..Len(log)
  BY DEF IInv, TypeOK
<1>2. phase = "update" => applied <= batchEnd
  BY DEF IInv, Memory, Indices
<1>3. phase # "update" => AtHand = {}
  BY DEF IInv, Memory, AtHand
<1>4. AtHand \subseteq 1..Len(log)
  BY <1>1 DEF AtHand
<1>5. Covered \in 0..Len(log)
  BY <1>1 DEF Covered
<1> QED BY <1>1, <1>2, <1>3, <1>4, <1>5 DEF Covered

(* A set of indices that is not empty has a greatest one. *)
LEMMA GreatestIndex ==
  ASSUME Len(log) \in Nat, NEW S \in SUBSET (1..Len(log)), S # {}
  PROVE  \E m \in S : \A h \in S : h <= m
<1>1. S \in SUBSET (0..Len(log))
  OBVIOUS
<1> QED BY <1>1, MaxExists

(* A queued entry has been decided since the last index was recorded. *)
LEMMA QueuedDecided ==
  ASSUME IInv
  PROVE  \A k \in 1..Len(pending) :
           /\ pending[k] \in DecidedEntries
           /\ pending[k] \in 1..Len(log) /\ Queue[k] = log[pending[k]]
<1> SUFFICES ASSUME NEW k \in 1..Len(pending)
             PROVE  pending[k] \in DecidedEntries /\ pending[k] \in 1..Len(log) /\ Queue[k] = log[pending[k]]
  OBVIOUS
<1>1. /\ pending[k] \in 1..Len(log) /\ metaIndex < pending[k] /\ pending[k] <= Covered
      /\ Queue[k] = log[pending[k]]
  BY PendingInLog DEF IInv, QueueCovered, Queue
<1>2. pending[k] \notin AtHand
  BY <1>1 DEF IInv, EntriesAtHand
<1> QED BY <1>1, <1>2 DEF DecidedEntries, Decided

(* With no part command decided there is none in the queue. *)
LEMMA NoPartQueued ==
  ASSUME IInv, NEW p \in Parts, PartEntries(p, DecidedEntries) = {}
  PROVE  /\ LivePart(p) <=> DiskPart(p)
         /\ \A k \in 1..Len(pending) : ~(Queue[k].part = p /\ Queue[k].type \in PartTypes)
<1>1. \A k \in 1..Len(pending) : ~(Queue[k].part = p /\ Queue[k].type \in PartTypes)
  BY QueuedDecided DEF PartEntries
<1>2. PartPos(Queue, 1..Len(pending), p) = {} /\ Newest({}) = 0
  BY <1>1 DEF PartPos, Newest
<1>3. Len(pending) \in Nat
  BY PendingInLog DEF IInv
<1>4. LivePart(p) <=> PartAfter(Queue, 1..Len(pending), p, OnDisk(p)) = "CREATE_PART"
  BY <1>3, LiveIsNow DEF LiveIsQueue
<1>5. LivePart(p) <=> DiskPart(p)
  BY <1>2, <1>4 DEF PartAfter, OnDisk
<1> QED BY <1>1, <1>5

(* A document that the queue does not heal is what it is on disk: a part     *)
(* command that comes last can only create a part that was missing.          *)
LEMMA UnhealedDoc ==
  ASSUME IInv, QueueLegal, NEW p \in Parts, NEW id \in Ids,
         Undone(FirstRune[p]), ~QueuedHeals(p, id)
  PROVE  /\ LiveDoc(p, id) = DiskDoc(p, id)
         /\ DiskDoc(p, id) # NoDoc => LivePart(p)
<1> DEFINE n == Len(pending)
           D == 1..n
           S == DocPos(Queue, D, p, id)
           T == PartPos(Queue, D, p)
           k == Newest(S)
<1>1. /\ TypeOK /\ n \in Nat /\ Bounded(D)
      /\ \A j \in D : Queue[j].type \in PartTypes \cup DocTypes
      /\ \A j \in D : Queue[j].part = p => LegalAt(Queue, D, j, OnDisk(p))
  <2>1. TypeOK /\ n \in Nat
    BY QueueType DEF IInv
  <2> QED BY <2>1, QueueType DEF QueueLegal, Bounded
<1>2. /\ LivePart(p) <=> PartAfter(Queue, D, p, OnDisk(p)) = "CREATE_PART"
      /\ LiveDoc(p, id) = DocAfter(Queue, D, p, id, DiskDoc(p, id))
  BY <1>1, LiveIs
<1>3. DiskDoc(p, id) # NoDoc => OnDisk(p) = "CREATE_PART"
  BY <1>1, BlockTypes DEF OnDisk
<1>4. ~(\E j \in D : Heals(Queue[j], p, id))
  BY DEF QueuedHeals
<1>5. Bounded(S) /\ Bounded(T)
  <2> HIDE DEF D
  <2> QED BY <1>1, PosBounded
<1>6. T \subseteq S /\ S \subseteq D
  BY DEF PartPos, DocPos
<1>7. CASE S = {}
  <2>1. k = 0 /\ Newest(T) = 0
    BY <1>6, <1>7 DEF Newest
  <2> QED BY <1>2, <1>3, <2>1 DEF DocAfter, PartAfter
<1>8. CASE S # {}
  <2>1. k \in S /\ k # 0 /\ k \in D
    <3>1. k \in S /\ k # 0
      <4> HIDE DEF S
      <4> QED BY <1>5, <1>8, NewestOf
    <3> QED BY <1>6, <3>1
  <2>2. Queue[k].part = p /\ Queue[k].type \in PartTypes
    BY <1>1, <1>4, <2>1 DEF DocPos, Heals, DocTypes
  <2>3. LiveDoc(p, id) = NoDoc
    BY <1>2, <2>1, <2>2 DEF DocAfter, PartTypes
  <2>4. DiskDoc(p, id) = NoDoc
    <3> SUFFICES ASSUME DiskDoc(p, id) # NoDoc PROVE FALSE
      OBVIOUS
    <3>1. \A j \in D : Queue[j].part = p => Queue[j].type # "DELETE_PART"
      BY <1>4 DEF Heals
    <3>2. \A j \in T : Queue[j].type = "CREATE_PART"
      BY <3>1 DEF PartPos, PartTypes
    <3>3. Queue[k].type = "CREATE_PART" /\ LegalAt(Queue, D, k, OnDisk(p))
      BY <1>1, <2>1, <2>2, <3>1 DEF PartTypes
    <3>4. PartAfter(Queue, Before(D, k), p, OnDisk(p)) = "CREATE_PART"
      <4> DEFINE B == PartPos(Queue, Before(D, k), p)
      <4>1. B \subseteq T
        BY DEF PartPos, Before
      <4>2. Bounded(B)
        <5> HIDE DEF B, T
        <5> QED BY <1>5, <4>1, BoundedSubset
      <4>3. Newest(B) = 0 \/ Newest(B) \in B
        <5> HIDE DEF B
        <5> QED BY <4>2, NewestOf
      <4>4. Newest(B) = 0 \/ Queue[Newest(B)].type = "CREATE_PART"
        <5> HIDE DEF B, T
        <5> QED BY <3>2, <4>1, <4>3
      <4> QED BY <1>3, <4>4 DEF PartAfter
    <3> QED BY <2>2, <3>3, <3>4 DEF LegalAt
  <2> QED BY <2>3, <2>4
<1> QED BY <1>7, <1>8

-----------------------------------------------------------------------------
(* Deciding an entry, now or in a replay. *)

(* The decided part commands of the part of the entry at hand are those that *)
(* a replay meets before it.                                                 *)
LEMMA BeforeDecided ==
  ASSUME IInv, OneGiven, NEW i \in 1..Len(log), Decides(i), NEW p, log[i].part = p
  PROVE  /\ PartEntries(p, ReplayedBefore(i)) = PartEntries(p, DecidedEntries)
         /\ \A j \in PartEntries(p, DecidedEntries) : j < i
         /\ i \in AtHand
<1>1. /\ phase = "update" /\ i \in AtHand /\ ShardOf(log[i]) \in Shards
      /\ Covered = batchEnd /\ applied \in Nat /\ batchEnd \in Nat
  BY Numbers DEF Decides, AtHand
<1>2. applied < i /\ i <= batchEnd
  BY <1>1 DEF IInv, EntriesAtHand
<1>3. ASSUME NEW j \in 1..Len(log), log[j].part = p
      PROVE  j < i <=> Decided(j)
  <2>1. ShardOf(log[j]) = ShardOf(log[i])
    BY <1>3 DEF ShardOf
  <2>2. applied < j /\ j <= batchEnd => j = i
    BY <1>1, <1>2, <2>1 DEF OneGiven
  <2>3. j \in AtHand => applied < j /\ j <= batchEnd
    BY DEF IInv, EntriesAtHand
  <2> QED BY <1>1, <1>2, <2>2, <2>3 DEF Decided
<1>4. PartEntries(p, ReplayedBefore(i)) = PartEntries(p, DecidedEntries)
  BY <1>3 DEF PartEntries, ReplayedBefore, DecidedEntries
<1>5. \A j \in PartEntries(p, DecidedEntries) : j < i
  BY <1>3 DEF PartEntries, DecidedEntries
<1> QED BY <1>1, <1>4, <1>5

(* So such a replay finds the part if and only if clients do now. *)
LEMMA TurnFindsPart ==
  ASSUME IInv, PartsFollowLog, NEW i \in 1..Len(log), NEW p \in Parts, FirstRune[p] \in Shards,
         PartEntries(p, ReplayedBefore(i)) = PartEntries(p, DecidedEntries)
  PROVE  PartComes(i, p) <=> LivePart(p)
<1> DEFINE S == PartEntries(p, DecidedEntries)
<1>1. PartComes(i, p) <=> (S = {} => DiskPart(p)) /\ EndsWithCreate(S)
  BY DEF PartComes
<1>2. CASE S = {}
  <2>1. LivePart(p) <=> DiskPart(p)
    BY <1>2, NoPartQueued
  <2> QED BY <1>1, <1>2, <2>1 DEF EndsWithCreate
<1>3. CASE S # {}
  <2>1. S \in SUBSET (1..Len(log)) /\ Len(log) \in Nat
    BY Numbers DEF PartEntries, DecidedEntries
  <2>2. PICK m \in S : \A h \in S : h <= m
    <3> HIDE DEF S
    <3> QED BY <1>3, <2>1, GreatestIndex
  <2>3. LivePart(p) <=> log[m].type = "CREATE_PART"
    BY <2>2 DEF PartsFollowLog
  <2>4. \A j \in S : (\A h \in S : h <= j) => j = m
    <3> HIDE DEF S
    <3> QED BY <2>1, <2>2
  <2>5. EndsWithCreate(S) <=> log[m].type = "CREATE_PART"
    <3> HIDE DEF S
    <3> QED BY <2>2, <2>4 DEF EndsWithCreate
  <2> QED BY <1>1, <1>3, <2>3, <2>5
<1> QED BY <1>2, <1>3

(* What Update found for the entry at hand, when the queue does not heal     *)
(* its document.                                                             *)
LEMMA FoundUnhealed ==
  ASSUME IInv, SInv, NEW i \in 1..Len(log), Decides(i),
         NEW p \in Parts, NEW id \in Ids, log[i].part = p, ~QueuedHeals(p, id)
  PROVE  /\ existing[i].partExists \in BOOLEAN
         /\ existing[i].partExists <=> LivePart(p)
         /\ DiskDoc(p, id) # NoDoc => LivePart(p)
         /\ log[i].type \in DocTypes /\ log[i].id = id => existing[i].doc = DiskDoc(p, id)
<1> DEFINE k == FindCommandInPending(log[i])
           n == Len(pending)
<1>1. /\ QueueLegal /\ phase = "update" /\ ShardOf(log[i]) \in Shards
      /\ existing[i] = FindExisting(ShardOf(log[i]), {i})[i] /\ Undone(FirstRune[p])
  BY DEF Decides, SInv, Undone
<1>2. /\ existing[i].partExists \in BOOLEAN
      /\ existing[i].partExists <=> LivePart(p)
      /\ ~IsPart(log[i]) =>
           IF k # 0 /\ Queued(k).type = "DEL"
           THEN existing[i].doc = EmptyDoc /\ LiveDoc(p, log[i].id) = NoDoc
           ELSE existing[i].doc = LiveDoc(p, log[i].id)
  BY <1>1, FoundIsLive
<1>3. LiveDoc(p, id) = DiskDoc(p, id) /\ (DiskDoc(p, id) # NoDoc => LivePart(p))
  BY <1>1, UnhealedDoc
<1>4. ASSUME log[i].type \in DocTypes, log[i].id = id
      PROVE  existing[i].doc = DiskDoc(p, id)
  <2>1. ~IsPart(log[i])
    BY <1>4 DEF IsPart, DocTypes
  <2>2. ~(k # 0 /\ Queued(k).type = "DEL")
    <3> SUFFICES ASSUME k # 0, Queued(k).type = "DEL" PROVE FALSE
      OBVIOUS
    <3>1. MatchPositions(log[i]) \in SUBSET (1..n) /\ n \in Nat
      BY PendingInLog DEF IInv, MatchPositions
    <3>2. k \in MatchPositions(log[i])
      <4>1. MatchPositions(log[i]) # {}
        BY DEF FindCommandInPending, Newest
      <4> QED BY <3>1, <4>1, NewestProperties DEF FindCommandInPending
    <3>3. k \in 1..n /\ Queue[k] = Queued(k) /\ Matches(Queued(k), log[i])
      BY <3>1, <3>2 DEF MatchPositions, Queued, Queue
    <3>4. Heals(Queue[k], p, id)
      BY <1>4, <3>3 DEF Matches, IsPart, Heals, DocTypes
    <3> QED BY <3>3, <3>4 DEF QueuedHeals
  <2> QED BY <1>2, <1>3, <1>4, <2>1, <2>2
<1> QED BY <1>2, <1>3, <1>4

(* An entry that a replay will accept, Update accepts now, unless the queue  *)
(* already heals the document; and one that it accepts and that heals is one *)
(* that a replay will accept.                                                *)
LEMMA HealerAccepted ==
  ASSUME IInv, SInv, HInv, NEW i \in 1..Len(log), Decides(i),
         NEW p \in Parts, NEW id \in Ids, FirstRune[p] \in Shards, Healer(i, p, id), ~QueuedHeals(p, id)
  PROVE  Decide(log[i], existing[i]) = 200 /\ Heals(log[i], p, id)
<1> DEFINE cmd == log[i]
           e == existing[i]
<1>1. cmd.part = p
  BY DEF Healer
<1>2. /\ e.partExists \in BOOLEAN
      /\ e.partExists <=> LivePart(p)
      /\ DiskDoc(p, id) # NoDoc => LivePart(p)
      /\ cmd.type \in DocTypes /\ cmd.id = id => e.doc = DiskDoc(p, id)
  BY <1>1, FoundUnhealed
<1>3. CASE DiskDoc(p, id) # NoDoc /\ cmd.type = "DELETE_PART"
  BY <1>1, <1>2, <1>3 DEF Decide, Heals
<1>4. CASE /\ DiskDoc(p, id) # NoDoc /\ cmd.type \in {"PUT", "DEL"} /\ cmd.id = id
           /\ cmd.ts = DiskDoc(p, id).updated
  <2>1. e.doc = DiskDoc(p, id) /\ e.partExists
    BY <1>2, <1>4 DEF DocTypes
  <2> QED BY <1>1, <1>4, <2>1 DEF Decide, Heals, DocTypes
<1>5. CASE DiskDoc(p, id) = NoDoc /\ cmd.type = "POST" /\ cmd.id = id /\ PartComes(i, p)
  <2>1. LivePart(p)
    BY <1>1, <1>5, BeforeDecided, TurnFindsPart DEF HInv
  <2>2. e.doc = NoDoc /\ e.partExists
    BY <1>2, <1>5, <2>1 DEF DocTypes
  <2> QED BY <1>1, <1>5, <2>2 DEF Decide, Heals, DocTypes
<1> QED BY <1>3, <1>4, <1>5 DEF Healer

LEMMA AcceptedHeals ==
  ASSUME IInv, SInv, HInv, NEW i \in 1..Len(log), Decides(i), Decide(log[i], existing[i]) = 200,
         NEW p \in Parts, NEW id \in Ids, FirstRune[p] \in Shards,
         Heals(log[i], p, id), ~QueuedHeals(p, id)
  PROVE  Healer(i, p, id)
<1> DEFINE cmd == log[i]
           e == existing[i]
<1>1. cmd.part = p
  BY DEF Heals
<1>2. /\ e.partExists \in BOOLEAN
      /\ e.partExists <=> LivePart(p)
      /\ cmd.type \in DocTypes /\ cmd.id = id => e.doc = DiskDoc(p, id)
  BY <1>1, FoundUnhealed
<1>3. metaIndex < i
  <2>1. i \in AtHand /\ phase = "update" /\ up
    BY DEF Decides, AtHand, IInv, Memory
  <2> QED BY <2>1, Numbers DEF IInv, Indices, EntriesAtHand
<1>4. CASE cmd.type = "DELETE_PART"
  BY <1>1, <1>3, <1>4 DEF Healer, Heals, DocTypes
<1>5. CASE cmd.type \in {"PUT", "DEL"}
  <2>1. cmd.id = id /\ e.doc = DiskDoc(p, id)
    BY <1>2, <1>5 DEF Heals, DocTypes
  <2>2. e.doc # NoDoc /\ e.doc.updated = cmd.ts
    <3>1. Decide(cmd, e) = 200
      OBVIOUS
    <3> HIDE DEF cmd, e
    <3> QED BY <1>2, <1>5, <3>1 DEF Decide
  <2> QED BY <1>1, <1>3, <1>5, <2>1, <2>2 DEF Healer
<1>6. CASE cmd.type = "POST"
  <2>1. cmd.id = id /\ e.doc = DiskDoc(p, id)
    BY <1>2, <1>6 DEF Heals, DocTypes
  <2>2. e.doc = NoDoc /\ e.partExists
    <3>1. Decide(cmd, e) = 200
      OBVIOUS
    <3> HIDE DEF cmd, e
    <3> QED BY <1>2, <1>6, <3>1 DEF Decide
  <2>3. PartComes(i, p)
    BY <1>1, <1>2, <2>2, BeforeDecided, TurnFindsPart DEF HInv
  <2> QED BY <1>1, <1>3, <1>6, <2>1, <2>2, <2>3 DEF Healer
<1> QED BY <1>4, <1>5, <1>6 DEF Heals, DocTypes

-----------------------------------------------------------------------------
(* Steps that change neither the queue nor the stores nor what is decided.   *)

SameEntries ==
  /\ Len(log) \in Nat /\ Len(log') \in Nat /\ Len(log) <= Len(log')
  /\ \A i \in 1..Len(log) : log'[i] = log[i]

LEMMA HealerFrame ==
  ASSUME SameEntries, metaIndex' = metaIndex, NEW p, NEW id, NEW i,
         DiskPart(p) => DiskPart(p)', DiskDoc(p, id)' = DiskDoc(p, id), Healer(i, p, id)
  PROVE  Healer(i, p, id)'
<1>1. i \in 1..Len(log) /\ i \in 1..Len(log') /\ log'[i] = log[i]
  BY DEF Healer, SameEntries
<1>2. ReplayedBefore(i)' = ReplayedBefore(i)
  BY <1>1 DEF SameEntries, ReplayedBefore
<1>3. \A j \in ReplayedBefore(i) : log'[j] = log[j]
  BY DEF SameEntries, ReplayedBefore
<1>4. PartEntries(p, ReplayedBefore(i))' = PartEntries(p, ReplayedBefore(i))
  BY <1>2, <1>3 DEF PartEntries
<1>5. PartComes(i, p) => PartComes(i, p)'
  <2>1. \A j \in PartEntries(p, ReplayedBefore(i)) : log'[j] = log[j]
    BY <1>3 DEF PartEntries
  <2> QED BY <1>4, <2>1 DEF PartComes, EndsWithCreate
<1> QED BY <1>1, <1>5 DEF Healer

SameDecided ==
  /\ \A j \in 1..Len(log) :
       metaIndex < j /\ ShardOf(log[j]) \in Shards => (Decided(j)' <=> Decided(j))
  /\ \A j \in 1..Len(log') : Decided(j)' => j \in 1..Len(log)

Framed ==
  /\ SameQueue /\ SameEntries /\ SameDecided
  /\ UNCHANGED <<block, metaIndex>>
  /\ \A c \in Shards : Undone(c)' <=> Undone(c)

LEMMA PartEntriesFrame ==
  ASSUME SameEntries, SameDecided, metaIndex' = metaIndex, NEW p, FirstRune[p] \in Shards
  PROVE  PartEntries(p, DecidedEntries)' = PartEntries(p, DecidedEntries)
<1>1. \A j \in 1..Len(log) :
        log[j].part = p => (j \in DecidedEntries' <=> j \in DecidedEntries)
  BY DEF DecidedEntries, SameDecided, SameEntries, ShardOf
<1>2. DecidedEntries' \subseteq 1..Len(log) /\ DecidedEntries \subseteq 1..Len(log)
  BY DEF DecidedEntries, SameDecided
<1>3. \A j \in 1..Len(log) : log'[j] = log[j]
  BY DEF SameEntries
<1> QED BY <1>1, <1>2, <1>3 DEF PartEntries

LEMMA HealsFrame ==
  ASSUME IInv, SameQueue, NEW p, NEW id, DiskDoc(p, id)' = DiskDoc(p, id)
  PROVE  /\ QueuedHeals(p, id)' <=> QueuedHeals(p, id)
         /\ \A k \in 1..Len(pending) : Heals(Queue[k], p, id)' <=> Heals(Queue[k], p, id)
<1>1. Queue' = Queue /\ pending' = pending
  BY FrameQueue DEF SameQueue
<1> QED BY <1>1 DEF QueuedHeals, Heals

LEMMA IndexFrame ==
  ASSUME IInv, HInv, Framed
  PROVE  /\ PartsFollowLog' /\ QueueHealers'
         /\ \A p \in Parts, id \in Ids :
              FirstRune[p] \in Shards /\ Ahead(p, id) => WillHeal(p, id)'
         /\ index' = index => AheadHealed'
<1>1. SameQueue /\ SameEntries /\ SameDecided /\ block' = block /\ metaIndex' = metaIndex
  BY DEF Framed
<1>2. /\ \A p : DiskPart(p)' = DiskPart(p) /\ (LivePart(p)' <=> LivePart(p))
      /\ \A p, id : DiskDoc(p, id)' = DiskDoc(p, id)
  BY <1>1, FrameStores
<1>3. \A p, id, i : Healer(i, p, id) => Healer(i, p, id)'
  BY <1>1, <1>2, HealerFrame
<1>4. \A p, id : QueuedHeals(p, id)' <=> QueuedHeals(p, id)
  BY <1>1, <1>2, HealsFrame
<1>5. PartsFollowLog'
  <2> SUFFICES ASSUME NEW p \in Parts, FirstRune[p] \in Shards, NEW j \in PartEntries(p, DecidedEntries)',
                      \A h \in PartEntries(p, DecidedEntries)' : h <= j
               PROVE  LivePart(p)' <=> log'[j].type = "CREATE_PART"
    BY DEF PartsFollowLog
  <2>1. PartEntries(p, DecidedEntries)' = PartEntries(p, DecidedEntries)
    BY <1>1, PartEntriesFrame
  <2>2. LivePart(p) <=> log[j].type = "CREATE_PART"
    BY <2>1 DEF HInv, PartsFollowLog
  <2>3. log'[j] = log[j]
    BY <1>1, <2>1 DEF PartEntries, DecidedEntries, SameEntries
  <2> QED BY <1>2, <2>2, <2>3
<1>6. QueueHealers'
  <2>1. PendingSet' = PendingSet
    BY <1>1 DEF SameQueue, PendingSet
  <2> QED BY <1>1, <1>3, <1>4, <2>1 DEF HInv, QueueHealers, Framed
<1>7. ASSUME NEW p \in Parts, NEW id \in Ids, FirstRune[p] \in Shards, Ahead(p, id)
      PROVE  WillHeal(p, id)'
  <2>1. WillHeal(p, id)
    BY <1>7 DEF HInv, AheadHealed
  <2>2. CASE Undone(FirstRune[p]) /\ QueuedHeals(p, id)
    BY <1>4, <1>7, <2>2 DEF Framed, WillHeal
  <2>3. ASSUME NEW i \in 1..Len(log), ~Decided(i), Healer(i, p, id)
        PROVE  i \in 1..Len(log') /\ ~Decided(i)' /\ Healer(i, p, id)'
    <3>1. metaIndex < i /\ ShardOf(log[i]) \in Shards
      BY <1>7, <2>3 DEF Healer, ShardOf
    <3> QED BY <1>1, <1>3, <2>3, <3>1 DEF SameDecided, SameEntries
  <2> QED BY <2>1, <2>2, <2>3 DEF WillHeal
<1>8. index' = index => AheadHealed'
  BY <1>2, <1>7 DEF AheadHealed, Ahead
<1> QED BY <1>5, <1>6, <1>7, <1>8

LEMMA BatchFrame ==
  ASSUME IInv, HInv, SameQueue, UNCHANGED <<block, index, tx>>, phase' = "apply" => phase = "apply"
  PROVE  BatchAgrees'
<1>1. CASE phase' # "apply"
  BY <1>1 DEF BatchAgrees
<1>2. CASE phase' = "apply"
  <2>1. BatchAgrees /\ phase = "apply"
    BY <1>2 DEF HInv
  <2>2. \A p, id : DiskDoc(p, id)' = DiskDoc(p, id)
    BY FrameStores
  <2>3. Queue' = Queue /\ \A c : Done(c)' = Done(c)
    BY FrameQueue DEF Done
  <2>4. \A c, p, id : Agrees(c, p, id)' <=> Agrees(c, p, id)
    BY <2>2, <2>3 DEF Agrees, Heals
  <2> QED BY <2>1, <2>4 DEF BatchAgrees
<1> QED BY <1>1, <1>2

LEMMA GivenFrame ==
  ASSUME IInv, HInv, SameEntries, UNCHANGED <<applied, batchEnd>>, phase' = "update" => phase = "update"
  PROVE  OneGiven'
<1>1. /\ applied \in Nat /\ batchEnd \in Nat /\ Len(log) \in Nat
      /\ phase = "update" => batchEnd <= Len(log)
  BY Numbers
<1>2. phase = "update" => \A i \in (applied + 1)..batchEnd : log'[i] = log[i]
  BY <1>1 DEF SameEntries
<1> QED BY <1>2 DEF HInv, OneGiven, ShardOf

LEMMA HealPropose ==
  ASSUME IInv, HInv, NEW cmd \in Commands, Propose(cmd)
  PROVE  HInv'
<1>1. /\ UNCHANGED <<applied, phase, batch, existing, batchEnd, pending, metaIndex, block, index, tx>>
      /\ Len(log) \in Nat /\ Len(log') = Len(log) + 1
      /\ \A i \in 1..Len(log) : log'[i] = log[i]
  BY DEF IInv, TypeOK, Propose, updateVars, diskVars
<1>2. SameEntries /\ SameQueue
  BY <1>1 DEF SameEntries, SameQueue
<1>3. \A j : Decided(j)' <=> Decided(j)
  BY <1>1 DEF Decided, Covered, AtHand
<1>4. \A j \in 1..Len(log') : Decided(j) => j \in 1..Len(log)
  <2>1. Covered \in Nat /\ Covered <= Len(log)
    BY Numbers
  <2> QED BY <1>1, <2>1 DEF Decided
<1>5. Framed
  BY <1>1, <1>2, <1>3, <1>4 DEF Framed, SameDecided, Undone
<1> QED BY <1>1, <1>2, <1>5, IndexFrame, BatchFrame, GivenFrame DEF HInv

(* The host gives Update entries that were not decided. *)
LEMMA HealUpdateStart ==
  ASSUME MaxShardBatch <= 1, IInv, HInv, NEW n \in 1..MaxBatch, UpdateStart(n)
  PROVE  HInv'
<1> DEFINE E == (applied + 1)..(applied + n)
<1>1. /\ phase = "idle" /\ phase' = "update" /\ batch' = E /\ batchEnd' = applied + n
      /\ applied + n <= Len(log)
      /\ \A c \in Shards : Cardinality(OfShard(E, c)) <= MaxShardBatch
      /\ UNCHANGED <<log, applied, existing, pending, metaIndex, block, index, tx>>
  BY DEF UpdateStart, hostVars, diskVars
<1>2. /\ DOMAIN existing = {} /\ applied \in Nat /\ n \in Nat /\ MaxShardBatch \in Nat
      /\ Len(log) \in Nat /\ AtHand = {} /\ Covered = applied
  BY <1>1, BoundsAssumption, Numbers DEF IInv, Memory
<1>3. AtHand' = E /\ Covered' = applied + n
  BY <1>1, <1>2 DEF AtHand, Covered
<1>4. OneGiven'
  <2> SUFFICES ASSUME NEW i \in E, NEW j \in E, ShardOf(log[i]) = ShardOf(log[j]), ShardOf(log[i]) \in Shards
               PROVE  i = j
    BY <1>1 DEF OneGiven
  <2> DEFINE S == OfShard(E, ShardOf(log[i]))
  <2>1. i \in S /\ j \in S /\ S \subseteq E
    BY DEF OfShard
  <2>2. IsFiniteSet(E)
    BY <1>2, FS_Interval
  <2>3. IsFiniteSet(S)
    BY <2>1, <2>2, FS_Subset
  <2>4. Cardinality(S) <= 1
    <3>1. Cardinality(S) <= MaxShardBatch /\ Cardinality(S) \in Nat
      BY <1>1, <2>3, FS_CardinalityType
    <3> HIDE DEF S
    <3> QED BY <1>2, <3>1
  <2> HIDE DEF S
  <2> QED BY <2>1, <2>3, <2>4, AtMostOne
<1>5. \A j \in 1..Len(log) : Decided(j)' <=> Decided(j)
  BY <1>2, <1>3 DEF Decided
<1>6. SameEntries /\ SameQueue
  BY <1>1, <1>2 DEF SameEntries, SameQueue
<1>7. Framed
  BY <1>1, <1>5, <1>6 DEF Framed, SameDecided, Undone
<1> QED BY <1>1, <1>4, <1>6, <1>7, IndexFrame, BatchFrame DEF HInv

LEMMA HealUpdateShard ==
  ASSUME IInv, HInv, NEW c \in Shards, UpdateShard(c)
  PROVE  HInv'
<1>1. /\ phase = "update" /\ phase' = "update" /\ DOMAIN existing = {}
      /\ DOMAIN existing' = OfShard(batch, c)
      /\ batch' = batch \ OfShard(batch, c)
      /\ UNCHANGED <<log, applied, batchEnd, pending, metaIndex, block, index, tx>>
  BY DEF UpdateShard, FindExisting, hostVars, diskVars
<1>2. AtHand' = AtHand /\ Covered' = Covered
  BY <1>1 DEF AtHand, Covered, OfShard
<1>3. SameEntries /\ SameQueue
  BY <1>1, Numbers DEF SameEntries, SameQueue
<1>4. Framed
  BY <1>1, <1>2, <1>3 DEF Framed, SameDecided, Decided, Undone
<1> QED BY <1>1, <1>3, <1>4, IndexFrame, BatchFrame, GivenFrame DEF HInv

(* Entries that no shard takes are the only ones that Update leaves.         *)
LEMMA HealUpdateReturn ==
  ASSUME IInv, HInv, UpdateReturn
  PROVE  HInv'
<1>1. /\ phase = "update" /\ phase' = "idle" /\ DOMAIN existing = {} /\ DOMAIN existing' = {}
      /\ \A c \in Shards : OfShard(batch, c) = {}
      /\ applied' = batchEnd /\ batch' = {}
      /\ UNCHANGED <<log, pending, metaIndex, block, index, tx>>
  BY DEF UpdateReturn, RangeDone, diskVars
<1>2. AtHand' = {} /\ Covered' = Covered
  BY <1>1 DEF AtHand, Covered
<1>3. \A j \in AtHand : ShardOf(log[j]) \notin Shards
  BY <1>1 DEF AtHand, OfShard
<1>4. SameEntries /\ SameQueue
  BY <1>1, Numbers DEF SameEntries, SameQueue
<1>5. Framed
  BY <1>1, <1>2, <1>3, <1>4 DEF Framed, SameDecided, Decided, Undone
<1>6. OneGiven'
  BY <1>1 DEF OneGiven
<1> QED BY <1>1, <1>4, <1>5, <1>6, IndexFrame, BatchFrame DEF HInv

(* Steps after which nothing is decided, and nothing is queued: of what the  *)
(* queue would have healed, an entry is left in the log.                     *)
LEMMA HealForgets ==
  ASSUME IInv, HInv, \A j \in 1..Len(log) : metaIndex < j => ~Decided(j)',
         UNCHANGED <<log, metaIndex, block, index>>, pending' = <<>>, phase' \notin {"update", "apply"}
  PROVE  HInv'
<1>1. SameEntries
  BY Numbers DEF SameEntries
<1>2. \A p, id : DiskPart(p)' = DiskPart(p) /\ DiskDoc(p, id)' = DiskDoc(p, id)
  BY DEF DiskPart, DiskDoc
<1>3. \A p, id, i : Healer(i, p, id) => Healer(i, p, id)'
  BY <1>1, <1>2, HealerFrame
<1>4. PartsFollowLog'
  BY DEF PartsFollowLog, PartEntries, DecidedEntries
<1>5. QueueHealers'
  BY DEF QueueHealers, QueuedHeals
<1>6. AheadHealed'
  <2> SUFFICES ASSUME NEW p \in Parts, NEW id \in Ids, FirstRune[p] \in Shards, Ahead(p, id)'
               PROVE  \E i \in 1..Len(log) : ~Decided(i)' /\ Healer(i, p, id)'
    BY DEF AheadHealed, WillHeal
  <2>1. Ahead(p, id)
    BY <1>2 DEF Ahead
  <2>2. \E i \in 1..Len(log) : Healer(i, p, id)
    <3>1. CASE Undone(FirstRune[p]) /\ QueuedHeals(p, id)
      BY <3>1, PendingInLog DEF HInv, IInv, QueueHealers
    <3> QED BY <2>1, <3>1 DEF HInv, AheadHealed, WillHeal
  <2>3. PICK i \in 1..Len(log) : Healer(i, p, id)
    BY <2>2
  <2>4. metaIndex < i
    BY <2>3 DEF Healer
  <2> QED BY <1>3, <2>3, <2>4
<1>7. OneGiven' /\ BatchAgrees'
  BY DEF OneGiven, BatchAgrees
<1> QED BY <1>4, <1>5, <1>6, <1>7 DEF HInv

LEMMA HealStop ==
  ASSUME IInv, HInv, Stop
  PROVE  HInv'
<1>1. /\ Covered' = 0 /\ pending' = <<>> /\ phase' = "idle"
      /\ UNCHANGED <<log, metaIndex, block, index>>
  BY DEF Stop, Covered, diskVars
<1>2. \A j \in 1..Len(log) : ~Decided(j)'
  BY <1>1, Numbers DEF Decided
<1> QED BY <1>1, <1>2, HealForgets

LEMMA HealOpen ==
  ASSUME IInv, HInv, Open
  PROVE  HInv'
<1>1. /\ applied' = metaIndex /\ pending = <<>> /\ pending' = <<>> /\ phase' = "idle"
      /\ UNCHANGED <<log, metaIndex, block, index>>
  BY DEF Open, GetLastUpdateIndex, diskVars, IInv, Memory
<1>2. Covered' = metaIndex
  BY <1>1 DEF Covered
<1>3. \A j \in 1..Len(log) : metaIndex < j => ~Decided(j)'
  BY <1>2, Numbers DEF Decided
<1> QED BY <1>1, <1>3, HealForgets

-----------------------------------------------------------------------------
(* A decided entry: an accepted one joins the queue, and a rejected one has  *)
(* found what it would have made.                                            *)

DecideKeeps ==
  /\ UNCHANGED <<log, applied, batchEnd, metaIndex, block, index, tx>>
  /\ phase = "update" /\ phase' = "update"

LEMMA DecidesMore ==
  ASSUME IInv, NEW i \in 1..Len(log), Decides(i), DecideKeeps
  PROVE  /\ metaIndex < i
         /\ \A j : Decided(j)' <=> Decided(j) \/ j = i
         /\ DecidedEntries' = DecidedEntries \cup {i}
<1>1. /\ AtHand = batch \cup {i} /\ AtHand' = batch /\ i \notin batch
      /\ Covered' = Covered /\ Covered = batchEnd
  BY DEF Decides, DecideKeeps, AtHand, Covered, IInv, EntriesAtHand
<1>2. up /\ metaIndex <= applied /\ applied < i /\ i <= Covered
  BY <1>1, Numbers DEF IInv, Memory, Indices, EntriesAtHand, DecideKeeps
<1>3. metaIndex < i
  BY <1>2, Numbers
<1>4. \A j : Decided(j)' <=> Decided(j) \/ j = i
  BY <1>1, <1>2 DEF Decided
<1>5. DecidedEntries' = DecidedEntries \cup {i}
  BY <1>3, <1>4 DEF DecidedEntries, DecideKeeps
<1> QED BY <1>3, <1>4, <1>5

LEMMA DecideLives ==
  ASSUME IInv, SInv, NEW i \in 1..Len(log), Decides(i), DecideKeeps, NEW p \in Parts
  PROVE  LivePart(p)' <=> IF log[i].part = p /\ log[i].type \in PartTypes
                          THEN log[i].type = "CREATE_PART" ELSE LivePart(p)
<1>1. UNCHANGED <<log, block>>
  BY DEF DecideKeeps
<1>2. CASE Decide(log[i], existing[i]) = 200
  <2>1. pending' = Append(pending, i)
    BY <1>2 DEF Decides
  <2> QED BY <1>1, <2>1, AppendStores
<1>3. CASE Decide(log[i], existing[i]) # 200
  <2>1. SameQueue
    BY <1>1, <1>3 DEF Decides, SameQueue
  <2>2. LivePart(p)' <=> LivePart(p)
    BY <1>1, <2>1, FrameStores
  <2>3. ASSUME log[i].part = p, log[i].type \in PartTypes
        PROVE  LivePart(p) <=> log[i].type = "CREATE_PART"
    <3> DEFINE cmd == log[i]
               e == existing[i]
    <3>1. e.partExists \in BOOLEAN /\ (e.partExists <=> LivePart(p))
      <4>1. /\ QueueLegal /\ phase # "apply" /\ ShardOf(log[i]) \in Shards
            /\ existing[i] = FindExisting(ShardOf(log[i]), {i})[i]
        BY DEF Decides, SInv
      <4> QED BY <2>3, <4>1, FoundIsLive
    <3>2. Decide(cmd, e) # 200
      BY <1>3
    <3>3. cmd.type \in PartTypes
      BY <2>3
    <3> HIDE DEF cmd, e
    <3>4. cmd.type = "CREATE_PART" <=> e.partExists
      BY <3>1, <3>2, <3>3 DEF Decide, PartTypes
    <3> QED BY <3>1, <3>4 DEF cmd
  <2> QED BY <2>2, <2>3
<1> QED BY <1>2, <1>3

(* What the queue heals after the decision. *)
LEMMA DecideHeals ==
  ASSUME IInv, NEW i \in 1..Len(log), Decides(i), DecideKeeps, NEW p, NEW id
  PROVE  /\ QueuedHeals(p, id) => QueuedHeals(p, id)'
         /\ Decide(log[i], existing[i]) = 200 =>
              (QueuedHeals(p, id)' <=> QueuedHeals(p, id) \/ Heals(log[i], p, id))
         /\ Decide(log[i], existing[i]) # 200 => (QueuedHeals(p, id)' <=> QueuedHeals(p, id))
<1>1. UNCHANGED <<log, block>> /\ DiskDoc(p, id)' = DiskDoc(p, id)
  BY DEF DecideKeeps, DiskDoc, DiskPart
<1>2. CASE Decide(log[i], existing[i]) = 200
  <2>1. pending' = Append(pending, i)
    BY <1>2 DEF Decides
  <2>0. PICK n \in Nat : n = Len(pending)
    BY <1>1, <2>1, AppendQueue
  <2>2. /\ n = Len(pending) /\ Len(pending') = n + 1
        /\ Queue'[n + 1] = log[i]
        /\ \A k \in 1..n : Queue'[k] = Queue[k]
    BY <1>1, <2>0, <2>1, AppendQueue
  <2>3. QueuedHeals(p, id)' <=> \E k \in 1..(n + 1) : Heals(Queue[k], p, id)'
    BY <2>2 DEF QueuedHeals
  <2>4. \A k \in 1..n : Heals(Queue[k], p, id)' <=> Heals(Queue[k], p, id)
    BY <1>1, <2>2 DEF Heals
  <2>5. Heals(Queue[n + 1], p, id)' <=> Heals(log[i], p, id)
    BY <1>1, <2>2 DEF Heals
  <2>6. 1..(n + 1) = 1..n \cup {n + 1}
    BY <2>0
  <2>7. QueuedHeals(p, id)' <=> QueuedHeals(p, id) \/ Heals(log[i], p, id)
    <3>1. QueuedHeals(p, id) <=> \E k \in 1..n : Heals(Queue[k], p, id)
      BY <2>2 DEF QueuedHeals
    <3> QED BY <2>2, <2>3, <2>4, <2>5, <2>6, <3>1
  <2> QED BY <1>2, <2>7
<1>3. CASE Decide(log[i], existing[i]) # 200
  <2>1. SameQueue
    BY <1>1, <1>3 DEF Decides, SameQueue
  <2> QED BY <1>1, <1>3, <2>1, HealsFrame
<1> QED BY <1>2, <1>3

LEMMA HealDecide ==
  ASSUME IInv, SInv, HInv, DecideEntry
  PROVE  HInv'
<1>1. PICK i \in 1..Len(log) : Decides(i)
  BY DecidesOne
<1>2. DecideKeeps
  BY DEF DecideEntry, DecideKeeps, hostVars, diskVars
<1>3. /\ metaIndex < i
      /\ \A j : Decided(j)' <=> Decided(j) \/ j = i
      /\ DecidedEntries' = DecidedEntries \cup {i}
  BY <1>1, <1>2, DecidesMore
<1>4. SameEntries /\ log' = log /\ metaIndex' = metaIndex /\ i \in 1..Len(log) /\ index' = index
  BY <1>2, Numbers DEF SameEntries, DecideKeeps
<1>5. \A p, id : DiskPart(p)' = DiskPart(p) /\ DiskDoc(p, id)' = DiskDoc(p, id)
  BY <1>2 DEF DiskPart, DiskDoc, DecideKeeps
<1>6. \A p, id, j : Healer(j, p, id) => Healer(j, p, id)'
  BY <1>4, <1>5, HealerFrame
<1>7. PartsFollowLog'
  <2> SUFFICES ASSUME NEW p \in Parts, FirstRune[p] \in Shards, NEW j \in PartEntries(p, DecidedEntries)',
                      \A h \in PartEntries(p, DecidedEntries)' : h <= j
               PROVE  LivePart(p)' <=> log[j].type = "CREATE_PART"
    BY <1>4 DEF PartsFollowLog
  <2>1. LivePart(p)' <=> IF log[i].part = p /\ log[i].type \in PartTypes
                         THEN log[i].type = "CREATE_PART" ELSE LivePart(p)
    BY <1>1, <1>2, DecideLives
  <2>2. CASE log[i].part = p /\ log[i].type \in PartTypes
    <3>1. PartEntries(p, DecidedEntries)' = PartEntries(p, DecidedEntries) \cup {i}
      BY <1>3, <1>4, <2>2 DEF PartEntries
    <3>2. \A h \in PartEntries(p, DecidedEntries) : h < i
      BY <1>1, <2>2, BeforeDecided DEF HInv
    <3>3. \A h \in PartEntries(p, DecidedEntries) : h \in Nat
      BY DEF PartEntries, DecidedEntries
    <3>4. j = i
      <4>1. i \in PartEntries(p, DecidedEntries)'
        BY <3>1
      <4>2. i <= j /\ i \in Nat
        BY <1>4, <4>1
      <4>3. j \in PartEntries(p, DecidedEntries) => j < i /\ j \in Nat
        BY <3>2, <3>3
      <4> QED BY <3>1, <4>2, <4>3
    <3> QED BY <2>1, <2>2, <3>4
  <2>3. CASE ~(log[i].part = p /\ log[i].type \in PartTypes)
    <3>1. PartEntries(p, DecidedEntries)' = PartEntries(p, DecidedEntries)
      BY <1>3, <1>4, <2>3 DEF PartEntries
    <3> QED BY <2>1, <2>3, <3>1 DEF HInv, PartsFollowLog
  <2> QED BY <2>2, <2>3
<1>8. QueueHealers'
  <2> SUFFICES ASSUME NEW p \in Parts, NEW id \in Ids, FirstRune[p] \in Shards, QueuedHeals(p, id)'
               PROVE  \E j \in PendingSet' : Healer(j, p, id)'
    BY DEF QueueHealers
  <2>1. CASE QueuedHeals(p, id)
    <3>1. Undone(FirstRune[p])
      BY <1>2 DEF Undone, DecideKeeps
    <3>2. PICK j \in PendingSet : Healer(j, p, id)
      BY <2>1, <3>1 DEF HInv, QueueHealers
    <3>3. j \in PendingSet'
      <4>1. pending \in Seq(1..Len(log)) /\ (pending' = pending \/ pending' = Append(pending, i))
        BY <1>1 DEF Decides, IInv, TypeOK
      <4>2. PICK k \in 1..Len(pending) : j = pending[k]
        BY DEF PendingSet
      <4>3. k \in 1..Len(pending') /\ pending'[k] = j
        BY <4>1, <4>2
      <4> QED BY <4>3 DEF PendingSet
    <3> QED BY <1>6, <3>2, <3>3
  <2>2. CASE ~QueuedHeals(p, id)
    <3>1. Decide(log[i], existing[i]) = 200 /\ Heals(log[i], p, id)
      BY <1>1, <1>2, <2>2, DecideHeals
    <3>2. Healer(i, p, id)
      BY <1>1, <2>2, <3>1, AcceptedHeals
    <3>3. pending \in Seq(1..Len(log)) /\ pending' = Append(pending, i)
      BY <1>1, <3>1 DEF Decides, IInv, TypeOK
    <3>4. i \in PendingSet'
      <4>1. Len(pending) + 1 \in 1..Len(pending') /\ pending'[Len(pending) + 1] = i
        BY <3>3
      <4> QED BY <4>1 DEF PendingSet
    <3> QED BY <1>6, <3>2, <3>4
  <2> QED BY <2>1, <2>2
<1>9. AheadHealed'
  <2> SUFFICES ASSUME NEW p \in Parts, NEW id \in Ids, FirstRune[p] \in Shards, Ahead(p, id)'
               PROVE  \/ Undone(FirstRune[p])' /\ QueuedHeals(p, id)'
                      \/ \E j \in 1..Len(log) : ~Decided(j)' /\ Healer(j, p, id)'
    BY <1>4 DEF AheadHealed, WillHeal
  <2>1. Ahead(p, id)
    BY <1>4, <1>5 DEF Ahead
  <2>2. Undone(FirstRune[p])' /\ Undone(FirstRune[p])
    BY <1>2 DEF Undone, DecideKeeps
  <2>3. CASE QueuedHeals(p, id)
    BY <1>1, <1>2, <2>2, <2>3, DecideHeals
  <2>4. CASE ~QueuedHeals(p, id)
    <3>1. PICK j \in 1..Len(log) : ~Decided(j) /\ Healer(j, p, id)
      BY <2>1, <2>4 DEF HInv, AheadHealed, WillHeal
    <3>2. CASE j # i
      BY <1>3, <1>6, <3>1, <3>2
    <3>3. CASE j = i
      <4>1. Decide(log[i], existing[i]) = 200 /\ Heals(log[i], p, id)
        BY <1>1, <2>4, <3>1, <3>3, HealerAccepted
      <4>2. QueuedHeals(p, id)'
        BY <1>1, <1>2, <4>1, DecideHeals
      <4> QED BY <2>2, <4>2
    <3> QED BY <3>2, <3>3
  <2> QED BY <2>3, <2>4
<1>10. OneGiven'
  BY <1>2, <1>4, GivenFrame DEF DecideKeeps
<1>11. BatchAgrees'
  BY <1>2 DEF BatchAgrees, DecideKeeps
<1> QED BY <1>7, <1>8, <1>9, <1>10, <1>11 DEF HInv

-----------------------------------------------------------------------------
(* Sync. *)

LEMMA HealSyncStart ==
  ASSUME IInv, SInv, HInv, SyncStart
  PROVE  HInv'
<1>1. /\ phase = "idle" /\ phase' = "apply"
      /\ tx' = [c \in Shards |->
                  IF GetPendingUpdatesForShard(c) = {} THEN NoTx
                  ELSE [state |-> "run", todo |-> GetPendingUpdatesForShard(c),
                        block |-> block[c], index |-> index[c]]]
      /\ UNCHANGED <<log, applied, batch, existing, pending, metaIndex, block, index>>
  BY DEF SyncStart, hostVars, updateVars, diskVars
<1>2. SameQueue /\ SameEntries
  BY <1>1, Numbers DEF SameQueue, SameEntries
<1>3. \A c \in Shards : tx'[c].state \in {"none", "run"}
  BY <1>1 DEF NoTx
<1>4. \A c \in Shards : Undone(c)' <=> Undone(c)
  BY <1>1, <1>3 DEF Undone
<1>5. Covered' = Covered /\ AtHand' = AtHand
  BY <1>1 DEF Covered, AtHand
<1>6. Framed
  BY <1>1, <1>2, <1>4, <1>5 DEF Framed, SameDecided, Decided
<1>7. BatchAgrees'
  <2> SUFFICES ASSUME NEW c \in Shards, tx'[c].state \in {"run", "indexed"}
               PROVE  /\ tx'[c].state = "indexed" => index'[c] = tx'[c].index
                      /\ \A p \in Parts, id \in Ids : FirstRune[p] = c => Agrees(c, p, id)'
    BY DEF BatchAgrees
  <2>1. tx'[c] = [state |-> "run", todo |-> GetPendingUpdatesForShard(c),
                  block |-> block[c], index |-> index[c]]
    BY <1>1 DEF NoTx
  <2>2. Done(c)' = {}
    BY <1>2, <2>1, FrameQueue DEF Done
  <2>3. ASSUME NEW p \in Parts, NEW id \in Ids, FirstRune[p] = c
        PROVE  Agrees(c, p, id)'
    <3>1. block[c].docs[p][id] = DiskDoc(p, id)'
      BY <1>1, <2>3 DEF DiskDoc, DiskPart, SInv, Clean
    <3>2. index'[c] = index[c]
      BY <1>1
    <3> QED BY <2>1, <2>2, <3>1, <3>2 DEF Agrees
  <2> QED BY <2>1, <2>3
<1>8. OneGiven'
  BY <1>1 DEF OneGiven
<1> QED BY <1>1, <1>6, <1>7, <1>8, IndexFrame DEF HInv

(* What one entry of ApplyUpdates' loop does to the index of a document.     *)
LEMMA ApplyToIx ==
  ASSUME FullIdsDiffer, NEW b \in Blocks, NEW ix \in Indexes, NEW cmd \in Commands,
         NEW p \in Parts, NEW id \in Ids
  PROVE  ApplyToIndex(b, ix, cmd)[FullId(p, id)] =
           IF cmd.part = p /\ cmd.type \in DocTypes /\ cmd.id = id
           THEN IF cmd.type \in {"POST", "PUT"} THEN cmd.doc ELSE NoDoc
           ELSE IF cmd.part = p /\ cmd.type = "DELETE_PART" /\ b.docs[p][id] # NoDoc THEN NoDoc
           ELSE ix[FullId(p, id)]
<1> DEFINE f == FullId(p, id)
<1>1. /\ cmd.type \in {"POST", "PUT", "DEL", "CREATE_PART", "DELETE_PART"} /\ cmd.part \in Parts
      /\ cmd.type \in DocTypes => cmd.id \in Ids
  BY CommandType DEF IsPart, DocTypes
<1>2. f \in FullIds
  BY DEF FullIds
<1>3. \A jd \in Ids : FullId(cmd.part, jd) = f <=> cmd.part = p /\ jd = id
  BY <1>1 DEF FullIdsDiffer
<1>4. ix \in [FullIds -> DocOrNil]
  BY DEF Indexes
<1> HIDE DEF f
<1>5. CASE cmd.type = "CREATE_PART"
  BY <1>5 DEF ApplyToIndex, DocTypes, f
<1>6. CASE cmd.type = "DELETE_PART"
  <2>1. ApplyToIndex(b, ix, cmd)[f] = IF f \in BucketKeys(b, cmd.part) THEN NoDoc ELSE ix[f]
    BY <1>2, <1>6 DEF ApplyToIndex
  <2>2. f \in BucketKeys(b, cmd.part) <=> cmd.part = p /\ b.docs[p][id] # NoDoc
    BY <1>3 DEF BucketKeys
  <2> QED BY <1>6, <2>1, <2>2 DEF DocTypes, f
<1>7. CASE cmd.type = "DEL"
  <2>1. ApplyToIndex(b, ix, cmd) = [ix EXCEPT ![FullId(cmd.part, cmd.id)] = NoDoc]
    BY <1>7 DEF ApplyToIndex
  <2>2. FullId(cmd.part, cmd.id) = f <=> cmd.part = p /\ cmd.id = id
    BY <1>1, <1>3, <1>7 DEF DocTypes
  <2>3. ApplyToIndex(b, ix, cmd)[f] = IF FullId(cmd.part, cmd.id) = f THEN NoDoc ELSE ix[f]
    BY <1>2, <1>4, <2>1
  <2> QED BY <1>7, <2>2, <2>3 DEF DocTypes, f
<1>8. CASE cmd.type \in {"POST", "PUT"}
  <2>1. ApplyToIndex(b, ix, cmd) = [ix EXCEPT ![FullId(cmd.part, cmd.id)] = cmd.doc]
    BY <1>8 DEF ApplyToIndex
  <2>2. FullId(cmd.part, cmd.id) = f <=> cmd.part = p /\ cmd.id = id
    BY <1>1, <1>3, <1>8 DEF DocTypes
  <2>3. ApplyToIndex(b, ix, cmd)[f] = IF FullId(cmd.part, cmd.id) = f THEN cmd.doc ELSE ix[f]
    BY <1>2, <1>4, <2>1
  <2> QED BY <1>8, <2>2, <2>3 DEF DocTypes, f
<1> QED BY <1>1, <1>5, <1>6, <1>7, <1>8

(* Steps of one goroutine leave what is decided and queued alone, and the    *)
(* transactions of the others.                                               *)
GoroutineKeeps(c) ==
  /\ phase = "apply" /\ phase' = "apply"
  /\ UNCHANGED <<log, applied, batch, existing, batchEnd, pending, metaIndex>>
  /\ \A d \in Shards \ {c} : tx'[d] = tx[d] /\ block'[d] = block[d] /\ index'[d] = index[d]

LEMMA OtherAgrees ==
  ASSUME IInv, HInv, NEW c \in Shards, GoroutineKeeps(c), NEW d \in Shards, d # c,
         tx'[d].state \in {"run", "indexed"}
  PROVE  /\ tx'[d].state = "indexed" => index'[d] = tx'[d].index
         /\ \A p \in Parts, id \in Ids : FirstRune[p] = d => Agrees(d, p, id)'
<1>1. tx'[d] = tx[d] /\ block'[d] = block[d] /\ index'[d] = index[d] /\ SameQueue /\ phase = "apply"
  BY DEF GoroutineKeeps, SameQueue
<1>2. /\ tx[d].state = "indexed" => index[d] = tx[d].index
      /\ \A p \in Parts, id \in Ids : FirstRune[p] = d => Agrees(d, p, id)
  BY <1>1 DEF HInv, BatchAgrees
<1>3. Queue' = Queue /\ Done(d)' = Done(d)
  BY <1>1, FrameQueue DEF Done
<1>4. ASSUME NEW p \in Parts, NEW id \in Ids, FirstRune[p] = d
      PROVE  Agrees(d, p, id)'
  <2>1. DiskDoc(p, id)' = DiskDoc(p, id)
    BY <1>1, <1>4 DEF DiskDoc, DiskPart
  <2> QED BY <1>1, <1>2, <1>3, <1>4, <2>1 DEF Agrees, Heals
<1> QED BY <1>1, <1>2, <1>4

LEMMA HealTxApply ==
  ASSUME FullIdsDiffer, IInv, SInv, HInv, NEW c \in Shards, TxApply(c)
  PROVE  HInv'
<1>1. PICK k \in tx[c].todo :
        /\ NextInTx(c, k)
        /\ tx' = [tx EXCEPT ![c] = [state |-> "run",
                                    todo  |-> tx[c].todo \ {k},
                                    block |-> ApplyToBlock(tx[c].block, log[pending[k]]),
                                    index |-> ApplyToIndex(tx[c].block, tx[c].index, log[pending[k]])]]
        /\ UNCHANGED <<log, applied, phase, batch, existing, batchEnd, pending, metaIndex, block, index>>
  BY DEF TxApply, hostVars, updateVars, diskVars
<1> DEFINE cmd == Queue[k]
           b == tx[c].block
           ix == tx[c].index
           a == ApplyToBlock(b, cmd)
           x == ApplyToIndex(b, ix, cmd)
<1>2. phase = "apply" /\ tx[c].state = "run" /\ tx \in [Shards -> Txs] /\ b \in Blocks /\ ix \in Indexes
  BY <1>1 DEF NextInTx, IInv, TypeOK, Txs
<1>3. k \in GetPendingUpdatesForShard(c) /\ k \in 1..Len(pending)
  BY <1>2 DEF SInv, Building, Built, GetPendingUpdatesForShard
<1>4. cmd = log[pending[k]] /\ cmd \in Commands
  BY <1>3, QueueType DEF IInv
<1>5. /\ tx'[c] = [state |-> "run", todo |-> tx[c].todo \ {k}, block |-> a, index |-> x]
      /\ \A d \in Shards \ {c} : tx'[d] = tx[d]
  BY <1>1, <1>2, <1>4
<1>6. SameQueue /\ SameEntries /\ GoroutineKeeps(c)
  BY <1>1, <1>2, <1>5, Numbers DEF SameQueue, SameEntries, GoroutineKeeps
<1>7. Queue' = Queue /\ Done(c)' = Done(c) \cup {k}
  BY <1>3, <1>5, <1>6, FrameQueue DEF Done
<1>8. Framed
  <2>1. \A d \in Shards : Undone(d)' <=> Undone(d)
    BY <1>1, <1>2, <1>5 DEF Undone
  <2> QED BY <1>1, <1>6, <2>1 DEF Framed, SameDecided, Decided, Covered, AtHand
<1>9. ASSUME NEW p \in Parts, NEW id \in Ids, FirstRune[p] = c
      PROVE  Agrees(c, p, id)'
  <2> DEFINE f == FullId(p, id)
             healed == \E j \in Done(c) : Heals(Queue[j], p, id)
             now == Heals(cmd, p, id)
             u == DiskDoc(p, id)
  <2>1. Agrees(c, p, id)
    BY <1>2, <1>9 DEF HInv, BatchAgrees
  <2>2. DiskDoc(p, id)' = u
    BY <1>1 DEF DiskDoc, DiskPart
  <2>3. (\E j \in Done(c)' : Heals(Queue[j], p, id)') <=> healed \/ now
    BY <1>7, <2>2 DEF Heals
  <2>4. a.docs[p][id] =
          IF cmd.part = p /\ (cmd.type = "DELETE_PART" \/ (cmd.type \in DocTypes /\ cmd.id = id))
          THEN IF cmd.type \in {"POST", "PUT"} THEN cmd.doc ELSE NoDoc
          ELSE b.docs[p][id]
    BY <1>2, <1>4, ApplyToDoc
  <2>5. x[f] =
          IF cmd.part = p /\ cmd.type \in DocTypes /\ cmd.id = id
          THEN IF cmd.type \in {"POST", "PUT"} THEN cmd.doc ELSE NoDoc
          ELSE IF cmd.part = p /\ cmd.type = "DELETE_PART" /\ b.docs[p][id] # NoDoc THEN NoDoc
          ELSE ix[f]
    BY <1>2, <1>4, ApplyToIx
  <2>6. IF healed THEN ix[f] = b.docs[p][id] ELSE ix[f] = index[c][f] /\ b.docs[p][id] = u
    BY <2>1 DEF Agrees
  <2>7. now <=> /\ cmd.part = p
                /\ \/ cmd.type \in DocTypes /\ cmd.id = id
                   \/ cmd.type = "DELETE_PART" /\ u # NoDoc
    BY DEF Heals
  <2>8. IF healed \/ now THEN x[f] = a.docs[p][id] ELSE x[f] = index[c][f] /\ a.docs[p][id] = u
    <3>1. "DELETE_PART" \notin DocTypes /\ "DELETE_PART" \notin {"POST", "PUT"}
      BY DEF DocTypes
    <3> HIDE DEF f, healed, now, u, a, b, x, ix, cmd
    <3>2. CASE cmd.part = p /\ cmd.type \in DocTypes /\ cmd.id = id
      BY <2>4, <2>5, <2>7, <3>2
    <3>3. CASE cmd.part = p /\ cmd.type = "DELETE_PART"
      BY <2>4, <2>5, <2>6, <2>7, <3>1, <3>3
    <3>4. CASE ~(cmd.part = p /\ (cmd.type = "DELETE_PART" \/ (cmd.type \in DocTypes /\ cmd.id = id)))
      BY <2>4, <2>5, <2>6, <2>7, <3>4
    <3> QED BY <3>2, <3>3, <3>4
  <2>9. index'[c] = index[c] /\ tx'[c].index = x /\ tx'[c].block = a
    BY <1>1, <1>5
  <2> HIDE DEF healed, now, u, a, b, x, ix, cmd
  <2> QED BY <2>2, <2>3, <2>8, <2>9 DEF Agrees
<1>10. BatchAgrees'
  <2> SUFFICES ASSUME NEW d \in Shards, tx'[d].state \in {"run", "indexed"}
               PROVE  /\ tx'[d].state = "indexed" => index'[d] = tx'[d].index
                      /\ \A p \in Parts, id \in Ids : FirstRune[p] = d => Agrees(d, p, id)'
    BY DEF BatchAgrees
  <2>1. CASE d = c
    BY <1>5, <1>9, <2>1
  <2>2. CASE d # c
    BY <1>6, <2>2, OtherAgrees
  <2> QED BY <2>1, <2>2
<1>11. OneGiven'
  BY <1>1, <1>2 DEF OneGiven
<1> QED BY <1>1, <1>8, <1>10, <1>11, IndexFrame DEF HInv

(* The goroutine has healed what the queue heals once it has nothing to do.  *)
LEMMA DoneHeals ==
  ASSUME IInv, NEW c, tx[c].todo = {}, NEW p \in Parts, FirstRune[p] = c, NEW id
  PROVE  (\E k \in Done(c) : Heals(Queue[k], p, id)) <=> QueuedHeals(p, id)
<1>1. Done(c) = GetPendingUpdatesForShard(c)
  BY DEF Done
<1>2. \A k \in 1..Len(pending) : Queue[k].part = p => k \in GetPendingUpdatesForShard(c)
  BY QueueType DEF IInv, GetPendingUpdatesForShard
<1>3. GetPendingUpdatesForShard(c) \subseteq 1..Len(pending)
  BY DEF GetPendingUpdatesForShard
<1> QED BY <1>1, <1>2, <1>3 DEF QueuedHeals, Heals

(* The index batch may run ahead of the block, but only where the queue      *)
(* heals the document.                                                       *)
LEMMA HealIndexBatch ==
  ASSUME IInv, SInv, HInv, NEW c \in Shards, IndexBatch(c)
  PROVE  HInv'
<1>1. /\ phase = "apply" /\ phase' = "apply" /\ tx[c].state = "run" /\ tx[c].todo = {}
      /\ index' = [index EXCEPT ![c] = tx[c].index]
      /\ tx' = [tx EXCEPT ![c].state = "indexed"]
      /\ UNCHANGED <<log, applied, batch, existing, batchEnd, pending, metaIndex, block>>
  BY DEF IndexBatch, hostVars, updateVars
<1>2. /\ tx \in [Shards -> Txs] /\ index \in [Shards -> Indexes]
      /\ \A p \in Parts, id \in Ids : FullId(p, id) \in FullIds
  BY DEF IInv, TypeOK, FullIds
<1>3. /\ tx'[c].state = "indexed" /\ tx'[c].todo = {}
      /\ tx'[c].block = tx[c].block /\ tx'[c].index = tx[c].index
      /\ index'[c] = tx[c].index
      /\ \A d \in Shards \ {c} : tx'[d] = tx[d] /\ index'[d] = index[d] /\ block'[d] = block[d]
  BY <1>1, <1>2 DEF Txs
<1>4. SameQueue /\ SameEntries /\ GoroutineKeeps(c)
  BY <1>1, <1>3, Numbers DEF SameQueue, SameEntries, GoroutineKeeps
<1>5. Framed
  <2>1. \A d \in Shards : Undone(d)' <=> Undone(d)
    BY <1>1, <1>3 DEF Undone
  <2> QED BY <1>1, <1>4, <2>1 DEF Framed, SameDecided, Decided, Covered, AtHand
<1>6. /\ PartsFollowLog' /\ QueueHealers'
      /\ \A p \in Parts, id \in Ids :
           FirstRune[p] \in Shards /\ Ahead(p, id) => WillHeal(p, id)'
  BY <1>5, IndexFrame
<1>7. \A p, id : DiskDoc(p, id)' = DiskDoc(p, id)
  BY <1>1 DEF DiskDoc, DiskPart
<1>8. Done(c)' = Done(c) /\ Queue' = Queue
  BY <1>1, <1>3, <1>4, FrameQueue DEF Done
<1>9. \A p \in Parts, id \in Ids : FirstRune[p] = c => Agrees(c, p, id)
  BY <1>1 DEF HInv, BatchAgrees
<1>10. AheadHealed'
  <2> SUFFICES ASSUME NEW p \in Parts, NEW id \in Ids, FirstRune[p] \in Shards, Ahead(p, id)'
               PROVE  WillHeal(p, id)'
    BY DEF AheadHealed
  <2>1. CASE Ahead(p, id)
    BY <1>6, <2>1
  <2>2. CASE ~Ahead(p, id)
    <3>1. FirstRune[p] = c
      BY <1>3, <1>7, <2>2 DEF Ahead
    <3>2. tx[c].index[FullId(p, id)] # index[c][FullId(p, id)]
      BY <1>3, <1>7, <2>2, <3>1 DEF Ahead
    <3>3. QueuedHeals(p, id)
      BY <1>1, <1>9, <3>1, <3>2, DoneHeals DEF Agrees
    <3>4. QueuedHeals(p, id)'
      BY <1>4, <1>7, <3>3, HealsFrame
    <3>5. Undone(FirstRune[p])'
      BY <1>3, <3>1 DEF Undone
    <3> QED BY <3>4, <3>5 DEF WillHeal
  <2> QED BY <2>1, <2>2
<1>11. BatchAgrees'
  <2> SUFFICES ASSUME NEW d \in Shards, tx'[d].state \in {"run", "indexed"}
               PROVE  /\ tx'[d].state = "indexed" => index'[d] = tx'[d].index
                      /\ \A p \in Parts, id \in Ids : FirstRune[p] = d => Agrees(d, p, id)'
    BY DEF BatchAgrees
  <2>1. CASE d = c
    <3>1. ASSUME NEW p \in Parts, NEW id \in Ids, FirstRune[p] = c
          PROVE  Agrees(c, p, id)'
      BY <1>3, <1>7, <1>8, <1>9, <3>1 DEF Agrees, Heals
    <3> QED BY <1>3, <2>1, <3>1
  <2>2. CASE d # c
    BY <1>4, <2>2, OtherAgrees
  <2> QED BY <2>1, <2>2
<1>12. OneGiven'
  BY <1>1 DEF OneGiven
<1> QED BY <1>6, <1>10, <1>11, <1>12 DEF HInv

(* A part of a shard that does not commit. *)
LEMMA OtherStores ==
  ASSUME IInv, SameQueue, NEW p, block'[FirstRune[p]] = block[FirstRune[p]]
  PROVE  /\ DiskPart(p)' = DiskPart(p)
         /\ LivePart(p)' <=> LivePart(p)
         /\ \A id : DiskDoc(p, id)' = DiskDoc(p, id)
<1>1. DiskPart(p)' = DiskPart(p) /\ OnDisk(p)' = OnDisk(p) /\ \A id : DiskDoc(p, id)' = DiskDoc(p, id)
  BY DEF DiskPart, OnDisk, DiskDoc
<1>2. Queue' = Queue /\ pending' = pending /\ Len(pending) \in Nat
  BY FrameQueue, PendingInLog DEF SameQueue, IInv
<1>3. LivePart(p) <=> PartAfter(Queue, 1..Len(pending), p, OnDisk(p)) = "CREATE_PART"
  BY <1>2, LiveIsNow DEF LiveIsQueue
<1>4. LivePart(p)' <=> PartAfter(Queue', 1..Len(pending'), p, OnDisk(p)') = "CREATE_PART"
  BY <1>2, LiveIsNext DEF LiveIsQueue
<1> QED BY <1>1, <1>2, <1>3, <1>4

(* A commit brings the block to where the index is, for what the queue       *)
(* heals, and leaves the rest.                                               *)
LEMMA HealTxCommit ==
  ASSUME IInv, SInv, HInv, NEW c \in Shards, TxCommit(c)
  PROVE  HInv'
<1>1. /\ phase = "apply" /\ phase' = "apply" /\ tx[c].state = "indexed"
      /\ block' = [block EXCEPT ![c] = tx[c].block]
      /\ tx' = [tx EXCEPT ![c].state = "done"]
      /\ UNCHANGED <<log, applied, batch, existing, batchEnd, pending, metaIndex, index>>
  BY DEF TxCommit, hostVars, updateVars
<1>2. tx \in [Shards -> Txs] /\ block \in [Shards -> Blocks]
  BY DEF IInv, TypeOK
<1>3. /\ tx'[c].state = "done" /\ tx[c].todo = {}
      /\ \A d \in Shards \ {c} : tx'[d] = tx[d] /\ index'[d] = index[d] /\ block'[d] = block[d]
  BY <1>1, <1>2 DEF Txs, SInv, Building, Built
<1>4. SameQueue /\ SameEntries /\ GoroutineKeeps(c)
  BY <1>1, <1>3, Numbers DEF SameQueue, SameEntries, GoroutineKeeps
<1>5. SameDecided
  BY <1>1 DEF SameDecided, Decided, Covered, AtHand
<1>6. AtHand = {} /\ Covered = applied
  BY <1>1, Numbers
<1>7. \A p \in Parts : FirstRune[p] \in Shards => (LivePart(p)' <=> LivePart(p))
  <2> SUFFICES ASSUME NEW p \in Parts, FirstRune[p] \in Shards
               PROVE  LivePart(p)' <=> LivePart(p)
    OBVIOUS
  <2>1. CASE FirstRune[p] = c
    BY <2>1, CommitStores DEF SInv, BInv
  <2>2. CASE FirstRune[p] # c
    BY <1>3, <1>4, <2>2, OtherStores
  <2> QED BY <2>1, <2>2
<1>8. PartsFollowLog'
  <2> SUFFICES ASSUME NEW p \in Parts, FirstRune[p] \in Shards, NEW j \in PartEntries(p, DecidedEntries)',
                      \A h \in PartEntries(p, DecidedEntries)' : h <= j
               PROVE  LivePart(p)' <=> log[j].type = "CREATE_PART"
    BY <1>1 DEF PartsFollowLog
  <2>1. PartEntries(p, DecidedEntries)' = PartEntries(p, DecidedEntries)
    BY <1>1, <1>4, <1>5, PartEntriesFrame
  <2> QED BY <1>7, <2>1 DEF HInv, PartsFollowLog
<1>9. ASSUME NEW p \in Parts, NEW id \in Ids, FirstRune[p] \in Shards, FirstRune[p] # c
      PROVE  /\ Undone(FirstRune[p])' /\ QueuedHeals(p, id)' =>
                  \E i \in PendingSet' : Healer(i, p, id)'
             /\ Ahead(p, id)' => WillHeal(p, id)'
  <2>1. /\ Undone(FirstRune[p])' <=> Undone(FirstRune[p])
        /\ index'[FirstRune[p]] = index[FirstRune[p]]
        /\ DiskPart(p)' = DiskPart(p) /\ DiskDoc(p, id)' = DiskDoc(p, id)
    BY <1>1, <1>3, <1>4, <1>9, OtherStores DEF Undone
  <2>2. QueuedHeals(p, id)' <=> QueuedHeals(p, id)
    BY <1>4, <2>1, HealsFrame
  <2>3. \A i : Healer(i, p, id) => Healer(i, p, id)'
    BY <1>1, <1>4, <2>1, HealerFrame
  <2>4. PendingSet' = PendingSet /\ \A i : Decided(i)' <=> Decided(i)
    BY <1>1 DEF PendingSet, Decided, Covered, AtHand
  <2>5. QueueHealers /\ AheadHealed
    BY DEF HInv
  <2>6. Undone(FirstRune[p])' /\ QueuedHeals(p, id)' => \E i \in PendingSet' : Healer(i, p, id)'
    BY <1>9, <2>1, <2>2, <2>3, <2>4, <2>5 DEF QueueHealers
  <2>7. Ahead(p, id)' => Ahead(p, id)
    BY <2>1 DEF Ahead
  <2>8. Ahead(p, id)' => WillHeal(p, id)'
    BY <1>1, <1>9, <2>1, <2>2, <2>3, <2>4, <2>5, <2>7 DEF AheadHealed, WillHeal
  <2> QED BY <2>6, <2>8
<1>10. ASSUME NEW p \in Parts, NEW id \in Ids, FirstRune[p] = c
       PROVE  /\ ~Undone(FirstRune[p])'
              /\ Ahead(p, id)' => WillHeal(p, id)'
  <2>1. ~Undone(FirstRune[p])'
    BY <1>1, <1>3, <1>10 DEF Undone
  <2>2. ASSUME Ahead(p, id)' PROVE WillHeal(p, id)'
    <3>1. /\ tx[c].block.docs[p][id] = LiveDoc(p, id) /\ DiskDoc(p, id)' = LiveDoc(p, id)
          /\ DiskPart(p)' <=> LivePart(p)
      BY <1>10, CommitStores DEF SInv, BInv
    <3>2. Agrees(c, p, id) /\ index[c] = tx[c].index
      BY <1>1, <1>10 DEF HInv, BatchAgrees
    <3>3. (\E k \in Done(c) : Heals(Queue[k], p, id)) <=> QueuedHeals(p, id)
      BY <1>3, <1>10, DoneHeals
    <3>4. index[c][FullId(p, id)] # LiveDoc(p, id)
      BY <1>1, <1>10, <2>2, <3>1 DEF Ahead
    <3>5. ~QueuedHeals(p, id) /\ LiveDoc(p, id) = DiskDoc(p, id)
      BY <3>1, <3>2, <3>3, <3>4 DEF Agrees
    <3>6. PICK i \in 1..Len(log) : ~Decided(i) /\ Healer(i, p, id)
      BY <1>10, <3>4, <3>5 DEF HInv, AheadHealed, Ahead, WillHeal
    <3>7. Healer(i, p, id)'
      <4>1. CASE PartEntries(p, ReplayedBefore(i)) = {}
        <5>1. DecidedEntries \subseteq ReplayedBefore(i)
          <6>1. i \in Nat /\ Covered < i
            BY <1>6, <3>6, Numbers DEF Decided
          <6> QED BY <6>1, Numbers DEF DecidedEntries, ReplayedBefore, Decided
        <5>2. PartEntries(p, DecidedEntries) = {}
          BY <4>1, <5>1 DEF PartEntries
        <5>3. LivePart(p) <=> DiskPart(p)
          BY <5>2, NoPartQueued
        <5>4. DiskPart(p) => DiskPart(p)'
          BY <3>1, <5>3
        <5> QED BY <1>1, <1>4, <3>1, <3>5, <3>6, <5>4, HealerFrame
      <4>2. CASE PartEntries(p, ReplayedBefore(i)) # {}
        <5>1. PartEntries(p, ReplayedBefore(i))' = PartEntries(p, ReplayedBefore(i))
          BY <1>1 DEF PartEntries, ReplayedBefore
        <5>2. PartComes(i, p) => PartComes(i, p)'
          BY <1>1, <4>2, <5>1 DEF PartComes, EndsWithCreate
        <5> QED BY <1>1, <3>1, <3>5, <3>6, <5>2 DEF Healer
      <4> QED BY <4>1, <4>2
    <3>8. ~Decided(i)'
      BY <1>1, <3>6 DEF Decided, Covered, AtHand
    <3> QED BY <1>1, <3>6, <3>7, <3>8 DEF WillHeal
  <2> QED BY <2>1, <2>2
<1>11. QueueHealers'
  BY <1>9, <1>10 DEF QueueHealers
<1>12. AheadHealed'
  BY <1>9, <1>10 DEF AheadHealed
<1>13. BatchAgrees'
  <2> SUFFICES ASSUME NEW d \in Shards, tx'[d].state \in {"run", "indexed"}
               PROVE  /\ tx'[d].state = "indexed" => index'[d] = tx'[d].index
                      /\ \A p \in Parts, id \in Ids : FirstRune[p] = d => Agrees(d, p, id)'
    BY DEF BatchAgrees
  <2>1. d # c
    BY <1>3
  <2> QED BY <1>4, <2>1, OtherAgrees
<1>14. OneGiven'
  BY <1>1 DEF OneGiven
<1> QED BY <1>8, <1>11, <1>12, <1>13, <1>14 DEF HInv

(* Once every goroutine has ended the queue heals nothing any more. *)
LEMMA HealClear ==
  ASSUME IInv, SInv, HInv, ClearPendingQueue
  PROVE  HInv'
<1>1. /\ phase = "apply" /\ phase' = "meta" /\ pending' = <<>> /\ Len(pending') = 0
      /\ \A c \in Shards : tx[c].state \in {"none", "done"}
      /\ UNCHANGED <<log, applied, batch, existing, metaIndex, block, index>>
  BY DEF ClearPendingQueue, Wait, hostVars, updateVars, diskVars
<1>2. SameEntries /\ SameDecided
  BY <1>1, Numbers DEF SameEntries, SameDecided, Decided, Covered, AtHand
<1>3. \A p, id : DiskPart(p)' = DiskPart(p) /\ DiskDoc(p, id)' = DiskDoc(p, id)
  BY <1>1 DEF DiskPart, DiskDoc
<1>4. PartsFollowLog'
  <2> SUFFICES ASSUME NEW p \in Parts, FirstRune[p] \in Shards, NEW j \in PartEntries(p, DecidedEntries)',
                      \A h \in PartEntries(p, DecidedEntries)' : h <= j
               PROVE  LivePart(p)' <=> log[j].type = "CREATE_PART"
    BY <1>1 DEF PartsFollowLog
  <2>1. PartEntries(p, DecidedEntries)' = PartEntries(p, DecidedEntries)
    BY <1>1, <1>2, PartEntriesFrame
  <2>2. LivePart(p)' = LivePart(p)
    <3>1. Live' = Live
      BY ClearStutters
    <3> QED BY <3>1, StoresAreNow, StoresAreNext DEF StoresAre
  <2> QED BY <2>1, <2>2 DEF HInv, PartsFollowLog
<1>5. QueueHealers'
  BY <1>1 DEF QueueHealers, QueuedHeals
<1>6. AheadHealed'
  <2> SUFFICES ASSUME NEW p \in Parts, NEW id \in Ids, FirstRune[p] \in Shards, Ahead(p, id)'
               PROVE  WillHeal(p, id)'
    BY DEF AheadHealed
  <2>1. WillHeal(p, id)
    BY <1>1, <1>3 DEF Ahead, HInv, AheadHealed
  <2>2. ~(Undone(FirstRune[p]) /\ QueuedHeals(p, id))
    <3>1. CASE tx[FirstRune[p]].state = "done"
      BY <1>1, <3>1 DEF Undone
    <3>2. CASE tx[FirstRune[p]].state = "none"
      <4>1. GetPendingUpdatesForShard(FirstRune[p]) = {}
        BY <1>1, <3>2 DEF SInv, Building
      <4> QED BY <4>1, QueueType DEF IInv, GetPendingUpdatesForShard, QueuedHeals, Heals
    <3> QED BY <1>1, <3>1, <3>2
  <2>3. PICK i \in 1..Len(log) : ~Decided(i) /\ Healer(i, p, id)
    BY <2>1, <2>2 DEF WillHeal
  <2>4. Healer(i, p, id)'
    BY <1>1, <1>2, <1>3, <2>3, HealerFrame
  <2>5. ~Decided(i)'
    BY <1>1, <2>3 DEF Decided, Covered, AtHand
  <2> QED BY <1>1, <2>4, <2>5 DEF WillHeal
<1>7. OneGiven' /\ BatchAgrees'
  BY <1>1 DEF OneGiven, BatchAgrees
<1> QED BY <1>4, <1>5, <1>6, <1>7 DEF HInv

(* Nor does it matter that the entries up to the recorded index are not      *)
(* replayed: the last part command among them is on disk.                    *)
LEMMA HealMeta ==
  ASSUME IInv, HInv, UpdateLastUpdateIndex
  PROVE  HInv'
<1>1. /\ phase = "meta" /\ phase' = "idle" /\ metaIndex' = lastIndex
      /\ pending = <<>> /\ pending' = <<>> /\ Len(pending') = 0 /\ Len(pending) = 0
      /\ UNCHANGED <<log, applied, batch, existing, block, index, pending>>
  BY DEF IInv, Goroutines, UpdateLastUpdateIndex, hostVars, updateVars
<1>2. /\ Len(log) \in Nat /\ metaIndex \in Nat /\ lastIndex \in Nat /\ applied \in Nat
      /\ metaIndex <= lastIndex /\ lastIndex <= applied
      /\ Covered = applied /\ Covered' = applied /\ AtHand = {} /\ AtHand' = {}
  <2>1. up /\ AtHand' = AtHand /\ Covered' = applied
    BY <1>1 DEF IInv, Memory, AtHand, Covered
  <2> QED BY <1>1, <2>1, Numbers DEF IInv, Indices
<1>3. \A j \in 1..Len(log) :
        /\ j \in DecidedEntries <=> metaIndex < j /\ j <= applied
        /\ j \in DecidedEntries' <=> lastIndex < j /\ j <= applied
  BY <1>1, <1>2 DEF DecidedEntries, Decided
<1>4. DecidedEntries \subseteq 1..Len(log) /\ DecidedEntries' \subseteq 1..Len(log)
  BY <1>1 DEF DecidedEntries
<1>5. /\ \A p, id : DiskPart(p)' = DiskPart(p) /\ DiskDoc(p, id)' = DiskDoc(p, id)
      /\ \A p : (LivePart(p)' <=> LivePart(p)) /\ (LivePart(p)' <=> DiskPart(p)')
  <2>1. SameQueue /\ block' = block
    BY <1>1 DEF SameQueue
  <2> QED BY <1>1, <2>1, FrameStores, EmptyQueue
<1>6. PartsFollowLog'
  <2> SUFFICES ASSUME NEW p \in Parts, FirstRune[p] \in Shards, NEW j \in PartEntries(p, DecidedEntries)',
                      \A h \in PartEntries(p, DecidedEntries)' : h <= j
               PROVE  LivePart(p)' <=> log[j].type = "CREATE_PART"
    BY <1>1 DEF PartsFollowLog
  <2>1. j \in 1..Len(log) /\ lastIndex < j /\ j <= applied /\ log[j].part = p /\ log[j].type \in PartTypes
    BY <1>1, <1>3, <1>4 DEF PartEntries
  <2>2. j \in PartEntries(p, DecidedEntries)
    BY <1>2, <1>3, <2>1 DEF PartEntries
  <2>3. \A h \in PartEntries(p, DecidedEntries) : h <= j
    <3> SUFFICES ASSUME NEW h \in PartEntries(p, DecidedEntries) PROVE h <= j
      OBVIOUS
    <3>1. h \in 1..Len(log) /\ h <= applied /\ log[h].part = p /\ log[h].type \in PartTypes
      BY <1>3, <1>4 DEF PartEntries
    <3>2. lastIndex < h => h \in PartEntries(p, DecidedEntries)'
      BY <1>1, <1>3, <3>1 DEF PartEntries
    <3> QED BY <1>2, <2>1, <3>1, <3>2
  <2> QED BY <1>5, <2>2, <2>3 DEF HInv, PartsFollowLog
<1>7. QueueHealers'
  BY <1>1 DEF QueueHealers, QueuedHeals
<1>8. AheadHealed'
  <2> SUFFICES ASSUME NEW p \in Parts, NEW id \in Ids, FirstRune[p] \in Shards, Ahead(p, id)'
               PROVE  WillHeal(p, id)'
    BY DEF AheadHealed
  <2>1. WillHeal(p, id) /\ ~QueuedHeals(p, id)
    BY <1>1, <1>5 DEF Ahead, HInv, AheadHealed, QueuedHeals
  <2>2. PICK i \in 1..Len(log) : ~Decided(i) /\ Healer(i, p, id)
    BY <2>1 DEF WillHeal
  <2>3. applied < i /\ ~Decided(i)' /\ metaIndex' < i
    BY <1>1, <1>2, <2>2 DEF Decided
  <2> DEFINE S == PartEntries(p, ReplayedBefore(i))
             D == PartEntries(p, DecidedEntries)
  <2>4. PartComes(i, p) => PartComes(i, p)'
    <3> SUFFICES ASSUME PartComes(i, p) PROVE PartComes(i, p)'
      OBVIOUS
    <3>1. (S = {} => DiskPart(p)) /\ EndsWithCreate(S)
      BY DEF PartComes
    <3>2. S \in SUBSET (1..Len(log)) /\ S' = {j \in S : lastIndex < j}
      BY <1>1, <1>2 DEF PartEntries, ReplayedBefore
    <3>3. EndsWithCreate(S)'
      <4> SUFFICES ASSUME NEW j \in S', \A h \in S' : h <= j PROVE log[j].type = "CREATE_PART"
        BY <1>1 DEF EndsWithCreate
      <4>1. j \in S /\ j \in Nat /\ lastIndex < j
        BY <3>2
      <4>2. \A h \in S : h <= j
        <5> HIDE DEF S
        <5> QED BY <1>2, <3>2, <4>1
      <4> QED BY <3>1, <4>1, <4>2 DEF EndsWithCreate
    <3>4. S' = {} => DiskPart(p)'
      <4> SUFFICES ASSUME S' = {} PROVE DiskPart(p)
        BY <1>5
      <4>1. CASE S = {}
        BY <3>1, <4>1
      <4>2. CASE S # {}
        <5>1. PICK m \in S : \A h \in S : h <= m
          <6> HIDE DEF S
          <6> QED BY <1>2, <3>2, <4>2, GreatestIndex
        <5>2. m \in 1..Len(log) /\ m <= lastIndex /\ log[m].type = "CREATE_PART"
          <6>1. m \in 1..Len(log) /\ ~(lastIndex < m)
            <7> HIDE DEF S
            <7> QED BY <3>2
          <6>2. log[m].type = "CREATE_PART"
            BY <3>1, <5>1 DEF EndsWithCreate
          <6> QED BY <1>2, <6>1, <6>2
        <5>3. m \in D
          BY <1>2, <1>3, <5>2 DEF PartEntries, ReplayedBefore
        <5>4. \A h \in D : h \in S
          BY <1>2, <1>3, <1>4, <2>3 DEF PartEntries, ReplayedBefore
        <5>5. LivePart(p)
          BY <5>1, <5>2, <5>3, <5>4 DEF HInv, PartsFollowLog
        <5> QED BY <1>5, <5>5
      <4> QED BY <4>1, <4>2
    <3> QED BY <3>3, <3>4 DEF PartComes
  <2>5. Healer(i, p, id)'
    BY <1>1, <1>5, <2>2, <2>3, <2>4 DEF Healer
  <2> QED BY <1>1, <2>2, <2>3, <2>5 DEF WillHeal
<1>9. OneGiven' /\ BatchAgrees'
  BY <1>1 DEF OneGiven, BatchAgrees
<1> QED BY <1>6, <1>7, <1>8, <1>9 DEF HInv

-----------------------------------------------------------------------------
LEMMA HealInit == Init => HInv
<1> SUFFICES ASSUME Init PROVE HInv
  OBVIOUS
<1>1. /\ log = <<>> /\ Len(log) = 0 /\ pending = <<>> /\ Len(pending) = 0 /\ phase = "idle"
      /\ block = [c \in Shards |-> EmptyBlock] /\ index = [c \in Shards |-> EmptyIndex]
  BY DEF Init
<1>2. OneGiven /\ BatchAgrees /\ PartsFollowLog /\ QueueHealers
  BY <1>1 DEF OneGiven, BatchAgrees, PartsFollowLog, PartEntries, DecidedEntries, QueueHealers, QueuedHeals
<1>3. AheadHealed
  <2> SUFFICES ASSUME NEW p \in Parts, NEW id \in Ids, FirstRune[p] \in Shards
               PROVE  ~Ahead(p, id)
    BY DEF AheadHealed
  <2>1. DiskDoc(p, id) = NoDoc
    BY <1>1 DEF DiskDoc, DiskPart, EmptyBlock
  <2>2. FullId(p, id) \in FullIds
    BY DEF FullIds
  <2> QED BY <1>1, <2>1, <2>2 DEF Ahead, EmptyIndex
<1> QED BY <1>2, <1>3 DEF HInv

LEMMA HealStep ==
  ASSUME MaxShardBatch <= 1, FullIdsDiffer, IInv, SInv, HInv, [Next]_vars
  PROVE  HInv'
<1>1. ASSUME NEW cmd \in Commands, Propose(cmd) PROVE HInv'
  BY <1>1, HealPropose
<1>2. ASSUME UpdateStep PROVE HInv'
  BY <1>2, HealUpdateStart, HealUpdateShard, HealDecide, HealUpdateReturn DEF UpdateStep
<1>3. ASSUME SyncStart PROVE HInv'
  BY <1>3, HealSyncStart
<1>4. ASSUME SyncStep PROVE HInv'
  <2>1. ASSUME NEW c \in Shards, SyncPanic(c) PROVE HInv'
    BY <2>1, HealStop DEF SyncPanic
  <2> QED BY <1>4, <2>1, HealTxApply, HealIndexBatch, HealTxCommit, HealClear, HealMeta DEF SyncStep
<1>5. ASSUME Open PROVE HInv'
  BY <1>5, HealOpen
<1>6. ASSUME Crash \/ Close PROVE HInv'
  BY <1>6, HealStop DEF Crash, Close
<1>7. CASE UNCHANGED vars
  <2>1. UNCHANGED <<log, applied, phase, batch, existing, batchEnd, pending, metaIndex, block, index, tx>>
    BY <1>7 DEF vars
  <2>2. SameQueue /\ SameEntries
    BY <2>1, Numbers DEF SameQueue, SameEntries
  <2>3. Framed
    BY <2>1, <2>2 DEF Framed, SameDecided, Decided, Covered, AtHand, Undone
  <2> QED BY <2>1, <2>2, <2>3, IndexFrame, BatchFrame, GivenFrame DEF HInv
<1> QED BY <1>1, <1>2, <1>3, <1>4, <1>5, <1>6, <1>7 DEF Next

LEMMA HealInvariant ==
  ASSUME MaxShardBatch <= 1, FullIdsDiffer
  PROVE  Spec => [](IInv /\ SInv /\ HInv)
<1>1. Init => IInv /\ SInv /\ HInv
  BY RecoveryInit, StoreInit, HealInit
<1>2. (IInv /\ SInv /\ HInv) /\ [Next]_vars => (IInv /\ SInv /\ HInv)'
  BY RecoveryStep, StoreStep, HealStep
<1> QED BY <1>1, <1>2, PTL DEF Spec

(* Where ApplyUpdates' index batch left the search index ahead of the block, *)
(* whatever crashes and Syncs came before, the log after the recorded index  *)
(* holds a command on that document, for names without colliding full ids    *)
(* and hosts that give Update at most one entry of a shard at a time.        *)
THEOREM IndexHealedByReplayCorrect ==
  ASSUME MaxShardBatch <= 1, FullIdsDiffer
  PROVE  Spec => []IndexHealedByReplay
<1>1. ASSUME IInv, SInv, HInv, NEW p \in Parts, NEW id \in Ids, FirstRune[p] \in Shards, Ahead(p, id)
      PROVE  \E i \in (metaIndex + 1)..Len(log) : Touches(log[i], FullId(p, id))
  <2>1. PICK i \in 1..Len(log) : Healer(i, p, id)
    <3>1. CASE Undone(FirstRune[p]) /\ QueuedHeals(p, id)
      BY <1>1, <3>1, PendingInLog DEF HInv, IInv, QueueHealers
    <3> QED BY <1>1, <3>1 DEF HInv, AheadHealed, WillHeal
  <2>2. i \in (metaIndex + 1)..Len(log) /\ log[i].part = p
    BY <1>1, <2>1, Numbers DEF Healer
  <2>3. IsPart(log[i]) \/ log[i].id = id
    BY <2>1 DEF Healer, IsPart
  <2> QED BY <2>2, <2>3 DEF Touches
<1>2. IInv /\ SInv /\ HInv => IndexHealedByReplay
  BY <1>1 DEF IndexHealedByReplay, Ahead
<1>3. Spec => [](IInv /\ SInv /\ HInv)
  BY HealInvariant
<1> QED BY <1>2, <1>3, PTL
=============================================================================
