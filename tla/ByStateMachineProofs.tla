------------------------ MODULE ByStateMachineProofs ------------------------
(***************************************************************************)
(* Proofs about ByStateMachine, for every set of names, documents and      *)
(* commands, every alphabet and every bound.                               *)
(***************************************************************************)
EXTENDS ByStateMachine, WellFoundedInduction, TLAPS

-----------------------------------------------------------------------------
(* The operations of a shard: what they return, for every block, index and   *)
(* command.                                                                  *)

(* What the parsers guarantee of a command. *)
LEMMA CommandType ==
  ASSUME NEW cmd \in Commands
  PROVE  /\ cmd.type \in {"POST", "PUT", "DEL", "CREATE_PART", "DELETE_PART"}
         /\ cmd.part \in Parts
         /\ ~IsPart(cmd) => cmd.id \in Ids
         /\ cmd.type \in {"POST", "PUT"} => cmd.doc \in Documents
         /\ cmd.doc \in Documents \cup {EmptyDoc}
<1>1. cmd \in WriteCommands
  BY CommandsAssumption
<1>2. \/ \E p \in Parts, id \in Ids, d \in Documents : cmd = POST(p, id, d)
      \/ \E p \in Parts, id \in Ids, t \in Stamps, d \in Documents : cmd = PUT(p, id, t, d)
      \/ \E p \in Parts, id \in Ids, t \in Stamps : cmd = DEL(p, id, t)
      \/ \E p \in Parts : cmd = CREATE_PART(p)
      \/ \E p \in Parts : cmd = DELETE_PART(p)
  BY <1>1 DEF WriteCommands
<1>3. CASE \E p \in Parts, id \in Ids, d \in Documents : cmd = POST(p, id, d)
  BY <1>3 DEF POST, IsPart
<1>4. CASE \E p \in Parts, id \in Ids, t \in Stamps, d \in Documents : cmd = PUT(p, id, t, d)
  BY <1>4 DEF PUT, IsPart
<1>5. CASE \E p \in Parts, id \in Ids, t \in Stamps : cmd = DEL(p, id, t)
  BY <1>5 DEF DEL, IsPart
<1>6. CASE \E p \in Parts : cmd = CREATE_PART(p)
  BY <1>6 DEF CREATE_PART, IsPart
<1>7. CASE \E p \in Parts : cmd = DELETE_PART(p)
  BY <1>7 DEF DELETE_PART, IsPart
<1> QED BY <1>2, <1>3, <1>4, <1>5, <1>6, <1>7

LEMMA EmptyTypes == EmptyBlock \in Blocks /\ EmptyIndex \in Indexes /\ NoDocs \in [Ids -> DocOrNil]
  BY DEF EmptyBlock, EmptyIndex, Blocks, Indexes, NoDocs, DocOrNil

(* A View transaction of FindExistingDocumentsForUpdates completes what the  *)
(* queue scan left open.                                                     *)
LEMMA FindExistingDocumentType ==
  ASSUME NEW b \in Blocks, NEW cmd \in Commands, NEW found \in Existing
  PROVE  FindExistingDocument(b, cmd, found) \in Existing
  BY CommandType DEF FindExistingDocument, GetDocumentString, Existing, Blocks, DocOrNil

(* Each entry of ApplyUpdates leads from a block to a block ... *)
LEMMA ApplyToBlockType ==
  ASSUME NEW b \in Blocks, NEW cmd \in Commands
  PROVE  ApplyToBlock(b, cmd) \in Blocks
<1>1. CASE cmd.type = "CREATE_PART"
  BY <1>1, CommandType DEF ApplyToBlock, Blocks
<1>2. CASE cmd.type = "DELETE_PART"
  <2>1. [b.docs EXCEPT ![cmd.part] = NoDocs] \in [Parts -> [Ids -> DocOrNil]]
    BY EmptyTypes, CommandType DEF Blocks
  <2> QED BY <1>2, <2>1 DEF ApplyToBlock, Blocks
<1>3. CASE cmd.type = "DEL"
  BY <1>3, CommandType DEF ApplyToBlock, Blocks, DocOrNil, IsPart
<1>4. CASE cmd.type \in {"POST", "PUT"}
  BY <1>4, CommandType DEF ApplyToBlock, Blocks, DocOrNil, IsPart
<1> QED BY <1>1, <1>2, <1>3, <1>4, CommandType

(* ... and from an index to an index. *)
LEMMA ApplyToIndexType ==
  ASSUME NEW b \in Blocks, NEW ix \in Indexes, NEW cmd \in Commands
  PROVE  ApplyToIndex(b, ix, cmd) \in Indexes
<1>1. CASE cmd.type = "CREATE_PART"
  BY <1>1 DEF ApplyToIndex
<1>2. CASE cmd.type = "DELETE_PART"
  BY <1>2 DEF ApplyToIndex, Indexes, DocOrNil
<1>3. CASE cmd.type = "DEL"
  BY <1>3, CommandType DEF ApplyToIndex, Indexes, DocOrNil, IsPart, FullIds
<1>4. CASE cmd.type \in {"POST", "PUT"}
  BY <1>4, CommandType DEF ApplyToIndex, Indexes, DocOrNil, IsPart, FullIds
<1> QED BY <1>1, <1>2, <1>3, <1>4, CommandType

-----------------------------------------------------------------------------
(* Operators. *)

(* A bounded nonempty set of naturals has a greatest element, so that the    *)
(* CHOOSE of the queue scan and of findHighestIndexInPending is well defined.*)
LEMMA MaxExists ==
  ASSUME NEW n \in Nat, NEW S \in SUBSET (0..n), S # {}
  PROVE  \E m \in S : \A j \in S : j <= m
<1> DEFINE T == {n - k : k \in S}
<1>1. T \subseteq Nat /\ T # {}
  <2>1. \A k \in S : k \in 0..n /\ n - k \in Nat
    OBVIOUS
  <2>2. PICK k \in S : TRUE
    OBVIOUS
  <2>3. n - k \in T
    OBVIOUS
  <2> QED BY <2>1, <2>3
<1>2. PICK x \in T : \A y \in T : ~(<<y, x>> \in OpToRel(<, Nat))
  <2> HIDE DEF T
  <2> QED BY <1>1, NatLessThanWellFounded, WFMin
<1>3. PICK m \in S : x = n - m
  OBVIOUS
<1>4. \A j \in S : ~((n - j) < (n - m))
  <2> SUFFICES ASSUME NEW j \in S PROVE ~((n - j) < (n - m))
    OBVIOUS
  <2>1. (n - j) \in T /\ (n - j) \in Nat /\ (n - m) \in Nat
    OBVIOUS
  <2>2. ~(<<n - j, n - m>> \in OpToRel(<, Nat))
    BY <1>2, <1>3, <2>1
  <2> QED BY <2>1, <2>2 DEF OpToRel
<1> QED BY <1>4

(* The newest of a set of queue positions is one of them and the greatest. *)
LEMMA NewestProperties ==
  ASSUME NEW n \in Nat, NEW S \in SUBSET (1..n)
  PROVE  /\ S = {} => Newest(S) = 0
         /\ S # {} => Newest(S) \in S /\ \A j \in S : j <= Newest(S)
<1>1. S # {} => \E m \in S : \A j \in S : j <= m
  BY MaxExists, S \in SUBSET (0..n)
<1> QED BY <1>1 DEF Newest

(* What Update learns from the queue about an entry is well typed. *)
LEMMA FindInPendingType ==
  ASSUME TypeOK, NEW cmd
  PROVE  FindInPending(cmd) \in Existing
<1> DEFINE k == FindCommandInPending(cmd)
<1>1. k = 0 \/ k \in 1..Len(pending)
  BY NewestProperties, MatchPositions(cmd) \in SUBSET (1..Len(pending)), Len(pending) \in Nat
     DEF TypeOK, FindCommandInPending, MatchPositions
<1>2. CASE k = 0
  BY <1>2 DEF FindInPending, Existing, DocOrNil
<1>3. CASE k \in 1..Len(pending)
  <2>1. log[pending[k]] \in Commands
    BY <1>3 DEF TypeOK
  <2> QED BY <2>1, <1>3, CommandType DEF FindInPending, Existing, DocOrNil
<1> QED BY <1>1, <1>2, <1>3

(* findHighestIndexInPending is the greatest of s.lastIndex and the queued   *)
(* indices.                                                                  *)
LEMMA HighestIndexProperties ==
  ASSUME TypeOK
  PROVE  /\ FindHighestIndexInPending \in PendingSet \cup {lastIndex}
         /\ \A i \in PendingSet \cup {lastIndex} : i <= FindHighestIndexInPending
         /\ FindHighestIndexInPending \in 0..Len(log)
<1>1. PendingSet \cup {lastIndex} \in SUBSET (0..Len(log)) /\ Len(log) \in Nat
  BY DEF TypeOK, PendingSet
<1>2. \E m \in PendingSet \cup {lastIndex} : \A j \in PendingSet \cup {lastIndex} : j <= m
  BY <1>1, MaxExists
<1> QED BY <1>1, <1>2 DEF FindHighestIndexInPending

(* Every entry gets one of the codes. *)
LEMMA DecideType ==
  ASSUME NEW cmd \in Commands, NEW e \in Existing
  PROVE  Decide(cmd, e) \in Codes
  BY CommandType DEF Decide, Codes, Existing

LEMMA NoTxType == NoTx \in Txs /\ NoTx.todo = {}
  BY EmptyTypes DEF NoTx, Txs

-----------------------------------------------------------------------------
(* Type correctness. *)

LEMMA TypeInit == Init => TypeOK
<1> SUFFICES ASSUME Init PROVE TypeOK
  OBVIOUS
<1>1. log \in Seq(Commands) /\ Len(log) = 0 /\ pending \in Seq(1..Len(log))
  BY DEF Init
<1>2. DOMAIN existing = {}
  BY DEF Init, NoEntries
<1>3. tx \in [Shards -> Txs] /\ \A c \in Shards : tx[c].todo = {}
  BY NoTxType DEF Init
<1>4. /\ result \in [1..MaxLog -> Codes]
      /\ answer \in [1..MaxLog -> Codes \cup {NoAnswer}]
      /\ block \in [Shards -> Blocks]
      /\ index \in [Shards -> Indexes]
  BY EmptyTypes DEF Init, Codes
<1>5. /\ applied = 0 /\ up \in BOOLEAN /\ phase = "idle" /\ batch = {} /\ batchEnd = 0
      /\ lastIndex = 0 /\ metaIndex = 0 /\ flushed = {} /\ crashes = 0
  BY DEF Init
<1> QED BY <1>1, <1>2, <1>3, <1>4, <1>5, BoundsAssumption DEF TypeOK

(* The state that a stopped process leaves is well typed. *)
LEMMA TypeStop ==
  ASSUME TypeOK, Stop, crashes' \in 0..MaxCrash
  PROVE  TypeOK'
<1>1. DOMAIN existing' = {} /\ pending' \in Seq(1..Len(log'))
  BY DEF Stop, NoEntries
<1>2. tx' \in [Shards -> Txs] /\ \A c \in Shards : tx'[c].todo = {}
  BY NoTxType DEF Stop
<1>3. /\ log' = log /\ answer' = answer /\ result' = result /\ metaIndex' = metaIndex
      /\ block' = block /\ index' = index /\ flushed' = flushed
      /\ up' \in BOOLEAN /\ phase' = "idle" /\ applied' = 0 /\ batch' = {}
      /\ batchEnd' = 0 /\ lastIndex' = 0
  BY DEF Stop, diskVars
<1> QED BY <1>1, <1>2, <1>3 DEF TypeOK

LEMMA TypeUpdate ==
  ASSUME TypeOK, UpdateStep
  PROVE  TypeOK'
<1>1. ASSUME NEW n \in 1..MaxBatch, UpdateStart(n) PROVE TypeOK'
  BY <1>1, BoundsAssumption DEF TypeOK, UpdateStart, hostVars, diskVars, Codes
<1>2. ASSUME NEW c \in Shards, UpdateShard(c) PROVE TypeOK'
  <2> DEFINE S == OfShard(batch, c)
  <2>1. S \subseteq 1..Len(log)
    BY DEF TypeOK, OfShard
  <2>2. \A i \in S : FindExisting(c, S)[i] \in Existing
    <3> SUFFICES ASSUME NEW i \in S PROVE FindExisting(c, S)[i] \in Existing
      OBVIOUS
    <3>1. FindInPending(log[i]) \in Existing
      BY FindInPendingType
    <3>2. FindExistingDocument(block[c], log[i], FindInPending(log[i])) \in Existing
      BY <2>1, <3>1, FindExistingDocumentType DEF TypeOK
    <3> QED BY <3>1, <3>2 DEF FindExisting
  <2>3. DOMAIN existing' = S /\ \A i \in DOMAIN existing' : existing'[i] \in Existing
    BY <1>2, <2>2 DEF UpdateShard, FindExisting
  <2> QED BY <1>2, <2>1, <2>3 DEF TypeOK, UpdateShard, hostVars, diskVars
<1>3. ASSUME DecideEntry PROVE TypeOK'
  <2>1. PICK i \in DOMAIN existing :
          /\ result' = [result EXCEPT ![i] = Decide(log[i], existing[i])]
          /\ pending' = IF Decide(log[i], existing[i]) = 200 THEN Append(pending, i) ELSE pending
          /\ existing' = [j \in DOMAIN existing \ {i} |-> existing[j]]
    BY <1>3 DEF DecideEntry
  <2>2. i \in 1..Len(log) /\ Decide(log[i], existing[i]) \in Codes
    BY <2>1, DecideType DEF TypeOK
  <2>3. pending' \in Seq(1..Len(log)) /\ 1..Len(pending) \subseteq 1..Len(pending')
    <3>1. Append(pending, i) \in Seq(1..Len(log)) /\ Len(Append(pending, i)) = Len(pending) + 1
      BY <2>2 DEF TypeOK
    <3>2. Len(pending) \in Nat
      BY DEF TypeOK
    <3>3. CASE pending' = pending
      BY <3>2, <3>3 DEF TypeOK
    <3>4. CASE pending' = Append(pending, i)
      BY <3>1, <3>2, <3>4
    <3> QED BY <2>1, <3>3, <3>4
  <2>4. result' \in [1..MaxLog -> Codes]
    BY <2>1, <2>2 DEF TypeOK
  <2>5. DOMAIN existing' \subseteq 1..Len(log) /\ \A j \in DOMAIN existing' : existing'[j] \in Existing
    BY <2>1 DEF TypeOK
  <2> QED BY <1>3, <2>3, <2>4, <2>5 DEF TypeOK, DecideEntry, hostVars, diskVars
<1>4. ASSUME UpdateReturn PROVE TypeOK'
  BY <1>4 DEF TypeOK, UpdateReturn, diskVars
<1> QED BY <1>1, <1>2, <1>3, <1>4 DEF UpdateStep

LEMMA TypeSync ==
  ASSUME TypeOK, SyncStart \/ SyncStep
  PROVE  TypeOK'
<1>1. ASSUME SyncStart PROVE TypeOK'
  <2>1. lastIndex' \in 0..Len(log)
    BY <1>1, HighestIndexProperties DEF SyncStart
  <2>2. \A c \in Shards : GetPendingUpdatesForShard(c) \subseteq 1..Len(pending)
    BY DEF GetPendingUpdatesForShard
  <2>3. tx' \in [Shards -> Txs] /\ \A c \in Shards : tx'[c].todo \subseteq 1..Len(pending)
    <3> SUFFICES ASSUME NEW c \in Shards
                 PROVE  tx'[c] \in Txs /\ tx'[c].todo \subseteq 1..Len(pending)
      BY <1>1 DEF SyncStart
    <3> DEFINE t == [state |-> "run", todo |-> GetPendingUpdatesForShard(c),
                     block |-> block[c], index |-> index[c]]
    <3>1. t \in Txs /\ t.todo \subseteq 1..Len(pending)
      BY <2>2 DEF TypeOK, Txs
    <3>2. tx'[c] = t \/ tx'[c] = NoTx
      BY <1>1 DEF SyncStart
    <3> QED BY <3>1, <3>2, NoTxType
  <2> QED BY <1>1, <2>1, <2>3 DEF TypeOK, SyncStart, hostVars, updateVars, diskVars
<1>2. ASSUME NEW c \in Shards, TxApply(c) PROVE TypeOK'
  <2>1. PICK k \in tx[c].todo :
          tx' = [tx EXCEPT ![c] =
                  [state |-> "run", todo |-> tx[c].todo \ {k},
                   block |-> ApplyToBlock(tx[c].block, log[pending[k]]),
                   index |-> ApplyToIndex(tx[c].block, tx[c].index, log[pending[k]])]]
    BY <1>2 DEF TxApply
  <2>2. log[pending[k]] \in Commands /\ tx[c].block \in Blocks /\ tx[c].index \in Indexes
        /\ tx[c].todo \ {k} \in SUBSET Nat
    BY DEF TypeOK, Txs
  <2>3. /\ ApplyToBlock(tx[c].block, log[pending[k]]) \in Blocks
        /\ ApplyToIndex(tx[c].block, tx[c].index, log[pending[k]]) \in Indexes
    BY <2>2, ApplyToBlockType, ApplyToIndexType
  <2>4. tx'[c] \in Txs /\ tx'[c].todo \subseteq 1..Len(pending)
    BY <2>1, <2>2, <2>3 DEF TypeOK, Txs
  <2>5. tx' \in [Shards -> Txs] /\ \A d \in Shards : tx'[d].todo \subseteq 1..Len(pending)
    BY <2>1, <2>4 DEF TypeOK
  <2> QED BY <1>2, <2>5 DEF TypeOK, TxApply, hostVars, updateVars, diskVars
<1>3. ASSUME NEW c \in Shards, IndexBatch(c) \/ TxCommit(c) PROVE TypeOK'
  <2>1. tx[c].block \in Blocks /\ tx[c].index \in Indexes
    BY DEF TypeOK, Txs
  <2>2. block' \in [Shards -> Blocks] /\ index' \in [Shards -> Indexes]
    BY <1>3, <2>1 DEF TypeOK, IndexBatch, TxCommit
  <2>3. tx' \in [Shards -> Txs] /\ \A d \in Shards : tx'[d].todo \subseteq 1..Len(pending)
    <3>1. PICK st \in {"indexed", "done"} : tx' = [tx EXCEPT ![c].state = st]
      BY <1>3 DEF IndexBatch, TxCommit
    <3>2. tx'[c] \in Txs /\ tx'[c].todo = tx[c].todo
      BY <3>1 DEF TypeOK, Txs
    <3> QED BY <3>1, <3>2 DEF TypeOK
  <2>4. flushed' \subseteq 1..Len(log)
    BY <1>3 DEF TypeOK, IndexBatch, TxCommit, OfShard, PendingSet
  <2> QED BY <1>3, <2>2, <2>3, <2>4
          DEF TypeOK, IndexBatch, TxCommit, hostVars, updateVars
<1>4. ASSUME ClearPendingQueue PROVE TypeOK'
  <2>1. pending' \in Seq(1..Len(log))
    BY <1>4 DEF ClearPendingQueue
  <2>2. tx' \in [Shards -> Txs] /\ \A c \in Shards : tx'[c].todo = {}
    BY <1>4, NoTxType DEF ClearPendingQueue
  <2> QED BY <1>4, <2>1, <2>2 DEF TypeOK, ClearPendingQueue, hostVars, updateVars, diskVars
<1>5. ASSUME UpdateLastUpdateIndex PROVE TypeOK'
  BY <1>5 DEF TypeOK, UpdateLastUpdateIndex, hostVars, updateVars
<1>6. ASSUME NEW c \in Shards, SyncPanic(c) PROVE TypeOK'
  BY <1>6, TypeStop DEF SyncPanic, TypeOK
<1> QED BY <1>1, <1>2, <1>3, <1>4, <1>5, <1>6 DEF SyncStep

LEMMA TypeStep == TypeOK /\ [Next]_vars => TypeOK'
<1> SUFFICES ASSUME TypeOK, [Next]_vars PROVE TypeOK'
  OBVIOUS
<1>1. ASSUME NEW cmd \in Commands, Propose(cmd) PROVE TypeOK'
  <2>1. /\ log' \in Seq(Commands) /\ Len(log') = Len(log) + 1 /\ Len(log') <= MaxLog
        /\ 1..Len(log) \subseteq 1..Len(log') /\ 0..Len(log) \subseteq 0..Len(log')
    BY <1>1, BoundsAssumption DEF Propose, TypeOK
  <2>2. pending' \in Seq(1..Len(log'))
    BY <1>1, <2>1 DEF Propose, TypeOK
  <2> QED BY <1>1, <2>1, <2>2 DEF TypeOK, Propose, updateVars, diskVars
<1>2. ASSUME Open PROVE TypeOK'
  <2>1. up' \in BOOLEAN
    BY <1>2 DEF Open
  <2> QED BY <1>2, <2>1 DEF TypeOK, Open, GetLastUpdateIndex, updateVars, diskVars
<1>3. ASSUME Crash \/ Close PROVE TypeOK'
  <2>1. crashes' \in 0..MaxCrash
    BY <1>3, BoundsAssumption DEF Crash, Close, TypeOK
  <2> QED BY <1>3, <2>1, TypeStop DEF Crash, Close
<1>4. CASE UNCHANGED vars
  BY <1>4 DEF TypeOK, vars
<1> QED BY <1>1, <1>2, <1>3, <1>4, TypeUpdate, TypeSync DEF Next

(* The state machine stays type correct: every position that a goroutine of  *)
(* Sync is about to read lies in the queue, every queued and every recorded  *)
(* index in the log, whatever the host batches and wherever the process      *)
(* stops.                                                                    *)
THEOREM TypeCorrect == Spec => []TypeOK
  BY TypeInit, TypeStep, PTL DEF Spec

-----------------------------------------------------------------------------
(***************************************************************************)
(* Recovery loses no accepted write and repeats none: NoReplayGap and      *)
(* PendingOrdered hold of every behaviour, for every alphabet, every log   *)
(* and every way the host batches entries and the process stops.           *)
(***************************************************************************)
(* The last entry that Update has been given since the process started. *)
Covered == IF phase = "update" THEN batchEnd ELSE applied

(* A stopped process keeps nothing in memory, and only Update has entries at *)
(* hand.                                                                     *)
Memory ==
  /\ ~up => phase = "idle" /\ pending = <<>>
  /\ phase # "update" => batch = {} /\ DOMAIN existing = {}

(* The indices are in order: recorded, fixed by Sync, applied. *)
Indices ==
  up => /\ metaIndex <= lastIndex /\ lastIndex <= applied
        /\ phase \in {"idle", "update"} => lastIndex = metaIndex
        /\ phase = "update" => applied <= batchEnd

(* The entries at hand are new, have a shard once ranged over, and come      *)
(* after the queued entries of their shard.                                  *)
AtHand == batch \cup DOMAIN existing

EntriesAtHand ==
  /\ \A i \in AtHand : applied < i /\ i <= batchEnd
  /\ \A i \in DOMAIN existing : ShardOf(log[i]) \in Shards
  /\ \A i \in DOMAIN existing, j \in batch : ShardOf(log[i]) # ShardOf(log[j])
  /\ \A k \in 1..Len(pending), i \in AtHand :
       ShardOf(log[pending[k]]) = ShardOf(log[i]) => pending[k] < i

(* A queued entry has a shard and has been given to Update since the process *)
(* started.                                                                  *)
QueueCovered ==
  \A k \in 1..Len(pending) :
    ShardOf(log[pending[k]]) \in Shards /\ metaIndex < pending[k] /\ pending[k] <= Covered

QueueOrdered ==
  \A k \in 1..Len(pending) : \A j \in 1..(k - 1) :
    ShardOf(log[pending[j]]) = ShardOf(log[pending[k]]) => pending[j] < pending[k]

(* What Update has accepted is in the queue or on disk. *)
Accounted ==
  up => \A i \in 1..Len(log) : i <= Covered /\ result[i] = 200 => i \in PendingSet \cup flushed

(* A goroutine of Sync that has ended has committed the queued entries of    *)
(* its shard, and a shard without one has none; after that the queue is      *)
(* empty.                                                                    *)
Goroutines ==
  /\ phase = "apply" =>
       \A c \in Shards : \/ tx[c].state \in {"run", "indexed"}
                         \/ OfShard(PendingSet, c) \subseteq flushed
  /\ phase = "meta" => pending = <<>>

IInv ==
  /\ TypeOK
  /\ Memory
  /\ Indices
  /\ EntriesAtHand
  /\ QueueCovered
  /\ QueueOrdered
  /\ Accounted
  /\ Goroutines
  /\ NoReplayGap

-----------------------------------------------------------------------------
LEMMA PendingInLog ==
  ASSUME TypeOK
  PROVE  /\ Len(pending) \in Nat
         /\ \A k \in 1..Len(pending) : pending[k] \in 1..Len(log)
         /\ PendingSet \subseteq 1..Len(log)
<1>1. Len(pending) \in Nat /\ \A k \in 1..Len(pending) : pending[k] \in 1..Len(log)
  BY DEF TypeOK
<1> QED BY <1>1 DEF PendingSet

LEMMA RecoveryInit == Init => IInv
<1> SUFFICES ASSUME Init PROVE IInv
  OBVIOUS
<1>1. TypeOK
  BY TypeInit
<1>2. pending = <<>> /\ Len(pending) = 0 /\ Len(log) = 0 /\ DOMAIN existing = {} /\ batch = {} /\ phase = "idle"
  BY DEF Init, NoEntries
<1>3. ~up
  BY DEF Init
<1>4. Memory /\ Indices /\ EntriesAtHand /\ QueueCovered /\ QueueOrdered /\ Goroutines
  BY <1>2, <1>3 DEF Memory, Indices, EntriesAtHand, AtHand, QueueCovered, QueueOrdered, Goroutines
<1>5. Accounted /\ NoReplayGap
  BY <1>2, <1>3 DEF Accounted, NoReplayGap
<1> QED BY <1>1, <1>4, <1>5 DEF IInv

(* A new log entry is beyond every index that the replica knows. *)
LEMMA RecoveryPropose ==
  ASSUME IInv, TypeOK', NEW cmd \in Commands, Propose(cmd)
  PROVE  IInv'
<1>1. /\ Len(log) \in Nat /\ Len(log') = Len(log) + 1
      /\ \A i \in 1..Len(log) : log'[i] = log[i]
  BY DEF IInv, TypeOK, Propose
<1>2. /\ \A k \in 1..Len(pending) : pending[k] \in 1..Len(log)
      /\ AtHand \subseteq 1..Len(log)
      /\ PendingSet \subseteq 1..Len(log)
  BY PendingInLog DEF IInv, TypeOK, AtHand
<1>3. /\ UNCHANGED <<applied, up, phase, batch, existing, batchEnd, result, pending,
                     lastIndex, metaIndex, tx, flushed>>
      /\ Covered' = Covered /\ AtHand' = AtHand /\ PendingSet' = PendingSet
  BY DEF Propose, updateVars, diskVars, Covered, AtHand, PendingSet
<1>4. Memory' /\ Indices'
  BY <1>3 DEF IInv, Memory, Indices
<1>5. EntriesAtHand'
  BY <1>1, <1>2, <1>3 DEF IInv, EntriesAtHand, AtHand, ShardOf
<1>6. QueueCovered' /\ QueueOrdered'
  <2>1. \A k \in 1..Len(pending) : ShardOf(log'[pending[k]]) = ShardOf(log[pending[k]])
    BY <1>1, <1>2
  <2>2. \A k \in 1..Len(pending) : \A j \in 1..(k - 1) : j \in 1..Len(pending)
    BY PendingInLog DEF IInv
  <2>3. QueueCovered'
    BY <1>3, <2>1 DEF IInv, QueueCovered
  <2>4. QueueOrdered'
    BY <1>3, <2>1, <2>2 DEF IInv, QueueOrdered
  <2> QED BY <2>3, <2>4
<1>7. Accounted' /\ NoReplayGap'
  <2>1. metaIndex <= Len(log) /\ Covered <= Len(log) /\ metaIndex \in Nat /\ Covered \in Nat
    BY DEF IInv, TypeOK, Covered
  <2> QED BY <1>1, <1>3, <2>1 DEF IInv, Accounted, NoReplayGap
<1>8. Goroutines'
  <2>1. \A c \in Shards : OfShard(PendingSet, c)' = OfShard(PendingSet, c)
    BY <1>1, <1>2, <1>3 DEF OfShard, ShardOf
  <2> QED BY <1>3, <2>1 DEF IInv, Goroutines
<1> QED BY <1>4, <1>5, <1>6, <1>7, <1>8 DEF IInv

(* A stopped process has forgotten everything but what NoReplayGap is about. *)
LEMMA RecoveryStop ==
  ASSUME IInv, TypeOK', Stop
  PROVE  IInv'
<1>1. /\ ~up' /\ phase' = "idle" /\ pending' = <<>> /\ Len(pending') = 0
      /\ batch' = {} /\ DOMAIN existing' = {}
      /\ UNCHANGED <<log, result, metaIndex, flushed>>
  BY DEF Stop, NoEntries, diskVars
<1>2. Memory' /\ Indices' /\ EntriesAtHand' /\ QueueCovered' /\ QueueOrdered' /\ Goroutines'
  BY <1>1 DEF Memory, Indices, EntriesAtHand, AtHand, QueueCovered, QueueOrdered, Goroutines
<1>3. Accounted' /\ NoReplayGap'
  BY <1>1 DEF IInv, Accounted, NoReplayGap
<1> QED BY <1>2, <1>3 DEF IInv

(* The host replays from the recorded index, and NoReplayGap accounts for    *)
(* what it skips.                                                            *)
LEMMA RecoveryOpen ==
  ASSUME IInv, TypeOK', Open
  PROVE  IInv'
<1>1. /\ phase = "idle" /\ pending = <<>> /\ Len(pending) = 0 /\ batch = {} /\ DOMAIN existing = {}
      /\ UNCHANGED <<log, phase, batch, existing, pending, result, metaIndex, flushed>>
      /\ lastIndex' = metaIndex /\ applied' = metaIndex
  BY DEF IInv, Memory, Open, GetLastUpdateIndex, updateVars, diskVars
<1>2. up' /\ metaIndex \in Nat
  BY DEF Open, IInv, TypeOK
<1>3. Memory' /\ Indices' /\ EntriesAtHand' /\ QueueCovered' /\ QueueOrdered' /\ Goroutines'
  BY <1>1, <1>2 DEF Memory, Indices, EntriesAtHand, AtHand, QueueCovered, QueueOrdered, Goroutines
<1>4. Accounted' /\ NoReplayGap'
  BY <1>1, <1>2 DEF IInv, Accounted, NoReplayGap, Covered
<1> QED BY <1>3, <1>4 DEF IInv

(* Update. *)
LEMMA RecoveryUpdateStart ==
  ASSUME IInv, TypeOK', NEW n \in 1..MaxBatch, UpdateStart(n)
  PROVE  IInv'
<1>1. /\ phase = "idle" /\ phase' = "update" /\ batch' = (applied + 1)..(applied + n)
      /\ batchEnd' = applied + n /\ applied + n <= Len(log)
      /\ result' = [i \in 1..MaxLog |-> IF i \in (applied + 1)..(applied + n) THEN 0 ELSE result[i]]
      /\ UNCHANGED <<log, applied, up, existing, pending, lastIndex, metaIndex, tx, flushed>>
  BY DEF UpdateStart, hostVars, diskVars
<1>2. up /\ up'
  BY DEF UpdateStart
<1>3. /\ n \in Nat /\ applied \in Nat /\ metaIndex \in Nat /\ lastIndex \in Nat
      /\ metaIndex <= applied /\ Len(log) \in Nat /\ Len(log) <= MaxLog /\ MaxLog \in Nat
  BY <1>2, BoundsAssumption DEF IInv, TypeOK, Indices
<1>4. /\ AtHand' = (applied + 1)..(applied + n) /\ DOMAIN existing = {}
      /\ Covered = applied /\ Covered' = applied + n /\ PendingSet' = PendingSet
  BY <1>1 DEF IInv, Memory, AtHand, Covered, PendingSet
<1>5. Memory' /\ Indices'
  BY <1>1, <1>2, <1>3, <1>4 DEF IInv, Memory, Indices
<1>6. EntriesAtHand'
  <2>1. \A k \in 1..Len(pending) : pending[k] \in Nat /\ pending[k] <= applied
    BY <1>4, PendingInLog DEF IInv, QueueCovered
  <2> QED BY <1>1, <1>3, <1>4, <2>1 DEF EntriesAtHand
<1>7. QueueCovered' /\ QueueOrdered'
  <2>1. \A k \in 1..Len(pending) : pending[k] \in Nat /\ pending[k] <= Covered
    BY PendingInLog DEF IInv, QueueCovered
  <2> QED BY <1>1, <1>3, <1>4, <2>1 DEF IInv, QueueCovered, QueueOrdered
<1>8. Accounted' /\ NoReplayGap'
  BY <1>1, <1>2, <1>3, <1>4 DEF IInv, Accounted, NoReplayGap
<1>9. Goroutines'
  BY <1>1 DEF Goroutines
<1> QED BY <1>5, <1>6, <1>7, <1>8, <1>9 DEF IInv

LEMMA RecoveryUpdateShard ==
  ASSUME IInv, TypeOK', NEW c \in Shards, UpdateShard(c)
  PROVE  IInv'
<1>1. /\ phase = "update" /\ DOMAIN existing = {}
      /\ DOMAIN existing' = OfShard(batch, c)
      /\ batch' = batch \ OfShard(batch, c)
      /\ UNCHANGED <<log, applied, up, phase, batchEnd, pending, lastIndex, metaIndex, result, tx, flushed>>
  BY DEF UpdateShard, FindExisting, hostVars, diskVars
<1>2. OfShard(batch, c) \subseteq batch /\ \A i \in batch : i \in OfShard(batch, c) <=> ShardOf(log[i]) = c
  BY DEF OfShard
<1>3. AtHand' = AtHand /\ Covered' = Covered /\ PendingSet' = PendingSet
  BY <1>1, <1>2 DEF AtHand, Covered, PendingSet
<1>4. Memory' /\ Indices'
  BY <1>1 DEF IInv, Memory, Indices
<1>5. EntriesAtHand'
  BY <1>1, <1>2, <1>3 DEF IInv, EntriesAtHand
<1>6. QueueCovered' /\ QueueOrdered' /\ Accounted' /\ NoReplayGap' /\ Goroutines'
  BY <1>1, <1>3 DEF IInv, QueueCovered, QueueOrdered, Accounted, NoReplayGap, Goroutines
<1> QED BY <1>4, <1>5, <1>6 DEF IInv

LEMMA RecoveryUpdateReturn ==
  ASSUME IInv, TypeOK', UpdateReturn
  PROVE  IInv'
<1>1. /\ phase = "update" /\ phase' = "idle" /\ applied' = batchEnd
      /\ batch' = {} /\ DOMAIN existing' = {}
      /\ UNCHANGED <<log, up, batchEnd, result, pending, lastIndex, metaIndex, tx, flushed>>
  BY DEF UpdateReturn, diskVars
<1>2. Covered' = Covered /\ PendingSet' = PendingSet /\ AtHand' = {}
  BY <1>1 DEF Covered, PendingSet, AtHand
<1>3. Memory' /\ Indices'
  <2>1. applied \in Nat /\ batchEnd \in Nat /\ lastIndex \in Nat /\ metaIndex \in Nat
    BY DEF IInv, TypeOK
  <2> QED BY <1>1, <2>1 DEF IInv, Memory, Indices
<1>4. EntriesAtHand'
  BY <1>1, <1>2 DEF EntriesAtHand
<1>5. QueueCovered' /\ QueueOrdered' /\ Accounted' /\ NoReplayGap' /\ Goroutines'
  BY <1>1, <1>2 DEF IInv, QueueCovered, QueueOrdered, Accounted, NoReplayGap, Goroutines
<1> QED BY <1>3, <1>4, <1>5 DEF IInv

(* A decided entry leaves the entries at hand; if it is accepted it goes to  *)
(* the end of the queue, after the older entries of its shard.               *)
LEMMA RecoveryDecideEntry ==
  ASSUME IInv, TypeOK', DecideEntry
  PROVE  IInv'
<1>1. PICK i \in DOMAIN existing :
        /\ \A j \in DOMAIN existing : i <= j
        /\ result' = [result EXCEPT ![i] = Decide(log[i], existing[i])]
        /\ pending' = IF Decide(log[i], existing[i]) = 200 THEN Append(pending, i) ELSE pending
        /\ existing' = [j \in DOMAIN existing \ {i} |-> existing[j]]
  BY DEF DecideEntry
<1>2. /\ phase = "update" /\ phase' = "update"
      /\ UNCHANGED <<log, up, applied, batch, batchEnd, lastIndex, metaIndex, tx, flushed>>
  BY DEF DecideEntry, hostVars, diskVars
<1>3. up
  BY <1>2 DEF IInv, Memory
<1>4. /\ i \in 1..Len(log) /\ applied < i /\ i <= batchEnd /\ metaIndex < i
      /\ ShardOf(log[i]) \in Shards /\ Covered = batchEnd /\ Covered' = batchEnd
  <2>1. i \in 1..Len(log) /\ applied \in Nat /\ metaIndex \in Nat /\ lastIndex \in Nat
    BY DEF IInv, TypeOK
  <2> QED BY <1>2, <1>3, <2>1 DEF IInv, Indices, EntriesAtHand, AtHand, Covered
<1>5. DOMAIN existing' = DOMAIN existing \ {i} /\ AtHand' \subseteq AtHand
  BY <1>1, <1>2 DEF AtHand
<1>6. /\ result \in [1..MaxLog -> Codes] /\ i \in 1..MaxLog /\ result' \in [1..MaxLog -> Codes]
      /\ \A j \in 1..MaxLog \ {i} : result'[j] = result[j]
      /\ result'[i] = Decide(log[i], existing[i])
  <2>1. result \in [1..MaxLog -> Codes] /\ result' \in [1..MaxLog -> Codes]
    BY DEF IInv, TypeOK
  <2>2. i \in 1..MaxLog
    BY <1>4, BoundsAssumption DEF IInv, TypeOK
  <2> QED BY <1>1, <2>1, <2>2
<1>7. Memory' /\ Indices' /\ Goroutines'
  BY <1>2, <1>3 DEF IInv, Memory, Indices, Goroutines
<1>8. CASE pending' = pending /\ result'[i] # 200
  <2>1. PendingSet' = PendingSet
    BY <1>8 DEF PendingSet
  <2>2. EntriesAtHand' /\ QueueCovered' /\ QueueOrdered'
    BY <1>2, <1>4, <1>5, <1>8 DEF IInv, EntriesAtHand, QueueCovered, QueueOrdered
  <2>3. Accounted' /\ NoReplayGap'
    <3>1. \A j \in 1..Len(log) : result'[j] = 200 => result[j] = 200
      BY <1>6, <1>8, BoundsAssumption DEF IInv, TypeOK
    <3> QED BY <1>2, <1>3, <1>4, <2>1, <3>1 DEF IInv, Accounted, NoReplayGap
  <2> QED BY <1>7, <2>2, <2>3 DEF IInv
<1>9. CASE pending' = Append(pending, i)
  <2>1. /\ Len(pending) \in Nat /\ Len(pending') = Len(pending) + 1
        /\ \A k \in 1..Len(pending) : pending'[k] = pending[k] /\ pending[k] \in 1..Len(log)
        /\ pending'[Len(pending) + 1] = i
    <3>1. pending \in Seq(1..Len(log)) /\ Len(pending) \in Nat
          /\ \A k \in 1..Len(pending) : pending[k] \in 1..Len(log)
      BY PendingInLog DEF IInv, TypeOK
    <3>2. Len(pending') = Len(pending) + 1
      BY <1>9, <3>1
    <3>3. \A k \in 1..Len(pending) : pending'[k] = pending[k]
      BY <1>9, <3>1
    <3>4. pending'[Len(pending) + 1] = i
      BY <1>9, <3>1
    <3> QED BY <3>1, <3>2, <3>3, <3>4
  <2>2. \A k \in 1..Len(pending) : ShardOf(log[pending[k]]) = ShardOf(log[i]) => pending[k] < i
    BY DEF IInv, EntriesAtHand, AtHand
  <2>3. \A j \in AtHand' : ShardOf(log[i]) = ShardOf(log[j]) => i < j
    <3>1. \A j \in batch : ShardOf(log[i]) # ShardOf(log[j])
      BY DEF IInv, EntriesAtHand
    <3>2. \A j \in DOMAIN existing \ {i} : j \in Nat /\ i \in Nat /\ i <= j /\ i # j
      <4>1. DOMAIN existing \subseteq 1..Len(log)
        BY DEF IInv, TypeOK
      <4> QED BY <1>1, <4>1
    <3> QED BY <1>2, <1>5, <3>1, <3>2 DEF AtHand
  <2>4. EntriesAtHand'
    <3>1. \A k \in 1..Len(pending'), j \in AtHand' :
            ShardOf(log[pending'[k]]) = ShardOf(log[j]) => pending'[k] < j
      <4> SUFFICES ASSUME NEW k \in 1..Len(pending'), NEW j \in AtHand',
                          ShardOf(log[pending'[k]]) = ShardOf(log[j])
                   PROVE  pending'[k] < j
        OBVIOUS
      <4>1. CASE k \in 1..Len(pending)
        BY <1>5, <2>1, <4>1 DEF IInv, EntriesAtHand
      <4>2. CASE k = Len(pending) + 1
        BY <2>1, <2>3, <4>2
      <4> QED BY <2>1, <4>1, <4>2
    <3> QED BY <1>2, <1>5, <3>1 DEF IInv, EntriesAtHand
  <2>5. QueueCovered'
    <3> SUFFICES ASSUME NEW k \in 1..Len(pending')
                 PROVE  /\ ShardOf(log[pending'[k]]) \in Shards /\ metaIndex < pending'[k]
                        /\ pending'[k] <= batchEnd
      BY <1>2, <1>4 DEF QueueCovered
    <3>1. CASE k \in 1..Len(pending)
      BY <1>4, <2>1, <3>1 DEF IInv, QueueCovered
    <3>2. CASE k = Len(pending) + 1
      BY <1>4, <2>1, <3>2
    <3> QED BY <2>1, <3>1, <3>2
  <2>6. QueueOrdered'
    <3> SUFFICES ASSUME NEW k \in 1..Len(pending'), NEW j \in 1..(k - 1),
                        ShardOf(log[pending'[j]]) = ShardOf(log[pending'[k]])
                 PROVE  pending'[j] < pending'[k]
      BY <1>2 DEF QueueOrdered
    <3>1. CASE k \in 1..Len(pending)
      BY <2>1, <3>1 DEF IInv, QueueOrdered
    <3>2. CASE k = Len(pending) + 1
      BY <2>1, <2>2, <3>2
    <3> QED BY <2>1, <3>1, <3>2
  <2>7. PendingSet' = PendingSet \cup {i}
    BY <2>1 DEF PendingSet
  <2>8. Accounted' /\ NoReplayGap'
    <3>1. \A j \in 1..Len(log) : j # i => result'[j] = result[j]
      BY <1>6, BoundsAssumption DEF IInv, TypeOK
    <3>2. Accounted'
      BY <1>2, <1>3, <1>4, <2>7, <3>1 DEF IInv, Accounted
    <3>3. NoReplayGap'
      BY <1>2, <1>4, <3>1, metaIndex \in Nat DEF IInv, TypeOK, NoReplayGap
    <3> QED BY <3>2, <3>3
  <2> QED BY <1>7, <2>4, <2>5, <2>6, <2>8 DEF IInv
<1> QED BY <1>1, <1>6, <1>8, <1>9

(* Sync. *)

(* The index that Sync will record is one Update has been given, and no      *)
(* shard without a goroutine has queued entries.                             *)
LEMMA RecoverySyncStart ==
  ASSUME IInv, TypeOK', SyncStart
  PROVE  IInv'
<1>1. /\ phase = "idle" /\ phase' = "apply"
      /\ lastIndex' = FindHighestIndexInPending
      /\ UNCHANGED <<log, applied, up, batch, existing, batchEnd, result, pending, metaIndex, flushed>>
  BY DEF SyncStart, hostVars, updateVars, diskVars
<1>2. up /\ up'
  BY DEF SyncStart
<1>3. /\ Covered = applied /\ Covered' = applied /\ PendingSet' = PendingSet /\ AtHand' = AtHand
      /\ AtHand = {}
  BY <1>1 DEF IInv, Memory, Covered, PendingSet, AtHand
<1>4. Memory'
  BY <1>1, <1>2 DEF IInv, Memory
<1>5. Indices'
  <2>1. /\ lastIndex' \in PendingSet \cup {lastIndex} /\ lastIndex <= lastIndex'
        /\ lastIndex \in Nat /\ lastIndex' \in Nat /\ metaIndex = lastIndex /\ lastIndex <= applied
    <3>1. lastIndex' \in PendingSet \cup {lastIndex} /\ lastIndex <= lastIndex'
      BY <1>1, HighestIndexProperties DEF IInv
    <3>2. lastIndex \in Nat /\ lastIndex' \in Nat
      BY DEF IInv, TypeOK
    <3>3. metaIndex = lastIndex /\ lastIndex <= applied
      BY <1>1, <1>2 DEF IInv, Indices
    <3> QED BY <3>1, <3>2, <3>3
  <2>2. \A i \in PendingSet : i <= applied
    BY <1>3 DEF IInv, QueueCovered, PendingSet
  <2> QED BY <1>1, <2>1, <2>2 DEF Indices
<1>6. EntriesAtHand' /\ QueueCovered' /\ QueueOrdered' /\ Accounted' /\ NoReplayGap'
  BY <1>1, <1>2, <1>3 DEF IInv, EntriesAtHand, AtHand, QueueCovered, QueueOrdered, Accounted, NoReplayGap
<1>7. Goroutines'
  <2> SUFFICES ASSUME NEW c \in Shards, tx'[c].state \notin {"run", "indexed"}
               PROVE  OfShard(PendingSet, c) = {}
    BY <1>1, <1>3 DEF Goroutines, OfShard
  <2>1. GetPendingUpdatesForShard(c) = {}
    BY DEF SyncStart
  <2> QED BY <2>1 DEF GetPendingUpdatesForShard, OfShard, PendingSet
<1> QED BY <1>4, <1>5, <1>6, <1>7 DEF IInv

(* A goroutine that goes on leaves the queue and the decisions alone; one    *)
(* that commits has flushed the queued entries of its shard.                 *)
LEMMA RecoveryGoroutine ==
  ASSUME IInv, TypeOK', NEW c \in Shards, TxApply(c) \/ IndexBatch(c) \/ TxCommit(c)
  PROVE  IInv'
<1>1. /\ phase = "apply"
      /\ UNCHANGED <<log, applied, up, phase, batch, existing, batchEnd, result, pending, lastIndex, metaIndex>>
  BY DEF TxApply, NextInTx, IndexBatch, TxCommit, hostVars, updateVars, diskVars
<1>2. /\ flushed \subseteq flushed'
      /\ \A d \in Shards \ {c} : tx'[d] = tx[d]
      /\ tx'[c].state \in {"run", "indexed"} \/ OfShard(PendingSet, c) \subseteq flushed'
  <2>1. CASE TxApply(c)
    BY <2>1 DEF TxApply, IInv, TypeOK, diskVars
  <2>2. CASE IndexBatch(c)
    BY <2>2 DEF IndexBatch, IInv, TypeOK, Txs
  <2>3. CASE TxCommit(c)
    BY <2>3 DEF TxCommit, IInv, TypeOK
  <2> QED BY <2>1, <2>2, <2>3
<1>3. Covered' = Covered /\ PendingSet' = PendingSet /\ AtHand' = AtHand
  BY <1>1 DEF Covered, PendingSet, AtHand
<1>4. Memory' /\ Indices' /\ EntriesAtHand' /\ QueueCovered' /\ QueueOrdered'
  BY <1>1, <1>3 DEF IInv, Memory, Indices, EntriesAtHand, QueueCovered, QueueOrdered
<1>5. Accounted' /\ NoReplayGap'
  BY <1>1, <1>2, <1>3 DEF IInv, Accounted, NoReplayGap
<1>6. Goroutines'
  <2>1. \A d \in Shards : OfShard(PendingSet, d)' = OfShard(PendingSet, d)
    BY <1>1, <1>3 DEF OfShard
  <2> QED BY <1>1, <1>2, <2>1 DEF IInv, Goroutines
<1> QED BY <1>4, <1>5, <1>6 DEF IInv

(* Once every goroutine has ended the whole queue is on disk. *)
LEMMA RecoveryClear ==
  ASSUME IInv, TypeOK', ClearPendingQueue
  PROVE  IInv'
<1>1. /\ phase = "apply" /\ phase' = "meta" /\ pending' = <<>> /\ Len(pending') = 0
      /\ \A c \in Shards : tx[c].state \in {"none", "done"}
      /\ UNCHANGED <<log, applied, up, batch, existing, batchEnd, result, lastIndex, metaIndex, flushed>>
  BY DEF ClearPendingQueue, Wait, hostVars, updateVars, diskVars
<1>2. PendingSet \subseteq flushed
  <2>1. \A c \in Shards : OfShard(PendingSet, c) \subseteq flushed
    BY <1>1 DEF IInv, Goroutines
  <2>2. \A i \in PendingSet : ShardOf(log[i]) \in Shards
    BY DEF IInv, QueueCovered, PendingSet
  <2> QED BY <2>1, <2>2 DEF OfShard
<1>3. Covered = applied /\ Covered' = applied /\ AtHand' = AtHand /\ AtHand = {}
  BY <1>1 DEF IInv, Memory, Covered, AtHand
<1>4. Memory' /\ Indices' /\ Goroutines'
  BY <1>1 DEF IInv, Memory, Indices, Goroutines
<1>5. EntriesAtHand' /\ QueueCovered' /\ QueueOrdered'
  BY <1>1, <1>3 DEF EntriesAtHand, AtHand, QueueCovered, QueueOrdered
<1>6. Accounted' /\ NoReplayGap'
  BY <1>1, <1>2, <1>3 DEF IInv, Accounted, NoReplayGap
<1> QED BY <1>4, <1>5, <1>6 DEF IInv

(* So the index can be recorded. *)
LEMMA RecoveryMeta ==
  ASSUME IInv, TypeOK', UpdateLastUpdateIndex
  PROVE  IInv'
<1>1. /\ phase = "meta" /\ phase' = "idle" /\ metaIndex' = lastIndex
      /\ pending = <<>> /\ Len(pending) = 0
      /\ UNCHANGED <<log, applied, up, batch, existing, batchEnd, result, pending, lastIndex, tx, flushed>>
  BY DEF IInv, Goroutines, UpdateLastUpdateIndex, hostVars, updateVars
<1>2. up
  BY <1>1 DEF IInv, Memory
<1>3. Covered = applied /\ Covered' = applied /\ AtHand' = AtHand /\ AtHand = {} /\ PendingSet = {} /\ PendingSet' = {}
  BY <1>1 DEF IInv, Memory, Covered, AtHand, PendingSet
<1>4. lastIndex \in Nat /\ applied \in Nat /\ lastIndex <= applied
  BY <1>2 DEF IInv, TypeOK, Indices
<1>5. Memory' /\ Indices' /\ Goroutines'
  BY <1>1, <1>2, <1>4 DEF IInv, Memory, Indices, Goroutines
<1>6. EntriesAtHand' /\ QueueCovered' /\ QueueOrdered'
  BY <1>1, <1>3 DEF EntriesAtHand, AtHand, QueueCovered, QueueOrdered
<1>7. Accounted' /\ NoReplayGap'
  BY <1>1, <1>2, <1>3, <1>4 DEF IInv, Accounted, NoReplayGap
<1> QED BY <1>5, <1>6, <1>7 DEF IInv

-----------------------------------------------------------------------------
LEMMA RecoveryStep == IInv /\ [Next]_vars => IInv'
<1> SUFFICES ASSUME IInv, [Next]_vars PROVE IInv'
  OBVIOUS
<1>1. TypeOK'
  BY TypeStep DEF IInv
<1>2. ASSUME NEW cmd \in Commands, Propose(cmd) PROVE IInv'
  BY <1>1, <1>2, RecoveryPropose
<1>3. ASSUME UpdateStep PROVE IInv'
  BY <1>1, <1>3, RecoveryUpdateStart, RecoveryUpdateShard, RecoveryDecideEntry, RecoveryUpdateReturn
     DEF UpdateStep
<1>4. ASSUME SyncStart PROVE IInv'
  BY <1>1, <1>4, RecoverySyncStart
<1>5. ASSUME SyncStep PROVE IInv'
  <2>1. ASSUME NEW c \in Shards, TxApply(c) \/ IndexBatch(c) \/ TxCommit(c) PROVE IInv'
    BY <1>1, <2>1, RecoveryGoroutine
  <2>2. ASSUME NEW c \in Shards, SyncPanic(c) PROVE IInv'
    BY <1>1, <2>2, RecoveryStop DEF SyncPanic
  <2> QED BY <1>1, <1>5, <2>1, <2>2, RecoveryClear, RecoveryMeta DEF SyncStep
<1>6. ASSUME Open PROVE IInv'
  BY <1>1, <1>6, RecoveryOpen
<1>7. ASSUME Crash \/ Close PROVE IInv'
  BY <1>1, <1>7, RecoveryStop DEF Crash, Close
<1>8. CASE UNCHANGED vars
  <2>1. UNCHANGED <<log, applied, up, phase, batch, existing, batchEnd, result, pending,
                    lastIndex, metaIndex, tx, flushed>>
    BY <1>8 DEF vars
  <2> QED BY <1>1, <2>1 DEF IInv, Memory, Indices, EntriesAtHand, AtHand, QueueCovered, QueueOrdered,
                             Accounted, Goroutines, NoReplayGap, Covered, PendingSet, OfShard
<1> QED BY <1>2, <1>3, <1>4, <1>5, <1>6, <1>7, <1>8 DEF Next

LEMMA RecoveryInvariant == Spec => []IInv
  BY RecoveryInit, RecoveryStep, PTL DEF Spec

(* Recovery never skips an accepted write: what the recorded index covers    *)
(* and Update accepted is committed to its shard.                            *)
THEOREM NoReplayGapCorrect == Spec => []NoReplayGap
<1>1. IInv => NoReplayGap
  BY DEF IInv
<1> QED BY <1>1, RecoveryInvariant, PTL

(* An accepted entry is queued once, in log order within its shard, and      *)
(* never when the recorded index already covers it.                          *)
THEOREM PendingOrderedCorrect == Spec => []PendingOrdered
<1>1. IInv => PendingOrdered
  BY DEF IInv, PendingOrdered, QueueCovered, QueueOrdered, Queued
<1> QED BY <1>1, RecoveryInvariant, PTL
=============================================================================
