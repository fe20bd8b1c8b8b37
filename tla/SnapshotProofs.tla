--------------------------- MODULE SnapshotProofs ---------------------------
(***************************************************************************)
(* A snapshot stays what PrepareSnapshot wrote, a follower that unpacks it *)
(* is never ahead of its own blocks, and one with an empty queue ends with *)
(* the documents of the sender: for every alphabet, log, batching, number  *)
(* of stops and interleaving of the two replicas.                          *)
(***************************************************************************)
EXTENDS Snapshot, ByStateMachineProofs

(* PrepareSnapshot rereads an index that s.lastIndex already has, so nothing *)
(* that this module adds changes the state machine of the sender.            *)
LEMMA SenderAlone ==
  ASSUME IInv, [SnapNext]_snapVars
  PROVE  [Next]_vars
<1>1. ASSUME PrepareSnapshot PROVE UNCHANGED vars
  BY <1>1 DEF PrepareSnapshot, GetLastUpdateIndex, IInv, Indices, TypeOK,
              vars, hostVars, updateVars, diskVars
<1> QED BY <1>1 DEF SnapNext, snapVars, SenderStep, PreparePeriodic, PrepareStream, SaveSnapshot,
                    CatchUp, FollowerSync, Reopen, RecoverStart, UntarBlock, UntarMeta, RecoverReturn

LEMMA SnapKeepsIInv ==
  ASSUME IInv, [SnapNext]_snapVars
  PROVE  IInv'
  BY SenderAlone, RecoveryStep

-----------------------------------------------------------------------------
(* A Sync with something to write will record a higher index than the disk   *)
(* has, and the disk holds nothing but entries that have a shard.            *)
SyncMovesOn ==
  phase = "apply" => \A c \in Shards : tx[c].state # "none" => metaIndex < lastIndex

FlushedHaveShards == \A i \in flushed : ShardOf(log[i]) \in Shards

(* Until Sync records a new index, the data directory is the one that was    *)
(* archived; after that no archive gets the same name.                       *)
Prepared ==
  request # NoSnap =>
    /\ request.key \in 0..MaxLog /\ request.key <= metaIndex
    /\ files[request.key] = request.archive
    /\ request.key = metaIndex /\ (phase \in {"idle", "update"} \/ lastIndex = metaIndex)
         => request.archive = DataPath

PInv == SyncMovesOn /\ FlushedHaveShards /\ DOMAIN files = 0..MaxLog /\ Prepared

LEMMA HighestOfQueue ==
  ASSUME IInv, up, phase = "idle", pending # <<>>
  PROVE  metaIndex < FindHighestIndexInPending
<1>1. Len(pending) \in Nat /\ pending \in Seq(1..Len(log))
  BY DEF IInv, TypeOK
<1>2. 1 \in 1..Len(pending)
  BY <1>1
<1>3. pending[1] \in PendingSet /\ metaIndex < pending[1]
  BY <1>2 DEF PendingSet, IInv, QueueCovered
<1>4. pending[1] <= FindHighestIndexInPending /\ FindHighestIndexInPending \in Nat
  BY <1>3, HighestIndexProperties DEF IInv
<1>5. metaIndex \in Nat /\ pending[1] \in Nat
  BY <1>1, <1>2 DEF IInv, TypeOK
<1> QED BY <1>3, <1>4, <1>5

LEMMA SyncMovesOnStep ==
  ASSUME IInv, SyncMovesOn, [Next]_vars
  PROVE  SyncMovesOn'
<1>0. tx \in [Shards -> Txs]
  BY DEF IInv, TypeOK
<1>1. ASSUME phase' # "apply" PROVE SyncMovesOn'
  BY <1>1 DEF SyncMovesOn
<1>2. ASSUME UNCHANGED <<phase, tx, metaIndex, lastIndex>> PROVE SyncMovesOn'
  BY <1>2 DEF SyncMovesOn
<1>3. ASSUME SyncStart PROVE SyncMovesOn'
  <2> SUFFICES ASSUME NEW c \in Shards, tx'[c].state # "none" PROVE metaIndex' < lastIndex'
    BY DEF SyncMovesOn
  <2>1. GetPendingUpdatesForShard(c) # {}
    BY <1>3 DEF SyncStart, NoTx
  <2>2. pending # <<>>
    BY <2>1 DEF GetPendingUpdatesForShard
  <2>3. metaIndex < FindHighestIndexInPending
    BY <1>3, <2>2, HighestOfQueue DEF SyncStart
  <2> QED BY <1>3, <2>3 DEF SyncStart, diskVars
<1>4. ASSUME NEW c \in Shards, TxApply(c) \/ IndexBatch(c) \/ TxCommit(c) PROVE SyncMovesOn'
  <2>1. /\ phase = "apply" /\ tx[c].state # "none"
        /\ UNCHANGED <<metaIndex, lastIndex>>
    BY <1>4 DEF TxApply, NextInTx, IndexBatch, TxCommit, diskVars
  <2>2. metaIndex < lastIndex
    BY <2>1 DEF SyncMovesOn
  <2> QED BY <2>1, <2>2 DEF SyncMovesOn
<1>5. ASSUME Stop PROVE SyncMovesOn'
  BY <1>1, <1>5 DEF Stop
<1>6. ASSUME UpdateStep PROVE SyncMovesOn'
  <2>1. phase' # "apply"
    BY <1>6 DEF UpdateStep, UpdateStart, UpdateShard, DecideEntry, UpdateReturn
  <2> QED BY <1>1, <2>1
<1>7. ASSUME Open PROVE SyncMovesOn'
  <2>1. phase' # "apply"
    BY <1>7 DEF Open, IInv, Memory
  <2> QED BY <1>1, <2>1
<1>8. ASSUME ClearPendingQueue \/ UpdateLastUpdateIndex PROVE SyncMovesOn'
  BY <1>1, <1>8 DEF ClearPendingQueue, UpdateLastUpdateIndex
<1>9. ASSUME NEW cmd \in Commands, Propose(cmd) PROVE SyncMovesOn'
  BY <1>2, <1>9 DEF Propose, diskVars
<1>10. ASSUME UNCHANGED vars PROVE SyncMovesOn'
  BY <1>2, <1>10 DEF vars
<1> QED BY <1>3, <1>4, <1>5, <1>6, <1>7, <1>8, <1>9, <1>10
        DEF Next, SyncStep, SyncPanic, Crash, Close

LEMMA FlushedHaveShardsStep ==
  ASSUME IInv, FlushedHaveShards, [Next]_vars
  PROVE  FlushedHaveShards'
<1>0. flushed \subseteq 1..Len(log) /\ log \in Seq(Commands)
  BY DEF IInv, TypeOK
<1>1. ASSUME UNCHANGED <<log, flushed>> PROVE FlushedHaveShards'
  BY <1>1 DEF FlushedHaveShards, ShardOf
<1>2. ASSUME NEW cmd \in Commands, Propose(cmd) PROVE FlushedHaveShards'
  <2>1. flushed' = flushed /\ log' = Append(log, cmd)
    BY <1>2 DEF Propose, diskVars
  <2>2. \A i \in 1..Len(log) : log'[i] = log[i]
    BY <1>0, <2>1
  <2> QED BY <1>0, <2>1, <2>2 DEF FlushedHaveShards, ShardOf
<1>3. ASSUME NEW c \in Shards, TxCommit(c) PROVE FlushedHaveShards'
  BY <1>3 DEF TxCommit, FlushedHaveShards, OfShard, ShardOf, hostVars
<1>4. ASSUME [Next]_vars, \A cmd \in Commands : ~Propose(cmd), \A c \in Shards : ~TxCommit(c)
      PROVE  UNCHANGED <<log, flushed>>
  BY <1>4 DEF Next, vars, UpdateStep, UpdateStart, UpdateShard, DecideEntry, UpdateReturn, SyncStart,
              SyncStep, TxApply, IndexBatch, SyncPanic, ClearPendingQueue, UpdateLastUpdateIndex,
              Open, Crash, Close, Stop, hostVars, diskVars
<1> QED BY <1>1, <1>2, <1>3, <1>4

(* The data directory changes between two Syncs only on the way to a higher  *)
(* index.                                                                    *)
Settled == phase \in {"idle", "update"} \/ lastIndex = metaIndex

LEMMA DirectoryKept ==
  ASSUME IInv, SyncMovesOn, [Next]_vars, up'
  PROVE  \/ metaIndex < metaIndex'
         \/ metaIndex' = metaIndex /\ (Settled' => Settled /\ DataPath' = DataPath)
<1> DEFINE G == \/ metaIndex < metaIndex'
                \/ metaIndex' = metaIndex /\ (Settled' => Settled /\ DataPath' = DataPath)
<1>0. metaIndex \in Nat /\ lastIndex \in Nat
  BY DEF IInv, TypeOK
<1>1. ASSUME UNCHANGED <<metaIndex, block, flushed>>, Settled PROVE G
  BY <1>1 DEF DataPath
<1>2. ASSUME UNCHANGED <<metaIndex, block, flushed, lastIndex, phase>> PROVE G
  BY <1>2 DEF DataPath, Settled
<1>3. ASSUME UpdateStep \/ SyncStart \/ Open PROVE G
  <2>1. UNCHANGED <<metaIndex, block, flushed>>
    BY <1>3 DEF UpdateStep, UpdateStart, UpdateShard, DecideEntry, UpdateReturn, SyncStart, Open, diskVars
  <2>2. phase \in {"idle", "update"}
    BY <1>3 DEF UpdateStep, UpdateStart, UpdateShard, DecideEntry, UpdateReturn, SyncStart, Open, IInv, Memory
  <2> QED BY <1>1, <2>1, <2>2 DEF Settled
<1>4. ASSUME NEW c \in Shards, TxApply(c) \/ IndexBatch(c) PROVE G
  BY <1>2, <1>4 DEF TxApply, IndexBatch, diskVars
<1>5. ASSUME NEW c \in Shards, TxCommit(c) PROVE G
  <2>1. metaIndex < lastIndex
    BY <1>5 DEF TxCommit, SyncMovesOn
  <2> QED BY <1>0, <1>5, <2>1 DEF TxCommit, Settled
<1>6. ASSUME ClearPendingQueue PROVE G
  BY <1>6 DEF ClearPendingQueue, diskVars, Settled, DataPath
<1>7. ASSUME UpdateLastUpdateIndex PROVE G
  <2>1. up /\ metaIndex <= lastIndex
    BY <1>7 DEF UpdateLastUpdateIndex, IInv, Memory, Indices
  <2>2. metaIndex' = lastIndex /\ UNCHANGED <<block, flushed>>
    BY <1>7 DEF UpdateLastUpdateIndex
  <2> QED BY <1>0, <1>1, <2>1, <2>2 DEF Settled
<1>8. ASSUME NEW cmd \in Commands, Propose(cmd) PROVE G
  BY <1>2, <1>8 DEF Propose, diskVars
<1>9. ASSUME UNCHANGED vars PROVE G
  BY <1>2, <1>9 DEF vars
<1>10. ~Stop
  BY DEF Stop
<1> HIDE DEF G
<1>11. G
  BY <1>3, <1>4, <1>5, <1>6, <1>7, <1>8, <1>9, <1>10 DEF Next, SyncStep, SyncPanic, Crash, Close
<1> QED BY <1>11 DEF G

LEMMA PreparedStep ==
  ASSUME IInv, IInv', PInv, [SnapNext]_snapVars
  PROVE  DOMAIN files' = 0..MaxLog /\ Prepared'
<1>0. metaIndex \in 0..MaxLog /\ metaIndex' \in 0..MaxLog /\ lastIndex \in Nat /\ MaxLog \in Nat
  BY BoundsAssumption DEF IInv, TypeOK
<1>1. ASSUME SenderStep PROVE DOMAIN files' = 0..MaxLog /\ Prepared'
  <2>1. files' = files /\ Next
    BY <1>1 DEF SenderStep
  <2>2. CASE ~up'
    BY <1>1, <2>1, <2>2 DEF SenderStep, Prepared, PInv
  <2>3. CASE up'
    <3>1. request' = request
      BY <1>1, <2>3 DEF SenderStep
    <3>2. \/ metaIndex < metaIndex'
          \/ metaIndex' = metaIndex /\ (Settled' => Settled /\ DataPath' = DataPath)
      BY <2>1, <2>3, DirectoryKept DEF PInv
    <3> QED BY <1>0, <2>1, <3>1, <3>2 DEF PInv, Prepared, Settled
  <2> QED BY <2>2, <2>3
<1>2. ASSUME PrepareSnapshot, request' = request PROVE DOMAIN files' = 0..MaxLog /\ Prepared'
  <2>1. up /\ phase = "idle" /\ lastIndex' = metaIndex /\ files' = [files EXCEPT ![metaIndex] = DataPath]
    BY <1>2 DEF PrepareSnapshot, FileName, GetLastUpdateIndex
  <2>2. phase' = phase /\ metaIndex' = metaIndex /\ DataPath' = DataPath
    BY <1>2 DEF PrepareSnapshot, diskVars, DataPath
  <2> QED BY <1>0, <1>2, <2>1, <2>2 DEF PInv, Prepared
<1>3. ASSUME PrepareStream PROVE DOMAIN files' = 0..MaxLog /\ Prepared'
  <2>1. files' = [files EXCEPT ![metaIndex] = DataPath]
    BY <1>3 DEF PrepareStream, PrepareSnapshot, FileName, GetLastUpdateIndex
  <2>2. phase' = phase /\ metaIndex' = metaIndex /\ DataPath' = DataPath
    BY <1>3 DEF PrepareStream, PrepareSnapshot, diskVars, DataPath
  <2>3. request'.key = metaIndex /\ request'.archive = DataPath
    BY <1>3 DEF PrepareStream, FileName, GetLastUpdateIndex
  <2> QED BY <1>0, <2>1, <2>2, <2>3 DEF PInv, Prepared
<1>4. ASSUME SaveSnapshot PROVE DOMAIN files' = 0..MaxLog /\ Prepared'
  BY <1>4 DEF SaveSnapshot, PInv, Prepared
<1>5. ASSUME UNCHANGED <<vars, files, request>> PROVE DOMAIN files' = 0..MaxLog /\ Prepared'
  BY <1>5 DEF vars, PInv, Prepared, DataPath
<1>6. ASSUME CatchUp \/ FollowerSync \/ Reopen \/ RecoverStart \/ (\E c \in Shards : UntarBlock(c))
                \/ UntarMeta \/ RecoverReturn \/ UNCHANGED snapVars
      PROVE  UNCHANGED <<vars, files, request>>
  BY <1>6 DEF CatchUp, FollowerSync, Reopen, RecoverStart, UntarBlock, UntarMeta, RecoverReturn, snapVars
<1> QED BY <1>1, <1>2, <1>3, <1>4, <1>5, <1>6 DEF SnapNext, PreparePeriodic

LEMMA PreparedInvariant == SnapSpec => [](IInv /\ PInv)
<1>1. SnapInit => IInv /\ PInv
  <2> SUFFICES ASSUME SnapInit PROVE IInv /\ PInv
    OBVIOUS
  <2>1. IInv
    BY RecoveryInit DEF SnapInit
  <2>2. phase = "idle" /\ flushed = {}
    BY DEF SnapInit, Init
  <2>3. DOMAIN files = 0..MaxLog /\ request = NoSnap
    BY DEF SnapInit
  <2> QED BY <2>1, <2>2, <2>3 DEF PInv, SyncMovesOn, FlushedHaveShards, Prepared
<1>2. (IInv /\ PInv) /\ [SnapNext]_snapVars => (IInv /\ PInv)'
  <2> SUFFICES ASSUME IInv, PInv, [SnapNext]_snapVars PROVE IInv' /\ PInv'
    OBVIOUS
  <2>1. IInv' /\ [Next]_vars
    BY SnapKeepsIInv, SenderAlone
  <2>2. SyncMovesOn' /\ FlushedHaveShards'
    BY <2>1, SyncMovesOnStep, FlushedHaveShardsStep DEF PInv
  <2>3. DOMAIN files' = 0..MaxLog /\ Prepared'
    BY <2>1, PreparedStep
  <2> QED BY <2>1, <2>2, <2>3 DEF PInv
<1> QED BY <1>1, <1>2, PTL DEF SnapSpec

(* While a snapshot waits for SaveSnapshot, its file keeps what              *)
(* PrepareSnapshot wrote, whatever Syncs and further snapshots come first.   *)
THEOREM StreamIsAsPreparedCorrect == SnapSpec => []StreamIsAsPrepared
<1>1. PInv => StreamIsAsPrepared
  BY DEF PInv, Prepared, StreamIsAsPrepared
<1> QED BY <1>1, PreparedInvariant, PTL

-----------------------------------------------------------------------------
(* The store that the blocks b hold by themselves. *)
Holds(b, p) == FirstRune[p] \in Shards /\ p \in b[FirstRune[p]].buckets

StoreOf(b) ==
  [p \in Parts |->
     [exists |-> Holds(b, p),
      docs   |-> [id \in Ids |-> IF Holds(b, p) THEN b[FirstRune[p]].docs[p][id] ELSE NoDoc]]]

(* Entries of the log that have a shard. *)
Sharded(S) == \A i \in S : i \in 1..Len(log) /\ ShardOf(log[i]) \in Shards

(* A snapshot s speaks of such entries, and one of an empty queue holds in   *)
(* its blocks all that the sender had accepted, and the store its clients    *)
(* saw.                                                                      *)
Snapped(s) ==
  /\ s = [key |-> s.key, label |-> s.label, archive |-> s.archive, live |-> s.live,
          synced |-> s.synced, accepted |-> s.accepted]
  /\ Sharded(s.accepted) /\ Sharded(s.archive.flushed)
  /\ s.synced => s.accepted \subseteq s.archive.flushed /\ s.live = StoreOf(s.archive.block)

Shaped ==
  /\ follower = [applied |-> follower.applied, pending |-> follower.pending,
                 lastIndex |-> follower.lastIndex, data |-> follower.data,
                 accepted |-> follower.accepted, exact |-> follower.exact]
  /\ follower.data = [block |-> follower.data.block, meta |-> follower.data.meta,
                      flushed |-> follower.data.flushed]
  /\ DOMAIN follower.data.block = Shards
  /\ untar = [running |-> untar.running, blocks |-> untar.blocks, meta |-> untar.meta]

FollowerQueue == {follower.pending[k] : k \in 1..Len(follower.pending)}

(* What the follower has accepted is in its queue or in its blocks, and in   *)
(* its blocks if its recorded index covers it.                               *)
FollowerAccounted ==
  /\ Sharded(follower.accepted)
  /\ follower.exact => follower.accepted \subseteq follower.data.flushed \cup FollowerQueue
  /\ RestoreNeverAhead

(* The blocks that Untar has written are the snapshot's, and the follower is *)
(* exact only if they hold what it has accepted.                             *)
Unpacking ==
  untar.running =>
    /\ stream # NoSnap
    /\ \A c \in Shards \ untar.blocks :
         /\ follower.data.block[c] = stream.archive.block[c]
         /\ OfShard(stream.archive.flushed, c) \subseteq follower.data.flushed
         /\ follower.exact => stream.synced /\ OfShard(follower.accepted, c) \subseteq stream.archive.flushed

Snaps == (request # NoSnap => Snapped(request)) /\ (stream # NoSnap => Snapped(stream))

FInv == Snaps /\ Shaped /\ FollowerAccounted /\ Unpacking

LEMMA EmptyQueueStore ==
  ASSUME pending = <<>>
  PROVE  Store(LivePart, LiveDoc) = StoreOf(block)
<1>1. 1..Len(pending) = {}
  OBVIOUS
<1>2. Newest({}) = 0
  BY DEF Newest
<1>3. \A p : LivePart(p) = DiskPart(p)
  BY <1>1, <1>2 DEF LivePart
<1>4. \A p, id : LiveDoc(p, id) = DiskDoc(p, id)
  BY <1>1, <1>2 DEF LiveDoc
<1>5. \A p : DiskPart(p) = Holds(block, p)
  BY DEF DiskPart, Holds
<1>6. \A p, id : DiskDoc(p, id) = IF Holds(block, p) THEN block[FirstRune[p]].docs[p][id] ELSE NoDoc
  BY DEF DiskDoc, DiskPart, Holds
<1>7. \A p : LivePart(p) = Holds(block, p)
  BY <1>3, <1>5
<1>8. \A p, id : LiveDoc(p, id) = IF Holds(block, p) THEN block[FirstRune[p]].docs[p][id] ELSE NoDoc
  BY <1>4, <1>6
<1> QED BY <1>7, <1>8 DEF Store, StoreOf

LEMMA EmptyFollowerStore ==
  ASSUME follower.pending = <<>>
  PROVE  F!Store(F!LivePart, F!LiveDoc) = StoreOf(follower.data.block)
<1> DEFINE b == follower.data.block
<1>1. 1..Len(follower.pending) = {}
  OBVIOUS
<1>2. F!Newest({}) = 0
  BY DEF F!Newest
<1>3. \A p : F!LivePart(p) = F!DiskPart(p)
  BY <1>1, <1>2 DEF F!LivePart
<1>4. \A p, id : F!LiveDoc(p, id) = F!DiskDoc(p, id)
  BY <1>1, <1>2 DEF F!LiveDoc
<1>5. \A p : F!DiskPart(p) = Holds(b, p)
  BY DEF F!DiskPart, Holds
<1>6. \A p, id : F!DiskDoc(p, id) = IF Holds(b, p) THEN b[FirstRune[p]].docs[p][id] ELSE NoDoc
  BY DEF F!DiskDoc, F!DiskPart, Holds
<1>7. \A p : F!LivePart(p) = Holds(b, p)
  BY <1>3, <1>5
<1>8. \A p, id : F!LiveDoc(p, id) = IF Holds(b, p) THEN b[FirstRune[p]].docs[p][id] ELSE NoDoc
  BY <1>4, <1>6
<1> QED BY <1>7, <1>8 DEF F!Store, StoreOf

(* The log only grows. *)
LEMMA LogGrows ==
  ASSUME IInv, [Next]_vars
  PROVE  \A i \in 1..Len(log) : i \in 1..Len(log') /\ log'[i] = log[i]
<1>0. log \in Seq(Commands)
  BY DEF IInv, TypeOK
<1>1. CASE log' = log
  BY <1>1
<1>2. ASSUME NEW cmd \in Commands, Propose(cmd)
      PROVE  \A i \in 1..Len(log) : i \in 1..Len(log') /\ log'[i] = log[i]
  BY <1>0, <1>2 DEF Propose
<1>3. ASSUME \A cmd \in Commands : ~Propose(cmd) PROVE log' = log
  BY <1>3 DEF Next, vars, UpdateStep, UpdateStart, UpdateShard, DecideEntry, UpdateReturn, SyncStart,
              SyncStep, TxApply, IndexBatch, TxCommit, SyncPanic, ClearPendingQueue, UpdateLastUpdateIndex,
              Open, Crash, Close, Stop, hostVars
<1> QED BY <1>1, <1>2, <1>3

LEMMA ShardedGrows ==
  ASSUME IInv, [Next]_vars, NEW S, Sharded(S)
  PROVE  /\ Sharded(S)'
         /\ \A c : OfShard(S, c)' = OfShard(S, c)
<1>1. \A i \in S : i \in 1..Len(log') /\ log'[i] = log[i] /\ ShardOf(log[i]) \in Shards
  BY LogGrows DEF Sharded
<1> QED BY <1>1 DEF Sharded, OfShard, ShardOf

LEMMA SnappedGrows ==
  ASSUME IInv, [Next]_vars, NEW s, Snapped(s)
  PROVE  Snapped(s)'
<1> DEFINE A == s.accepted
           H == s.archive.flushed
<1>1. Sharded(A) /\ Sharded(H)
  BY DEF Snapped
<1>2. Sharded(A)' /\ Sharded(H)'
  <2> HIDE DEF A, H
  <2> QED BY <1>1, ShardedGrows
<1> QED BY <1>2 DEF Snapped

(* An idle sender's accepted entries have shards, and are on disk once its   *)
(* queue is empty.                                                           *)
LEMMA AcceptedSharded ==
  ASSUME IInv, PInv, up, phase = "idle"
  PROVE  /\ Sharded(Accepted(applied)) /\ Sharded(flushed)
         /\ Accepted(applied) \subseteq PendingSet \cup flushed
         /\ pending = <<>> => Accepted(applied) \subseteq flushed
<1>1. Accepted(applied) \subseteq 1..Len(log)
  BY DEF Accepted, IInv, TypeOK
<1>2. Accepted(applied) \subseteq PendingSet \cup flushed
  <2> SUFFICES ASSUME NEW i \in Accepted(applied) PROVE i \in PendingSet \cup flushed
    OBVIOUS
  <2>1. i \in 1..Len(log) /\ i <= applied /\ result[i] = 200 /\ Covered = applied
    BY <1>1 DEF Accepted, IInv, TypeOK, Covered
  <2> QED BY <2>1 DEF IInv, Accounted
<1>3. Sharded(flushed)
  BY DEF Sharded, PInv, FlushedHaveShards, IInv, TypeOK
<1>4. \A i \in PendingSet : ShardOf(log[i]) \in Shards
  BY DEF PendingSet, IInv, QueueCovered
<1>5. Sharded(Accepted(applied))
  BY <1>1, <1>2, <1>3, <1>4 DEF Sharded
<1>6. pending = <<>> => PendingSet = {}
  BY DEF PendingSet
<1> QED BY <1>2, <1>3, <1>5, <1>6

LEMMA SnapsStep ==
  ASSUME IInv, PInv, Snaps, [SnapNext]_snapVars
  PROVE  Snaps'
<1>0. [Next]_vars
  BY SenderAlone
<1>1. request' = request /\ request # NoSnap => Snapped(request)'
  <2> SUFFICES ASSUME request' = request, request # NoSnap PROVE Snapped(request)'
    OBVIOUS
  <2>1. PICK s : s = request
    OBVIOUS
  <2>2. Snapped(s)
    BY <2>1 DEF Snaps
  <2>3. Snapped(s)'
    BY <1>0, <2>2, SnappedGrows
  <2> QED BY <2>1, <2>3 DEF Snapped
<1>2. stream' = stream /\ stream # NoSnap => Snapped(stream)'
  <2> SUFFICES ASSUME stream' = stream, stream # NoSnap PROVE Snapped(stream)'
    OBVIOUS
  <2>1. PICK s : s = stream
    OBVIOUS
  <2>2. Snapped(s)
    BY <2>1 DEF Snaps
  <2>3. Snapped(s)'
    BY <1>0, <2>2, SnappedGrows
  <2> QED BY <2>1, <2>3 DEF Snapped
<1>3. ASSUME PrepareStream PROVE Snapped(request)'
  <2>1. up /\ phase = "idle" /\ UNCHANGED <<log, block, flushed>>
    BY <1>3 DEF PrepareStream, PrepareSnapshot, hostVars, diskVars
  <2>2. request' = [key |-> FileName, label |-> applied, archive |-> DataPath,
                    live |-> Store(LivePart, LiveDoc), synced |-> pending = <<>>,
                    accepted |-> Accepted(applied)]
    BY <1>3 DEF PrepareStream
  <2>3. DataPath.flushed = flushed /\ DataPath.block = block
    BY DEF DataPath
  <2>4. PICK A, H, b, L : A = Accepted(applied) /\ H = flushed /\ b = block /\ L = Store(LivePart, LiveDoc)
    OBVIOUS
  <2>5. request'.accepted = A /\ request'.archive.flushed = H /\ request'.archive.block = b /\ request'.live = L
    BY <2>2, <2>3, <2>4
  <2>6. request'.synced => pending = <<>>
    BY <2>2
  <2>7. Sharded(A) /\ Sharded(H) /\ (pending = <<>> => A \subseteq H)
    BY <2>1, <2>4, AcceptedSharded
  <2>8. Sharded(A)' /\ Sharded(H)'
    BY <1>0, <2>7, ShardedGrows
  <2>9. pending = <<>> => L = StoreOf(b)
    BY <2>4, EmptyQueueStore
  <2>10. request' = [key |-> request'.key, label |-> request'.label, archive |-> request'.archive,
                     live |-> request'.live, synced |-> request'.synced, accepted |-> request'.accepted]
    <3> HIDE <2>4, <2>5
    <3> QED BY <2>2
  <2>11. Sharded(request.accepted)' /\ Sharded(request.archive.flushed)'
    BY <2>5, <2>8 DEF Sharded
  <2>12. request'.synced =>
           request'.accepted \subseteq request'.archive.flushed /\ request'.live = StoreOf(request'.archive.block)
    BY <2>5, <2>6, <2>7, <2>9
  <2> QED BY <2>10, <2>11, <2>12 DEF Snapped, StoreOf, Holds
<1>4. ASSUME SaveSnapshot PROVE Snapped(stream)'
  <2>1. request # NoSnap /\ Snapped(request) /\ files[request.key] = request.archive
    BY <1>4 DEF SaveSnapshot, Snaps, PInv, Prepared
  <2>2. stream' = [request EXCEPT !.archive = request.archive]
    BY <1>4, <2>1 DEF SaveSnapshot
  <2>3. stream' = request
    BY <2>1, <2>2 DEF Snapped
  <2>4. PICK s : s = request
    OBVIOUS
  <2>5. Snapped(s)'
    BY <1>0, <2>1, <2>4, SnappedGrows
  <2> QED BY <2>3, <2>4, <2>5 DEF Snapped
<1>5. ASSUME SaveSnapshot PROVE Snaps'
  BY <1>4, <1>5 DEF SaveSnapshot, Snaps
<1>6. ASSUME PrepareStream PROVE Snaps'
  BY <1>2, <1>3, <1>6 DEF PrepareStream, PrepareSnapshot, Snaps
<1>7. ASSUME request' \in {request, NoSnap}, stream' = stream PROVE Snaps'
  BY <1>1, <1>2, <1>7 DEF Snaps
<1>8. ASSUME SenderStep \/ PreparePeriodic \/ CatchUp \/ FollowerSync \/ Reopen \/ RecoverStart
               \/ (\E c \in Shards : UntarBlock(c)) \/ UntarMeta \/ RecoverReturn \/ UNCHANGED snapVars
      PROVE  request' \in {request, NoSnap} /\ stream' = stream
  BY <1>8 DEF SenderStep, PreparePeriodic, PrepareSnapshot, CatchUp, FollowerSync, Reopen, RecoverStart,
              UntarBlock, UntarMeta, RecoverReturn, snapVars
<1> QED BY <1>5, <1>6, <1>7, <1>8 DEF SnapNext

(* The follower keeps still while the sender works. *)
LEMMA FollowerStill ==
  ASSUME IInv, FInv, [Next]_vars, UNCHANGED <<follower, untar>>, untar.running => stream' = stream
  PROVE  Shaped' /\ FollowerAccounted' /\ Unpacking'
<1> DEFINE A == follower.accepted
           H == stream.archive.flushed
<1>1. Sharded(A)' /\ \A c : OfShard(A, c)' = OfShard(A, c)
  <2>1. PICK S : S = A
    OBVIOUS
  <2>2. Sharded(S)
    BY <2>1 DEF FInv, FollowerAccounted, Sharded
  <2>3. Sharded(S)' /\ \A c : OfShard(S, c)' = OfShard(S, c)
    BY <2>2, ShardedGrows
  <2> QED BY <2>1, <2>3 DEF Sharded, OfShard
<1>2. untar.running => \A c : OfShard(H, c)' = OfShard(H, c)
  <2> SUFFICES ASSUME untar.running PROVE \A c : OfShard(H, c)' = OfShard(H, c)
    OBVIOUS
  <2>1. PICK S : S = H
    OBVIOUS
  <2>2. Sharded(S)
    BY <2>1 DEF FInv, Snaps, Unpacking, Snapped, Sharded
  <2>3. \A c : OfShard(S, c)' = OfShard(S, c)
    BY <2>2, ShardedGrows
  <2> QED BY <2>1, <2>3 DEF OfShard
<1>3. Shaped'
  BY DEF FInv, Shaped
<1>4. FollowerAccounted'
  BY <1>1 DEF FInv, FollowerAccounted, RestoreNeverAhead, FollowerQueue
<1>5. Unpacking'
  BY <1>1, <1>2 DEF FInv, Unpacking
<1> QED BY <1>3, <1>4, <1>5

LEMMA FollowerCatchUp ==
  ASSUME IInv, PInv, FInv, CatchUp
  PROVE  Shaped' /\ FollowerAccounted' /\ Unpacking'
<1>1. /\ up /\ phase = "idle" /\ ~untar.running
      /\ UNCHANGED <<vars, files, request, stream, untar>>
  BY DEF CatchUp
<1>2. follower' = [applied |-> applied, pending |-> pending, lastIndex |-> lastIndex,
                   data |-> DataPath, accepted |-> Accepted(applied), exact |-> TRUE]
  BY DEF CatchUp
<1>3. DataPath = [block |-> block, meta |-> metaIndex, flushed |-> flushed]
  BY DEF DataPath
<1>4. /\ follower'.data.block = block /\ follower'.data.meta = metaIndex /\ follower'.data.flushed = flushed
      /\ follower'.accepted = Accepted(applied) /\ follower'.pending = pending
  BY <1>2, <1>3
<1>5. Shaped'
  <2>1. DOMAIN block = Shards
    BY DEF IInv, TypeOK
  <2>2. untar' = untar
    BY <1>1
  <2> QED BY <1>2, <1>3, <2>1, <2>2 DEF FInv, Shaped
<1>6. /\ Sharded(Accepted(applied))
      /\ Accepted(applied) \subseteq PendingSet \cup flushed
  BY <1>1, AcceptedSharded
<1>7. FollowerQueue' = PendingSet
  BY <1>4 DEF FollowerQueue, PendingSet
<1>8. Accepted(applied) \cap 1..metaIndex \subseteq flushed
  BY <1>6 DEF Accepted, Sharded, IInv, TypeOK, NoReplayGap
<1>9. Sharded(follower.accepted)'
  <2>1. log' = log
    BY <1>1 DEF vars
  <2> QED BY <1>4, <1>6, <2>1 DEF Sharded
<1>10. FollowerAccounted'
  BY <1>4, <1>6, <1>7, <1>8, <1>9 DEF FollowerAccounted, RestoreNeverAhead
<1>11. Unpacking'
  BY <1>1 DEF Unpacking
<1> QED BY <1>5, <1>10, <1>11

LEMMA FollowerSyncs ==
  ASSUME FInv, FollowerSync
  PROVE  Shaped' /\ FollowerAccounted' /\ Unpacking'
<1> DEFINE highest == Newest(FollowerQueue \cup {follower.lastIndex})
           newData == [block |-> [c \in Shards |-> Flush(c).block], meta |-> highest,
                       flushed |-> follower.data.flushed \cup FollowerQueue]
<1>1. ~untar.running /\ untar' = untar /\ log' = log
  BY DEF FollowerSync, vars
<1>2. follower' = [follower EXCEPT !.pending = <<>>, !.lastIndex = highest, !.data = newData]
  BY DEF FollowerSync, FollowerQueue
<1>3. follower' = [applied |-> follower.applied, pending |-> <<>>, lastIndex |-> highest,
                   data |-> newData, accepted |-> follower.accepted, exact |-> follower.exact]
  <2> HIDE DEF highest, newData
  <2> QED BY <1>2 DEF FInv, Shaped
<1>4. DOMAIN newData.block = Shards /\ newData.flushed = follower.data.flushed \cup FollowerQueue
      /\ newData = [block |-> newData.block, meta |-> newData.meta, flushed |-> newData.flushed]
  OBVIOUS
<1> HIDE DEF highest, newData
<1>5. /\ follower'.data = newData /\ follower'.accepted = follower.accepted
      /\ follower'.exact = follower.exact
  BY <1>3
<1>6. Shaped'
  BY <1>1, <1>3, <1>4 DEF FInv, Shaped
<1>7. follower.exact => follower.accepted \subseteq newData.flushed
  BY <1>4 DEF FInv, FollowerAccounted
<1>8. FollowerAccounted'
  BY <1>1, <1>5, <1>7 DEF FInv, FollowerAccounted, RestoreNeverAhead, Sharded
<1>9. Unpacking'
  BY <1>1 DEF Unpacking
<1> QED BY <1>6, <1>8, <1>9

LEMMA FollowerReopens ==
  ASSUME FInv, Reopen
  PROVE  Shaped' /\ FollowerAccounted' /\ Unpacking'
<1>1. untar' = NotRecovering /\ log' = log
  BY DEF Reopen, vars
<1>2. follower' = [follower EXCEPT !.applied = follower.data.meta, !.pending = <<>>,
                                   !.lastIndex = follower.data.meta,
                                   !.accepted = @ \cap 1..follower.data.meta]
  BY DEF Reopen
<1>3. follower' = [applied |-> follower.data.meta, pending |-> <<>>, lastIndex |-> follower.data.meta,
                   data |-> follower.data, accepted |-> follower.accepted \cap 1..follower.data.meta,
                   exact |-> follower.exact]
  BY <1>2 DEF FInv, Shaped
<1>4. Shaped'
  BY <1>1, <1>3 DEF FInv, Shaped, NotRecovering
<1>5. /\ follower'.data = follower.data /\ follower'.exact = follower.exact
      /\ follower'.accepted = follower.accepted \cap 1..follower.data.meta
  BY <1>3
<1>6. FollowerAccounted'
  BY <1>1, <1>5 DEF FInv, FollowerAccounted, RestoreNeverAhead, Sharded
<1>7. Unpacking'
  BY <1>1 DEF Unpacking, NotRecovering
<1> QED BY <1>4, <1>6, <1>7

LEMMA FollowerRecovers ==
  ASSUME FInv, RecoverStart
  PROVE  Shaped' /\ FollowerAccounted' /\ Unpacking'
<1>1. /\ stream # NoSnap /\ untar' = [running |-> TRUE, blocks |-> Shards, meta |-> TRUE]
      /\ UNCHANGED <<vars, stream, follower>> /\ log' = log
  BY DEF RecoverStart, vars
<1>2. Shaped' /\ Unpacking'
  BY <1>1 DEF FInv, Shaped, Unpacking
<1>3. FollowerAccounted'
  BY <1>1 DEF FInv, FollowerAccounted, RestoreNeverAhead, Sharded, FollowerQueue
<1> QED BY <1>2, <1>3

LEMMA FollowerUntarsBlock ==
  ASSUME FInv, NEW c \in Shards, UntarBlock(c)
  PROVE  Shaped' /\ FollowerAccounted' /\ Unpacking'
<1> DEFINE D == follower.data
           arch == stream.archive
           A == follower.accepted
           H == (D.flushed \ OfShard(D.flushed, c)) \cup OfShard(arch.flushed, c)
           b == [D.block EXCEPT ![c] = arch.block[c]]
           e == follower.exact /\ stream.synced /\ A = stream.accepted \cap 1..follower.applied
<1>1. /\ untar.running /\ c \in untar.blocks /\ log' = log /\ stream' = stream
      /\ untar' = [untar EXCEPT !.blocks = @ \ {c}]
  BY DEF UntarBlock, vars
<1>2. follower' = [follower EXCEPT !.data.block[c] = arch.block[c], !.data.flushed = H, !.exact = e]
  BY DEF UntarBlock, Unpacked
<1> HIDE DEF H, e
<1>3. follower' = [applied |-> follower.applied, pending |-> follower.pending,
                   lastIndex |-> follower.lastIndex,
                   data |-> [block |-> b, meta |-> D.meta, flushed |-> H],
                   accepted |-> A, exact |-> e]
  BY <1>2 DEF FInv, Shaped
<1>4. /\ follower'.data.block = b /\ follower'.data.meta = D.meta /\ follower'.data.flushed = H
      /\ follower'.accepted = A /\ follower'.exact = e /\ follower'.pending = follower.pending
  BY <1>3
<1>5. DOMAIN b = Shards
  BY DEF FInv, Shaped
<1>6. untar'.running = untar.running /\ untar'.blocks = untar.blocks \ {c}
      /\ untar' = [running |-> untar.running, blocks |-> untar.blocks \ {c}, meta |-> untar.meta]
  BY <1>1 DEF FInv, Shaped
<1>7. Shaped'
  BY <1>3, <1>5, <1>6 DEF Shaped
<1>8. stream # NoSnap /\ Snapped(stream)
  BY <1>1 DEF FInv, Unpacking, Snaps
<1>9. follower'.exact => follower.exact /\ stream.synced /\ A \subseteq stream.accepted
  BY <1>4 DEF e
<1>10. follower'.exact => A \subseteq arch.flushed
  BY <1>8, <1>9 DEF Snapped
<1>11. \A i : ShardOf(log[i]) # c => (i \in H <=> i \in D.flushed)
  BY DEF H, OfShard
<1>12. \A i : ShardOf(log[i]) = c => (i \in H <=> i \in arch.flushed)
  BY DEF H, OfShard
<1>13. FollowerAccounted'
  <2>1. Sharded(follower.accepted)'
    BY <1>1, <1>4 DEF FInv, FollowerAccounted, Sharded
  <2>2. FollowerQueue' = FollowerQueue
    BY <1>4 DEF FollowerQueue
  <2>3. follower'.exact => A \subseteq H \cup FollowerQueue
    BY <1>9, <1>10, <1>11, <1>12 DEF FInv, FollowerAccounted
  <2>4. follower'.exact => A \cap 1..D.meta \subseteq H
    BY <1>9, <1>10, <1>11, <1>12 DEF FInv, FollowerAccounted, RestoreNeverAhead
  <2> QED BY <1>4, <2>1, <2>2, <2>3, <2>4 DEF FollowerAccounted, RestoreNeverAhead
<1>14. Unpacking'
  <2> SUFFICES ASSUME NEW d \in Shards \ untar'.blocks
               PROVE  /\ follower'.data.block[d] = arch.block[d]
                      /\ OfShard(arch.flushed, d)' \subseteq H
                      /\ follower'.exact => stream.synced /\ OfShard(A, d)' \subseteq arch.flushed
    BY <1>1, <1>4, <1>8 DEF Unpacking
  <2>1. d = c \/ d \in Shards \ untar.blocks
    BY <1>6
  <2>2. OfShard(arch.flushed, d)' = OfShard(arch.flushed, d) /\ OfShard(A, d)' = OfShard(A, d)
    BY <1>1, <1>4 DEF OfShard
  <2>3. b[d] = arch.block[d]
    BY <1>1, <2>1 DEF FInv, Shaped, Unpacking
  <2>4. OfShard(arch.flushed, d) \subseteq H
    BY <1>1, <1>11, <1>12, <2>1 DEF FInv, Unpacking, OfShard
  <2>5. follower'.exact => stream.synced /\ OfShard(A, d) \subseteq arch.flushed
    BY <1>9, <1>10 DEF OfShard
  <2> QED BY <1>4, <2>2, <2>3, <2>4, <2>5
<1> QED BY <1>7, <1>13, <1>14

(* Once every block is unpacked, the follower's blocks hold what the         *)
(* archive's do of the entries that have a shard.                            *)
LEMMA AllUnpacked ==
  ASSUME FInv, untar.running, untar.blocks = {}
  PROVE  /\ stream # NoSnap /\ Snapped(stream)
         /\ follower.exact => /\ follower.accepted \subseteq follower.data.flushed
                              /\ stream.accepted \subseteq follower.data.flushed
         /\ \A c \in Shards : follower.data.block[c] = stream.archive.block[c]
<1>1. stream # NoSnap /\ Snapped(stream)
  BY DEF FInv, Unpacking, Snaps
<1>2. \A c \in Shards :
        /\ follower.data.block[c] = stream.archive.block[c]
        /\ OfShard(stream.archive.flushed, c) \subseteq follower.data.flushed
        /\ follower.exact => stream.synced /\ OfShard(follower.accepted, c) \subseteq stream.archive.flushed
  BY DEF FInv, Unpacking
<1>3. ASSUME follower.exact, NEW i, i \in follower.accepted \cup stream.accepted
      PROVE  i \in follower.data.flushed
  <2> DEFINE c == ShardOf(log[i])
  <2>1. c \in Shards
    BY <1>1, <1>3 DEF FInv, FollowerAccounted, Sharded, Snapped
  <2>2. i \in stream.archive.flushed
    <3>1. CASE i \in follower.accepted
      BY <1>2, <1>3, <2>1, <3>1 DEF OfShard
    <3>2. CASE i \in stream.accepted
      BY <1>1, <1>2, <1>3, <2>1, <3>2 DEF Snapped
    <3> QED BY <1>3, <3>1, <3>2
  <2> QED BY <1>2, <2>1, <2>2 DEF OfShard
<1> QED BY <1>1, <1>2, <1>3

LEMMA FollowerUntarsMeta ==
  ASSUME FInv, UntarMeta
  PROVE  Shaped' /\ FollowerAccounted' /\ Unpacking'
<1> DEFINE D == follower.data
           m == stream.archive.meta
<1>1. /\ untar.running /\ untar.blocks = {} /\ log' = log /\ stream' = stream
      /\ untar' = [untar EXCEPT !.meta = FALSE]
      /\ follower' = [follower EXCEPT !.data.meta = m]
  BY DEF UntarMeta, MetaTurn, vars
<1> HIDE DEF m
<1>2. follower' = [applied |-> follower.applied, pending |-> follower.pending,
                   lastIndex |-> follower.lastIndex,
                   data |-> [block |-> D.block, meta |-> m, flushed |-> D.flushed],
                   accepted |-> follower.accepted, exact |-> follower.exact]
  BY <1>1 DEF FInv, Shaped
<1>3. /\ follower'.data.block = D.block /\ follower'.data.flushed = D.flushed
      /\ follower'.accepted = follower.accepted /\ follower'.exact = follower.exact
      /\ follower'.pending = follower.pending
  BY <1>2
<1>4. untar' = [running |-> untar.running, blocks |-> untar.blocks, meta |-> FALSE]
  BY <1>1 DEF FInv, Shaped
<1>5. Shaped'
  BY <1>2, <1>4 DEF FInv, Shaped
<1>6. follower.exact => follower.accepted \subseteq D.flushed
  BY <1>1, AllUnpacked
<1>7. FollowerAccounted'
  BY <1>1, <1>3, <1>6 DEF FInv, FollowerAccounted, RestoreNeverAhead, Sharded
<1>8. Unpacking'
  BY <1>1, <1>3, <1>4 DEF FInv, Unpacking, OfShard
<1> QED BY <1>5, <1>7, <1>8

LEMMA FollowerRecovered ==
  ASSUME FInv, RecoverReturn
  PROVE  Shaped' /\ FollowerAccounted' /\ Unpacking'
<1>1. /\ untar.running /\ untar.blocks = {} /\ log' = log /\ untar' = NotRecovering
      /\ follower' = [follower EXCEPT !.lastIndex = follower.data.meta, !.applied = stream.label,
                                      !.accepted = stream.accepted]
  BY DEF RecoverReturn, vars
<1>2. follower' = [applied |-> stream.label, pending |-> follower.pending,
                   lastIndex |-> follower.data.meta, data |-> follower.data,
                   accepted |-> stream.accepted, exact |-> follower.exact]
  BY <1>1 DEF FInv, Shaped
<1>3. /\ follower'.data = follower.data /\ follower'.accepted = stream.accepted
      /\ follower'.exact = follower.exact
  BY <1>2
<1>4. Shaped' /\ Unpacking'
  BY <1>1, <1>2 DEF FInv, Shaped, Unpacking, NotRecovering
<1>5. /\ Sharded(stream.accepted)
      /\ follower.exact => stream.accepted \subseteq follower.data.flushed
  BY <1>1, AllUnpacked DEF Snapped
<1>6. FollowerAccounted'
  BY <1>1, <1>3, <1>5 DEF FollowerAccounted, RestoreNeverAhead, Sharded
<1> QED BY <1>4, <1>6

LEMMA FollowerStep ==
  ASSUME IInv, PInv, FInv, [SnapNext]_snapVars
  PROVE  FInv'
<1>0. [Next]_vars
  BY SenderAlone
<1>1. Snaps'
  BY SnapsStep DEF FInv
<1>2. ASSUME UNCHANGED <<follower, untar>>, untar.running => stream' = stream
      PROVE  Shaped' /\ FollowerAccounted' /\ Unpacking'
  BY <1>0, <1>2, FollowerStill
<1>3. ASSUME SenderStep \/ PreparePeriodic \/ PrepareStream \/ SaveSnapshot \/ UNCHANGED snapVars
      PROVE  UNCHANGED <<follower, untar>> /\ (untar.running => stream' = stream)
  BY <1>3 DEF SenderStep, PreparePeriodic, PrepareStream, PrepareSnapshot, SaveSnapshot, snapVars
<1>4. Shaped' /\ FollowerAccounted' /\ Unpacking'
  BY <1>2, <1>3, FollowerCatchUp, FollowerSyncs, FollowerReopens, FollowerRecovers,
     FollowerUntarsBlock, FollowerUntarsMeta, FollowerRecovered DEF SnapNext
<1> QED BY <1>1, <1>4 DEF FInv

LEMMA FollowerInit == SnapInit => FInv
<1> SUFFICES ASSUME SnapInit PROVE FInv
  OBVIOUS
<1>1. request = NoSnap /\ stream = NoSnap /\ follower = NewFollower /\ untar = NotRecovering
  BY DEF SnapInit
<1>2. DataPath = [block |-> block, meta |-> metaIndex, flushed |-> flushed] /\ DOMAIN block = Shards
  BY DEF DataPath, SnapInit, Init
<1>3. Shaped
  BY <1>1, <1>2 DEF Shaped, NewFollower, NotRecovering
<1>4. FollowerAccounted
  BY <1>1 DEF FollowerAccounted, RestoreNeverAhead, NewFollower, Sharded
<1>5. Unpacking
  BY <1>1 DEF Unpacking, NotRecovering
<1> QED BY <1>1, <1>3, <1>4, <1>5 DEF FInv, Snaps

LEMMA FollowerInvariant == SnapSpec => []FInv
<1>1. SnapInit => FInv
  BY FollowerInit
<1>2. (IInv /\ PInv) /\ FInv /\ [SnapNext]_snapVars => FInv'
  BY FollowerStep
<1> QED BY <1>1, <1>2, PreparedInvariant, PTL DEF SnapSpec

(* Wherever Untar stops, and however the follower Syncs, restarts and        *)
(* catches up in between, its blocks hold every accepted entry that its      *)
(* recorded index covers, as long as only archives of an empty queue, of a   *)
(* sender that had accepted the same, were unpacked over them.               *)
THEOREM RestoreNeverAheadCorrect == SnapSpec => []RestoreNeverAhead
<1>1. FInv => RestoreNeverAhead
  BY DEF FInv, FollowerAccounted
<1> QED BY <1>1, FollowerInvariant, PTL

(* When RecoverFromSnapshot returns, a follower with an empty queue has      *)
(* exactly the parts and documents that the sender had when it prepared the  *)
(* snapshot with an empty queue.                                             *)
THEOREM SyncedBootstrapIsExactCorrect == SnapSpec => SyncedBootstrapIsExact
<1>1. ASSUME FInv, RecoverReturn, stream.synced, follower.pending = <<>>
      PROVE  F!Store(F!LivePart, F!LiveDoc) = stream.live
  <2>1. untar.running /\ untar.blocks = {}
    BY <1>1 DEF RecoverReturn
  <2>2. Snapped(stream) /\ \A c \in Shards : follower.data.block[c] = stream.archive.block[c]
    BY <1>1, <2>1, AllUnpacked
  <2>3. stream.live = StoreOf(stream.archive.block)
    BY <1>1, <2>2 DEF Snapped
  <2>4. StoreOf(follower.data.block) = StoreOf(stream.archive.block)
    BY <2>2 DEF StoreOf, Holds
  <2>5. F!Store(F!LivePart, F!LiveDoc) = StoreOf(follower.data.block)
    BY <1>1, EmptyFollowerStore
  <2> QED BY <2>3, <2>4, <2>5
<1>2. FInv /\ [SnapNext]_snapVars =>
        [RecoverReturn /\ stream.synced /\ follower.pending = <<>>
           => F!Store(F!LivePart, F!LiveDoc) = stream.live]_snapVars
  BY <1>1
<1> QED BY <1>2, FollowerInvariant, PTL DEF SnapSpec, SyncedBootstrapIsExact
=============================================================================
