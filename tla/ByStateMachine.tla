--------------------------- MODULE ByStateMachine ---------------------------
(***************************************************************************)
(* The on-disk state machine of one replica                                *)
(* (src/statemachine/statemachine.go) under its host.                      *)
(*                                                                         *)
(* The host is Dragonboat, which is external: it owns the Raft log, hands  *)
(* committed entries to Update in batches of its choosing, calls Sync when *)
(* it wants the state on disk, never runs two of Open, Update, Sync and    *)
(* Close at once, and after a restart replays the log from the index that  *)
(* Open returned.  A process may stop at any step; what BoltDB and Bleve   *)
(* have committed survives.                                                *)
(*                                                                         *)
(* A pending entry is represented by its log index, which determines its   *)
(* command, its shard and updateEntry.Index.                               *)
(***************************************************************************)
EXTENDS Shard, FiniteSets

CONSTANTS
  MaxLog,         \* bound: entries that clients propose
  MaxBatch,       \* bound: entries in one call of Update
  MaxShardBatch,  \* bound: entries of one shard in one call of Update
  MaxCrash,       \* bound: times the process stops and is started again
  NoAnswer        \* no Update has returned a result for the entry yet

ASSUME BoundsAssumption ==
  /\ MaxLog \in Nat /\ MaxBatch \in Nat /\ MaxShardBatch \in Nat /\ MaxCrash \in Nat
  /\ NoAnswer \notin Nat

VARIABLES
  log,        \* the committed Raft log (external)
  applied,    \* the index up to which the host has called Update (external)
  up,         \* is the process running?
  phase,      \* which method of the state machine is running
  batch,      \* entries of this Update whose shard has not been ranged over
  existing,   \* entries of the shard at hand still to be decided, with PartExists and ExistingDoc
  batchEnd,   \* the last entry of this Update
  result,     \* Entry.Result.Value of each log entry, as last set
  answer,     \* the result the first completed Update gave, which the client saw (history)
  pending,    \* s.pending: log indices of accepted entries, oldest first
  lastIndex,  \* s.lastIndex
  metaIndex,  \* lastUpdateIndex in the meta database, on disk
  block,      \* the BoltDB of each shard, on disk
  index,      \* the Bleve index of each shard, on disk
  tx,         \* the ApplyUpdates goroutine of each shard
  flushed,    \* entries whose block transaction has committed (history)
  crashes     \* times the process has stopped

hostVars   == <<log, applied, answer>>
updateVars == <<batch, existing, batchEnd, result>>
diskVars   == <<metaIndex, block, index, flushed>>
vars == <<log, applied, up, phase, batch, existing, batchEnd, result, answer, pending,
          lastIndex, metaIndex, block, index, tx, flushed, crashes>>

Codes == {0, 200, 404, 409}

(* A goroutine of Sync: how far it is, the queue positions it has still to   *)
(* apply, and what it has built so far.                                      *)
Txs == [state : {"none", "run", "indexed", "done"}, todo : SUBSET Nat,
        block : Blocks, index : Indexes]

NoTx == [state |-> "none", todo |-> {}, block |-> EmptyBlock, index |-> EmptyIndex]

NoEntries == [i \in {} |-> NoDoc]

(* The log indices among S whose commands belong to shard c. *)
OfShard(S, c) == {i \in S : ShardOf(log[i]) = c}

PendingSet == {pending[k] : k \in 1..Len(pending)}

(* A type-correct state. *)
TypeOK ==
  /\ log \in Seq(Commands) /\ Len(log) <= MaxLog
  /\ applied \in 0..Len(log)
  /\ up \in BOOLEAN
  /\ phase \in {"idle", "update", "apply", "meta"}
  /\ batch \subseteq 1..Len(log)
  /\ batchEnd \in 0..Len(log)
  /\ DOMAIN existing \subseteq 1..Len(log)
  /\ \A i \in DOMAIN existing : existing[i] \in Existing
  /\ result \in [1..MaxLog -> Codes]
  /\ answer \in [1..MaxLog -> Codes \cup {NoAnswer}]
  /\ pending \in Seq(1..Len(log))
  /\ lastIndex \in 0..Len(log)
  /\ metaIndex \in 0..Len(log)
  /\ block \in [Shards -> Blocks]
  /\ index \in [Shards -> Indexes]
  /\ tx \in [Shards -> Txs]
  /\ \A c \in Shards : tx[c].todo \subseteq 1..Len(pending)
  /\ flushed \subseteq 1..Len(log)
  /\ crashes \in 0..MaxCrash

Init ==
  /\ log = <<>> /\ applied = 0 /\ up = FALSE /\ phase = "idle"
  /\ batch = {} /\ existing = NoEntries /\ batchEnd = 0
  /\ result = [i \in 1..MaxLog |-> 0]
  /\ answer = [i \in 1..MaxLog |-> NoAnswer]
  /\ pending = <<>> /\ lastIndex = 0 /\ metaIndex = 0
  /\ block = [c \in Shards |-> EmptyBlock]
  /\ index = [c \in Shards |-> EmptyIndex]
  /\ tx = [c \in Shards |-> NoTx]
  /\ flushed = {} /\ crashes = 0

-----------------------------------------------------------------------------
(* The pending queue. *)

(* The newest of a set of queue positions, or 0. *)
Newest(S) == IF S = {} THEN 0 ELSE CHOOSE k \in S : \A j \in S : j <= k

(* Does the scan of the queue for cmd stop at the pending command q?  A part *)
(* command concerns every document of its part.                              *)
MatchesSameId(q, cmd) == q.part = cmd.part /\ q.id = cmd.id  \* mutant: part commands overlooked

Matches(q, cmd) == q.part = cmd.part /\ (IsPart(q) \/ q.id = cmd.id)

(* The position of the newest match, or 0: the scan goes from new to old. *)
MatchPositions(cmd) == {k \in 1..Len(pending) : Matches(log[pending[k]], cmd)}

FindCommandInPending(cmd) == Newest(MatchPositions(cmd))

(* The first loop of Update over a shard's entries.  PartExists of an entry  *)
(* not found in the queue still has its zero value.                          *)
FindInPendingDeletedPart(cmd) ==  \* mutant: DELETE_PART falls into the default case
  LET k == FindCommandInPending(cmd)
      q == log[pending[k]]
  IN  IF k = 0 THEN [partExists |-> FALSE, doc |-> NoDoc]
      ELSE IF q.type = "CREATE_PART" THEN [partExists |-> TRUE, doc |-> NoDoc]
      ELSE [partExists |-> TRUE, doc |-> q.doc]

FindInPending(cmd) ==
  LET k == FindCommandInPending(cmd)
      q == log[pending[k]]
  IN  IF k = 0 \/ q.type = "DELETE_PART" THEN [partExists |-> FALSE, doc |-> NoDoc]
      ELSE IF q.type = "CREATE_PART"     THEN [partExists |-> TRUE, doc |-> NoDoc]
      ELSE                                    [partExists |-> TRUE, doc |-> q.doc]

(* The result that Update's last loop gives an entry. *)
Decide(cmd, e) ==
  CASE cmd.type \in {"PUT", "DEL"} /\ (~e.partExists \/ e.doc = NoDoc) -> 404
    [] cmd.type \in {"PUT", "DEL"} /\ e.partExists /\ e.doc # NoDoc
         -> IF e.doc.updated # cmd.ts THEN 409 ELSE 200
    [] cmd.type = "POST"
         -> IF ~e.partExists THEN 404 ELSE IF e.doc # NoDoc THEN 409 ELSE 200
    [] cmd.type = "CREATE_PART" -> IF e.partExists THEN 409 ELSE 200
    [] cmd.type = "DELETE_PART" -> IF e.partExists THEN 200 ELSE 404

-----------------------------------------------------------------------------
(* Update. *)

(* A client's proposal is committed to the log (external). *)
Propose(cmd) ==
  /\ Len(log) < MaxLog
  /\ log' = Append(log, cmd)
  /\ UNCHANGED <<applied, answer, up, phase, updateVars, pending, lastIndex, diskVars, tx, crashes>>

(* The host hands the next n entries to Update, which parses them. *)
UpdateStart(n) ==
  LET entries == (applied + 1)..(applied + n)
  IN  /\ up /\ phase = "idle"
      /\ applied + n <= Len(log)
      /\ \A c \in Shards : Cardinality(OfShard(entries, c)) <= MaxShardBatch
      /\ phase' = "update"
      /\ batch' = entries
      /\ batchEnd' = applied + n
      /\ result' = [i \in 1..MaxLog |-> IF i \in entries THEN 0 ELSE result[i]]
      /\ UNCHANGED <<hostVars, up, existing, pending, lastIndex, diskVars, tx, crashes>>

(* One round of the range over the shard map, in any order: what each entry  *)
(* of the shard will meet is looked up for all of them before any is decided.*)
(* The block is read only if some entry was not found in the queue, and then *)
(* for all of them.                                                          *)
StateSearchMany(S) ==  \* mutant: stateSearchDocs > 1
  Cardinality({i \in S : FindCommandInPending(log[i]) = 0}) > 1

StateSearch(S) == \E i \in S : FindCommandInPending(log[i]) = 0

FindExisting(c, S) ==
  [i \in S |-> IF StateSearch(S)
               THEN FindExistingDocument(block[c], log[i], FindInPending(log[i]))
               ELSE FindInPending(log[i])]

UpdateShard(c) ==
  /\ phase = "update"
  /\ DOMAIN existing = {}
  /\ OfShard(batch, c) # {}
  /\ existing' = FindExisting(c, OfShard(batch, c))
  /\ batch' = batch \ OfShard(batch, c)
  /\ UNCHANGED <<hostVars, up, phase, batchEnd, result, pending, lastIndex, diskVars, tx, crashes>>

(* The entries of the shard are decided in log order. *)
DecideEntry ==
  \E i \in DOMAIN existing :
    LET code == Decide(log[i], existing[i])
    IN  /\ phase = "update"
        /\ \A j \in DOMAIN existing : i <= j
        /\ result' = [result EXCEPT ![i] = code]
        /\ pending' = IF code = 200 THEN Append(pending, i) ELSE pending
        /\ existing' = [j \in DOMAIN existing \ {i} |-> existing[j]]
        /\ UNCHANGED <<hostVars, up, phase, batch, batchEnd, lastIndex, diskVars, tx, crashes>>

(* Update returns once every shard has been ranged over.  Entries whose part *)
(* has no shard are left in the batch and keep the result 0.                 *)
BatchUsedUp == batch = {}  \* mutant: waits for entries that no shard takes

RangeDone == \A c \in Shards : OfShard(batch, c) = {}

UpdateReturn ==
  /\ phase = "update"
  /\ DOMAIN existing = {}
  /\ RangeDone
  /\ phase' = "idle"
  /\ applied' = batchEnd
  /\ answer' = [i \in 1..MaxLog |-> IF applied < i /\ i <= batchEnd /\ answer[i] = NoAnswer
                                    THEN result[i] ELSE answer[i]]
  /\ batch' = {}
  /\ UNCHANGED <<log, up, existing, batchEnd, result, pending, lastIndex, diskVars, tx, crashes>>

-----------------------------------------------------------------------------
(* Sync. *)

OneBeyondHighest ==  \* mutant: the next index instead of the last
  LET S == PendingSet \cup {lastIndex}
  IN  1 + CHOOSE m \in S : \A j \in S : j <= m

FindHighestIndexInPending ==
  LET S == PendingSet \cup {lastIndex}
  IN  CHOOSE m \in S : \A j \in S : j <= m

GetPendingUpdatesForShard(c) == {k \in 1..Len(pending) : ShardOf(log[pending[k]]) = c}

(* Sync fixes the index it will record and starts a goroutine for each shard *)
(* that has pending entries.                                                 *)
SyncStart ==
  /\ up /\ phase = "idle"
  /\ phase' = "apply"
  /\ lastIndex' = FindHighestIndexInPending
  /\ tx' = [c \in Shards |->
              IF GetPendingUpdatesForShard(c) = {} THEN NoTx
              ELSE [state |-> "run", todo |-> GetPendingUpdatesForShard(c),
                    block |-> block[c], index |-> index[c]]]
  /\ UNCHANGED <<hostVars, up, updateVars, pending, diskVars, crashes>>

(* The position that the loop of shard c's goroutine is at. *)
NextInTx(c, k) ==
  /\ phase = "apply" /\ tx[c].state = "run"
  /\ k \in tx[c].todo /\ \A j \in tx[c].todo : k <= j

(* One entry of ApplyUpdates' loop. *)
TxApply(c) ==
  \E k \in tx[c].todo :
    LET cmd == log[pending[k]]
    IN  /\ NextInTx(c, k)
        /\ ~NilBucket(tx[c].block, cmd)
        /\ tx' = [tx EXCEPT ![c] = [state |-> "run",
                                    todo  |-> tx[c].todo \ {k},
                                    block |-> ApplyToBlock(tx[c].block, cmd),
                                    index |-> ApplyToIndex(tx[c].block, tx[c].index, cmd)]]
        /\ UNCHANGED <<hostVars, up, phase, updateVars, pending, lastIndex, diskVars, crashes>>

(* The index batch is executed inside the bolt transaction, so before it     *)
(* commits.                                                                  *)
IndexBatch(c) ==
  /\ phase = "apply" /\ tx[c].state = "run" /\ tx[c].todo = {}
  /\ index' = [index EXCEPT ![c] = tx[c].index]
  /\ tx' = [tx EXCEPT ![c].state = "indexed"]
  /\ UNCHANGED <<hostVars, up, phase, updateVars, pending, lastIndex, metaIndex, block, flushed, crashes>>

TxCommit(c) ==
  /\ phase = "apply" /\ tx[c].state = "indexed"
  /\ block' = [block EXCEPT ![c] = tx[c].block]
  /\ flushed' = flushed \cup OfShard(PendingSet, c)
  /\ tx' = [tx EXCEPT ![c].state = "done"]
  /\ UNCHANGED <<hostVars, up, phase, updateVars, pending, lastIndex, metaIndex, index, crashes>>

(* wg.Wait: the goroutines that were started have ended. *)
NoWait == TRUE                                   \* mutant: no wait at all
WaitForAll == \A c \in Shards : tx[c].state = "done"  \* mutant: also for shards without one

Wait == \A c \in Shards : tx[c].state \in {"none", "done"}

(* After the wait, clearPendingQueue ... *)
ClearPendingQueue ==
  /\ phase = "apply"
  /\ Wait
  /\ phase' = "meta"
  /\ pending' = <<>>
  /\ tx' = [c \in Shards |-> NoTx]
  /\ UNCHANGED <<hostVars, up, updateVars, lastIndex, diskVars, crashes>>

(* ... and updateLastUpdateIndex. *)
UpdateLastUpdateIndex ==
  /\ phase = "meta"
  /\ phase' = "idle"
  /\ metaIndex' = lastIndex
  /\ UNCHANGED <<hostVars, up, updateVars, pending, lastIndex, block, index, tx, flushed, crashes>>

-----------------------------------------------------------------------------
(* Starting and stopping. *)

StartOver == 0  \* mutant: the recorded index is not read

GetLastUpdateIndex == metaIndex

(* Open returns the recorded index; the host replays what follows it. *)
Open ==
  /\ ~up
  /\ up' = TRUE
  /\ lastIndex' = GetLastUpdateIndex
  /\ applied' = GetLastUpdateIndex
  /\ UNCHANGED <<log, answer, phase, updateVars, pending, diskVars, tx, crashes>>

(* The process is gone, with everything it kept in memory; an open bolt      *)
(* transaction is rolled back.                                               *)
Stop ==
  /\ up' = FALSE /\ phase' = "idle" /\ applied' = 0
  /\ batch' = {} /\ existing' = NoEntries /\ batchEnd' = 0
  /\ pending' = <<>> /\ lastIndex' = 0
  /\ tx' = [c \in Shards |-> NoTx]
  /\ UNCHANGED <<log, answer, result, diskVars>>

Crash ==
  /\ up /\ crashes < MaxCrash
  /\ crashes' = crashes + 1
  /\ Stop

(* Close does not flush the queue. *)
Close ==
  /\ up /\ phase = "idle" /\ crashes < MaxCrash
  /\ crashes' = crashes + 1
  /\ Stop

(* A goroutine of Sync meets a nil bucket and takes the process down. *)
SyncPanic(c) ==
  /\ \E k \in tx[c].todo : NextInTx(c, k) /\ NilBucket(tx[c].block, log[pending[k]])
  /\ Stop
  /\ UNCHANGED crashes

-----------------------------------------------------------------------------
UpdateStep ==
  \/ \E n \in 1..MaxBatch : UpdateStart(n)
  \/ \E c \in Shards : UpdateShard(c)
  \/ DecideEntry
  \/ UpdateReturn

SyncStep ==
  \/ \E c \in Shards : TxApply(c) \/ IndexBatch(c) \/ TxCommit(c) \/ SyncPanic(c)
  \/ ClearPendingQueue
  \/ UpdateLastUpdateIndex

Next ==
  \/ \E cmd \in Commands : Propose(cmd)
  \/ UpdateStep
  \/ SyncStart
  \/ SyncStep
  \/ Open
  \/ Crash
  \/ Close

Spec == Init /\ [][Next]_vars

-----------------------------------------------------------------------------
(* The state as a client may reason about it: what the queue will do to the  *)
(* blocks.                                                                   *)

Queued(k) == log[pending[k]]

DiskPart(p) == FirstRune[p] \in Shards /\ p \in block[FirstRune[p]].buckets

DiskDoc(p, id) == IF DiskPart(p) THEN block[FirstRune[p]].docs[p][id] ELSE NoDoc

LivePart(p) ==
  LET k == Newest({j \in 1..Len(pending) :
                     Queued(j).part = p /\ Queued(j).type \in {"CREATE_PART", "DELETE_PART"}})
  IN  IF k = 0 THEN DiskPart(p) ELSE Queued(k).type = "CREATE_PART"

LiveDoc(p, id) ==
  LET k == Newest({j \in 1..Len(pending) :
                     /\ Queued(j).part = p
                     /\ \/ Queued(j).type \in {"CREATE_PART", "DELETE_PART"}
                        \/ Queued(j).id = id})
  IN  IF k = 0 THEN DiskDoc(p, id)
      ELSE IF Queued(k).type \in {"POST", "PUT"} THEN Queued(k).doc ELSE NoDoc

Store(Part(_), Doc(_, _)) ==
  [p \in Parts |-> [exists |-> Part(p), docs |-> [id \in Ids |-> Doc(p, id)]]]

(* The state machine performs only legal commands, commits exactly what they *)
(* add up to, and a restart resumes from what was committed: Update, Sync,   *)
(* ApplyUpdates and Open together implement the document store.              *)
DS == INSTANCE DocStore WITH live    <- Store(LivePart, LiveDoc),
                             durable <- Store(DiskPart, DiskDoc)

ImplementsDocStore == DS!Spec

-----------------------------------------------------------------------------
(* Properties for every batching that the host may choose. *)

(* Recovery never skips an accepted write: an entry whose last decision was  *)
(* 200 and that the recorded index covers, so that no replay will see it     *)
(* again, has been committed to its shard (Sync records the highest pending  *)
(* index only after all the shard transactions).                             *)
NoReplayGap ==
  \A i \in 1..Len(log) : i <= metaIndex /\ result[i] = 200 => i \in flushed

(* An accepted entry is queued once, after the older entries of its shard,   *)
(* and never when the recorded index already covers it: ApplyUpdates works   *)
(* in log order and no replay applies an entry below Open's index again.     *)
PendingOrdered ==
  \A k \in 1..Len(pending) :
    /\ metaIndex < pending[k]
    /\ \A j \in 1..(k - 1) :
         ShardOf(Queued(j)) = ShardOf(Queued(k)) => pending[j] < pending[k]

-----------------------------------------------------------------------------
(* Properties for hosts that give Update at most one entry of each shard at  *)
(* a time (MaxShardBatch = 1).                                               *)

(* Sync finds a bucket for every entry it applies, so no goroutine of Sync   *)
(* takes the process down.                                                   *)
SyncNeverPanics ==
  \A c \in Shards : \A k \in tx[c].todo :
    NextInTx(c, k) => ~NilBucket(tx[c].block, Queued(k))

(* What an entry would meet if the queue had just been flushed. *)
FlushedExisting(cmd) ==
  [partExists |-> LivePart(cmd.part),
   doc        |-> IF IsPart(cmd) THEN NoDoc ELSE LiveDoc(cmd.part, cmd.id)]

(* Replicas Sync at moments of their own, and yet decide alike: Update gives *)
(* every entry the code it would give with the queue flushed, on whatever    *)
(* mix of queue and block the entry meets.  The exception is an entry for    *)
(* which the scan of the queue stops at a DEL, whose empty document passes   *)
(* for one that exists.                                                      *)
DecidesAsIfFlushed ==
  [][\A i \in DOMAIN existing \ DOMAIN existing' :
       \/ phase' # "update"
       \/ LET k == FindCommandInPending(log[i])
          IN  k # 0 /\ Queued(k).type = "DEL"
       \/ result'[i] = Decide(log[i], FlushedExisting(log[i]))]_vars

(* Does a replay from the recorded index touch the index entry f? *)
Touches(cmd, f) ==
  IF IsPart(cmd) THEN \E id \in Ids : FullId(cmd.part, id) = f
                ELSE FullId(cmd.part, cmd.id) = f

(* The search index may run ahead of the block, because ApplyUpdates         *)
(* executes the index batch before bolt commits, but never for good: where   *)
(* they disagree, the log after the recorded index holds a command for that  *)
(* document.                                                                 *)
IndexHealedByReplay ==
  \A p \in Parts, id \in Ids :
    /\ FirstRune[p] \in Shards
    /\ index[FirstRune[p]][FullId(p, id)] # DiskDoc(p, id)
    => \E i \in (metaIndex + 1)..Len(log) : Touches(log[i], FullId(p, id))

-----------------------------------------------------------------------------
(* Statements of the repository that its code does not keep. *)

(* README.md: for PUT and DEL "the timestamp in the command must match the   *)
(* document's current Updated field": of two of them that name the same      *)
(* stamp, Update accepts one.                                                *)
OptimisticLock ==
  [][\A i \in 1..Len(log) :
       log[i].type \in {"PUT", "DEL"} /\ result'[i] = 200 /\ result[i] # 200 =>
         /\ LiveDoc(log[i].part, log[i].id) # NoDoc
         /\ LiveDoc(log[i].part, log[i].id).updated = log[i].ts]_vars

(* README.md: "the state machine survives process restarts": a write that    *)
(* was acknowledged with 200 is on disk once no replay will see it again.    *)
AckedWritesSurvive ==
  \A i \in 1..Len(log) : answer[i] = 200 /\ i <= metaIndex => i \in flushed

-----------------------------------------------------------------------------
(* Liveness.  Once a method of the state machine runs, nothing but a crash   *)
(* stops it; a supervisor starts a stopped process again (and MaxCrash says  *)
(* that it stops only finitely often); the host does not put off a waiting   *)
(* entry forever in favour of further calls of Sync.                         *)
Fairness ==
  /\ WF_vars(Open)
  /\ SF_vars(\E n \in 1..MaxBatch : UpdateStart(n))
  /\ WF_vars(UpdateStep /\ phase = "update")
  /\ WF_vars(SyncStep)

FairSpec == Spec /\ Fairness

(* Every committed proposal is eventually answered, whatever its part, and   *)
(* whatever Syncs and restarts come in between.                              *)
EveryProposalAnswered ==
  \A i \in 1..MaxLog : (Len(log) >= i) ~> (answer[i] # NoAnswer)

(* A Sync that has started comes to its end: its wait group waits for the    *)
(* goroutines it started and for no other shard.                             *)
SyncTerminates == (phase = "apply") ~> (phase = "idle")
=============================================================================
