------------------------------ MODULE Snapshot ------------------------------
(***************************************************************************)
(* Snapshots (PrepareSnapshot, SaveSnapshot and RecoverFromSnapshot of     *)
(* src/statemachine/statemachine.go over Tar and Untar of                  *)
(* src/zipper/zipper.go): one replica, the sender, runs as in              *)
(* ByStateMachine and archives its data directory; another one, the        *)
(* follower, has fallen behind and unpacks the archive over its own.       *)
(*                                                                         *)
(* The host is external.  It does not run PrepareSnapshot during Update or *)
(* Sync, lets SaveSnapshot run beside everything, also calls               *)
(* PrepareSnapshot for periodic snapshots whose archive nobody reads,      *)
(* labels a snapshot with the index it has applied, gives it only to a     *)
(* follower that has applied less, and goes on there after the label.      *)
(*                                                                         *)
(* An archive holds the blocks and meta.bolt.  The index directories are   *)
(* left out: Bleve merges their files in the background, and nothing here  *)
(* is claimed of them.                                                     *)
(***************************************************************************)
EXTENDS ByStateMachine
LOCAL INSTANCE SequencesExt

CONSTANT NoSnap   \* no snapshot, no file

VARIABLES
  files,     \* SnapshotPath of the sender: file name -> archive
  request,   \* the snapshot that was prepared for the follower and is not yet saved
  stream,    \* the snapshot that was saved and reached the follower
  follower,  \* the follower's state machine
  untar      \* the files that Untar has still to write, while RecoverFromSnapshot runs

snapVars == <<vars, files, request, stream, follower, untar>>

Accepted(n) == {i \in 1..n : result[i] = 200}

(* The data directory.  Which entries its blocks hold is history. *)
DataPath == [block |-> block, meta |-> metaIndex, flushed |-> flushed]

(* The follower: accepted is what it has accepted; exact tells that only     *)
(* archives of an empty queue, of a sender that had accepted the same, were  *)
(* unpacked over its blocks (history).                                       *)
NewFollower ==
  [applied |-> 0, pending |-> <<>>, lastIndex |-> 0, data |-> DataPath,
   accepted |-> {}, exact |-> TRUE]

NotRecovering == [running |-> FALSE, blocks |-> {}, meta |-> FALSE]

SnapInit ==
  /\ Init
  /\ files = [n \in 0..MaxLog |-> NoSnap]
  /\ request = NoSnap
  /\ stream = NoSnap
  /\ follower = NewFollower
  /\ untar = NotRecovering

-----------------------------------------------------------------------------
(* The sender. *)

OneName == 0  \* mutant: every archive goes to the same file

FileName == GetLastUpdateIndex

(* PrepareSnapshot reads the recorded index (getLastUpdateIndex), opens the  *)
(* file named after it, which may exist, and has Tar write the data          *)
(* directory to it.  A longer old archive leaves its tail behind the end     *)
(* mark of the new one, where no reader comes.  The queue is not archived.   *)
(* What the snapshot stands for (the label, the live store, whether the      *)
(* queue was empty) goes with it as history.                                 *)
PrepareSnapshot ==
  /\ up /\ phase = "idle"
  /\ lastIndex' = GetLastUpdateIndex
  /\ files' = [files EXCEPT ![FileName] = DataPath]
  /\ UNCHANGED <<hostVars, up, phase, updateVars, pending, diskVars, tx, crashes,
                 stream, follower, untar>>

PreparePeriodic == PrepareSnapshot /\ request' = request

PrepareStream ==
  /\ request = NoSnap
  /\ PrepareSnapshot
  /\ request' = [key |-> FileName, label |-> applied, archive |-> DataPath,
                 live |-> Store(LivePart, LiveDoc), synced |-> pending = <<>>,
                 accepted |-> Accepted(applied)]

(* SaveSnapshot copies the file that PrepareSnapshot named. *)
SaveSnapshot ==
  /\ request # NoSnap /\ ~untar.running
  /\ stream' = [request EXCEPT !.archive = files[request.key]]
  /\ request' = NoSnap
  /\ UNCHANGED <<vars, files, follower, untar>>

-----------------------------------------------------------------------------
(* The follower. *)

(* It has applied what the sender has, in the same batches and Syncs. *)
CatchUp ==
  /\ up /\ phase = "idle" /\ ~untar.running
  /\ follower.applied <= applied
  /\ follower' = [applied |-> applied, pending |-> pending, lastIndex |-> lastIndex,
                  data |-> DataPath, accepted |-> Accepted(applied), exact |-> TRUE]
  /\ UNCHANGED <<vars, files, request, stream, untar>>

(* It Syncs when its host wants it.  A nil bucket ends it instead, as Reopen *)
(* does.                                                                     *)
FlushOne(b, i) ==
  [block |-> ApplyToBlock(b.block, log[i]), nil |-> b.nil \/ NilBucket(b.block, log[i])]

Flush(c) ==
  FoldLeft(FlushOne, [block |-> follower.data.block[c], nil |-> FALSE],
           SelectSeq(follower.pending, LAMBDA i : ShardOf(log[i]) = c))

FollowerSync ==
  LET queue   == {follower.pending[k] : k \in 1..Len(follower.pending)}
      highest == Newest(queue \cup {follower.lastIndex})
  IN  /\ queue # {} /\ ~untar.running
      /\ \A c \in Shards : ~Flush(c).nil
      /\ follower' =
           [follower EXCEPT
              !.pending = <<>>, !.lastIndex = highest,
              !.data = [block |-> [c \in Shards |-> Flush(c).block], meta |-> highest,
                        flushed |-> @.flushed \cup queue]]
      /\ UNCHANGED <<vars, files, request, stream, untar>>

(* It stops at any moment, loses its queue and opens what is on its disk. *)
Reopen ==
  /\ follower' = [follower EXCEPT !.applied = follower.data.meta, !.pending = <<>>,
                                  !.lastIndex = follower.data.meta,
                                  !.accepted = @ \cap 1..follower.data.meta]
  /\ untar' = NotRecovering
  /\ UNCHANGED <<vars, files, request, stream>>

(* RecoverFromSnapshot starts to unpack; neither the queue nor the open      *)
(* databases are touched, which map the files that are written under them.   *)
RecoverStart ==
  /\ stream # NoSnap /\ ~untar.running
  /\ follower.applied < stream.label
  /\ untar' = [running |-> TRUE, blocks |-> Shards, meta |-> TRUE]
  /\ UNCHANGED <<vars, files, request, stream, follower>>

(* Untar writes the files in the order of Tar's Walk: block/*, then          *)
(* meta.bolt.  The order of the blocks among each other makes no difference. *)
MetaAnyTime == untar.meta  \* mutant: meta.bolt may come before the blocks

MetaTurn == untar.meta /\ untar.blocks = {}

(* An existing file is opened and written from its start.  What is left of a *)
(* longer one lies behind the pages that bolt's header counts.               *)
KeepExisting(c) ==  \* mutant: a file that exists is skipped, as a directory is
  IF follower.data.block[c] # EmptyBlock THEN follower.data.block[c] ELSE stream.archive.block[c]

Unpacked(c) == stream.archive.block[c]

UntarBlock(c) ==
  /\ untar.running /\ c \in untar.blocks
  /\ untar' = [untar EXCEPT !.blocks = @ \ {c}]
  /\ follower' =
       [follower EXCEPT
          !.data.block[c] = Unpacked(c),
          !.data.flushed = (@ \ OfShard(@, c)) \cup OfShard(stream.archive.flushed, c),
          !.exact = @ /\ stream.synced
                      /\ follower.accepted = stream.accepted \cap 1..follower.applied]
  /\ UNCHANGED <<vars, files, request, stream>>

UntarMeta ==
  /\ untar.running /\ MetaTurn
  /\ untar' = [untar EXCEPT !.meta = FALSE]
  /\ follower' = [follower EXCEPT !.data.meta = stream.archive.meta]
  /\ UNCHANGED <<vars, files, request, stream>>

(* RecoverFromSnapshot reads the index it has restored and returns. *)
RecoverReturn ==
  /\ untar.running /\ untar.blocks = {} /\ ~untar.meta
  /\ untar' = NotRecovering
  /\ follower' = [follower EXCEPT !.lastIndex = follower.data.meta, !.applied = stream.label,
                                  !.accepted = stream.accepted]
  /\ UNCHANGED <<vars, files, request, stream>>

-----------------------------------------------------------------------------
(* A step of the sender; a request does not survive its process. *)
SenderStep ==
  /\ Next
  /\ request' = IF up' THEN request ELSE NoSnap
  /\ UNCHANGED <<files, stream, follower, untar>>

SnapNext ==
  \/ SenderStep
  \/ PreparePeriodic
  \/ PrepareStream
  \/ SaveSnapshot
  \/ CatchUp
  \/ FollowerSync
  \/ Reopen
  \/ RecoverStart
  \/ \E c \in Shards : UntarBlock(c)
  \/ UntarMeta
  \/ RecoverReturn

SnapSpec == SnapInit /\ [][SnapNext]_snapVars

-----------------------------------------------------------------------------
(* The follower as its clients see it, in its own queue and blocks. *)
F == INSTANCE ByStateMachine WITH pending <- follower.pending, block <- follower.data.block

(* While a snapshot waits for SaveSnapshot, its file keeps what              *)
(* PrepareSnapshot wrote, although the replica goes on to Sync and other     *)
(* snapshots are prepared: PrepareSnapshot names files after the recorded    *)
(* index, and what is on disk changes only together with it.                 *)
StreamIsAsPrepared ==
  request # NoSnap => files[request.key] = request.archive

(* Wherever Untar stops (RecoverFromSnapshot fails or the process ends), the *)
(* follower has in its blocks every accepted entry that its recorded index   *)
(* covers, because meta.bolt comes last: what a restart does not replay is   *)
(* there.  Only for archives of an empty queue: an archive may be older than *)
(* its label, and than the follower itself.                                  *)
RestoreNeverAhead ==
  follower.exact => follower.accepted \cap 1..follower.data.meta \subseteq follower.data.flushed

(* A snapshot that was prepared with an empty queue and is restored by a     *)
(* replica with an empty queue gives it exactly the documents and parts of   *)
(* the sender at the snapshot's label, whatever its blocks held before.      *)
SyncedBootstrapIsExact ==
  [][RecoverReturn /\ stream.synced /\ follower.pending = <<>>
       => F!Store(F!LivePart, F!LiveDoc) = stream.live]_snapVars

(* README.md: snapshots enable "new nodes to bootstrap from a snapshot       *)
(* rather than replaying the full log", so a node that has restored one is   *)
(* where the log up to the label leads.                                      *)
BootstrapIsExact ==
  [][RecoverReturn => F!Store(F!LivePart, F!LiveDoc) = stream.live]_snapVars
=============================================================================
