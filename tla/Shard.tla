------------------------------- MODULE Shard -------------------------------
(***************************************************************************)
(* One shard (src/statemachine/shard.go): a BoltDB file, the block, that   *)
(* holds a bucket per part, and a Bleve index over the documents of all    *)
(* the parts of the shard.  The shard itself keeps no state in memory, so  *)
(* its operations are operators on the contents of the two stores.         *)
(*                                                                         *)
(* Within a bucket FullId is injective in the id, so a bucket is a         *)
(* function of ids; the index is shared by the parts, so it is a function  *)
(* of full ids and keeps the collisions that FullId allows.                *)
(***************************************************************************)
EXTENDS Command

NoDocs == [id \in Ids |-> NoDoc]

(* A block: the buckets that exist and the documents in them. *)
Blocks == [buckets : SUBSET Parts, docs : [Parts -> [Ids -> DocOrNil]]]

EmptyBlock == [buckets |-> {}, docs |-> [p \in Parts |-> NoDocs]]

Indexes == [FullIds -> DocOrNil]

EmptyIndex == [f \in FullIds |-> NoDoc]

(* The document a View transaction finds; the documents of a bucket that     *)
(* does not exist are nil.                                                   *)
GetDocumentString(block, p, id) ==
  IF p \in block.buckets THEN block.docs[p][id] ELSE NoDoc

(* What Update knows of the state an entry will meet: updateEntry's          *)
(* PartExists and ExistingDoc.                                               *)
Existing == [partExists : BOOLEAN, doc : DocOrNil \cup {EmptyDoc}]

(* FindExistingDocumentsForUpdates, for one entry.  An entry whose document  *)
(* came from the pending queue is skipped; for any other one the block       *)
(* overrides what the queue said of the part.                                *)
FindExistingDocument(block, cmd, found) ==
  IF found.doc # NoDoc THEN found
  ELSE [partExists |-> cmd.part \in block.buckets,
        doc        |-> IF IsPart(cmd) THEN NoDoc
                       ELSE GetDocumentString(block, cmd.part, cmd.id)]

(* ApplyUpdates, one entry of its loop.  tx is the block that the bolt       *)
(* transaction is building, ix the index as the batch will leave it: a Bleve *)
(* batch keeps the last operation on a document, and nothing but this        *)
(* transaction writes the index of the shard.  Every command but CREATE_PART *)
(* dereferences the bucket, which is nil when the part has none.             *)
NilBucket(tx, cmd) == cmd.type # "CREATE_PART" /\ cmd.part \notin tx.buckets

ApplyToBlock(tx, cmd) ==
  CASE cmd.type = "CREATE_PART" -> [tx EXCEPT !.buckets = @ \cup {cmd.part}]
    [] cmd.type = "DELETE_PART" -> [buckets |-> tx.buckets \ {cmd.part},
                                    docs    |-> [tx.docs EXCEPT ![cmd.part] = NoDocs]]
    [] cmd.type = "DEL"         -> [tx EXCEPT !.docs[cmd.part][cmd.id] = NoDoc]
    [] OTHER                    -> [tx EXCEPT !.docs[cmd.part][cmd.id] = cmd.doc]

(* The keys that DELETE_PART's cursor walks over. *)
NoBucketKeys(tx, p) == {}  \* mutant: the bucket goes, its index entries stay

BucketKeys(tx, p) == {FullId(p, id) : id \in {i \in Ids : tx.docs[p][i] # NoDoc}}

ApplyToIndex(tx, ix, cmd) ==
  CASE cmd.type = "CREATE_PART" -> ix
    [] cmd.type = "DELETE_PART" ->
         [f \in FullIds |-> IF f \in BucketKeys(tx, cmd.part) THEN NoDoc ELSE ix[f]]
    [] cmd.type = "DEL"         -> [ix EXCEPT ![FullId(cmd.part, cmd.id)] = NoDoc]
    [] OTHER                    -> [ix EXCEPT ![FullId(cmd.part, cmd.id)] = cmd.doc]
=============================================================================
