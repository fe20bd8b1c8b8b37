------------------------------- MODULE Search -------------------------------
(***************************************************************************)
(* A SEARCH served by Lookup (src/statemachine/statemachine.go and         *)
(* Search of src/statemachine/shard.go) while Update and Sync run.  It     *)
(* reads the index first and the block afterwards, and neither the two     *)
(* reads nor a Sync in between are under a lock.                           *)
(*                                                                         *)
(* The words of the query are such that every document matches them; what  *)
(* is modelled is the clause for the part that Search puts before them.    *)
(***************************************************************************)
EXTENDS ByStateMachine

CONSTANT SearchParts  \* the parts that SEARCHes are about

VARIABLE search       \* the SEARCH being served

searchVars == <<vars, search>>

(* hits are keys of the index, matches ids of documents of the part; stable  *)
(* holds the ids that index and block have both had since the call (history).*)
NoSearch == [step |-> "none", part |-> <<>>, hits |-> {}, matches |-> {}, stable |-> {}]

(* The fields of a document that createDefaultMapping indexes: the mapping   *)
(* is static, so a field that it does not name is not indexed.               *)
IndexedFields == {"index", "categories"}

(* "+part:<part>": the field part must hold the part. *)
PartClause(f, p) ==
  /\ "part" \in IndexedFields
  /\ \E id \in Ids : f = FullId(p, id)

Hits(ix, p) == {f \in FullIds : ix[f] # NoDoc /\ PartClause(f, p)}

(* The documents of the part that are both flushed and indexed. *)
Stored(p) ==
  {id \in Ids : /\ FirstRune[p] \in Shards
                /\ DiskDoc(p, id) # NoDoc
                /\ index[FirstRune[p]][FullId(p, id)] = DiskDoc(p, id)}

SearchInit == Init /\ search = NoSearch

(* LookupSearchRequest returns an error when the part has no shard. *)
SearchStart(p) ==
  /\ up /\ search.step = "none"
  /\ search' = [NoSearch EXCEPT !.step = IF FirstRune[p] \in Shards THEN "index" ELSE "error",
                                !.part = p, !.stable = Stored(p)]
  /\ UNCHANGED vars

SearchIndex ==
  /\ search.step = "index"
  /\ search' = [search EXCEPT !.step = "block",
                              !.hits = Hits(index[FirstRune[search.part]], search.part)]
  /\ UNCHANGED vars

(* One View transaction; a hit that the bucket does not have is skipped. *)
SearchBlock ==
  /\ search.step = "block"
  /\ search' = [search EXCEPT !.step = "done",
                              !.matches = {id \in Ids : /\ FullId(search.part, id) \in search.hits
                                                        /\ DiskDoc(search.part, id) # NoDoc}]
  /\ UNCHANGED vars

SearchReturn ==
  /\ search.step \in {"done", "error"}
  /\ search' = NoSearch
  /\ UNCHANGED vars

(* A step of the rest of the replica. *)
SearchObserve ==
  \/ search.step = "none" /\ search' = search
  \/ search.step # "none" /\ ~up' /\ search' = NoSearch
  \/ /\ search.step # "none" /\ up'
     /\ \E p \in {search.part} : search' = [search EXCEPT !.stable = @ \cap Stored(p)']

SearchNext ==
  \/ Next /\ SearchObserve
  \/ \E p \in SearchParts : SearchStart(p)
  \/ SearchIndex
  \/ SearchBlock
  \/ SearchReturn

SearchSpec == SearchInit /\ [][SearchNext]_searchVars

-----------------------------------------------------------------------------
(* README.md: SEARCH is a "Full-text search within a partition": a document  *)
(* that matches, and that block and index have both held since before the    *)
(* call, is among the matches.                                               *)
SearchFinds ==
  search.step = "done" => search.stable \subseteq search.matches
=============================================================================
