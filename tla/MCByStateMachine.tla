-------------------------- MODULE MCByStateMachine --------------------------
(***************************************************************************)
(* Instances of ByStateMachine for TLC.                                    *)
(***************************************************************************)
EXTENDS ByStateMachine

\* Names.  Part "_" has no shard: its first rune is not in the alphabet.
A == <<"a">>
B == <<"b">>
U == <<"_">>
X == <<"x">>

OneShard  == {"a"}
TwoShards == {"a", "b"}
OnePart   == {A}
TwoParts  == {A, B}
AllParts  == {A, B, U}
OneId     == {X}
NoId      == <<"">>
OddIds    == {NoId, X}
RuneOf    == [p \in Parts |-> p[1]]

Doc(u) == [updated |-> u, body |-> "v"]

\* One document, every kind of command, and stamps that come back.
DocCommands ==
  {CREATE_PART(A), DELETE_PART(A), POST(A, X, Doc(1)),
   PUT(A, X, 1, Doc(2)), PUT(A, X, 2, Doc(1)), DEL(A, X, 1)}

\* Two shards and a part without one, for batches and partial flushes.
ShardCommands ==
  {CREATE_PART(A), DELETE_PART(A), POST(A, X, Doc(1)),
   CREATE_PART(B), POST(B, NoId, Doc(1)), CREATE_PART(U)}

\* A part without a shard beside one that has one.
LiveCommands == {CREATE_PART(A), POST(A, X, Doc(1)), CREATE_PART(U)}

\* A document that is deleted and posted again.
RetryCommands == {CREATE_PART(A), POST(A, X, Doc(1)), DEL(A, X, 1)}
=============================================================================
