----------------------------- MODULE MCPreseed -----------------------------
(***************************************************************************)
(* Instances of Preseed for TLC.                                           *)
(***************************************************************************)
EXTENDS Preseed, MCByStateMachine

Y == <<"y">>

\* All partitions start with the same rune.
Runes     == [p \in Parts |-> "a"]
TwoIds    == {X, Y}

TwoWords == <<X, Y>>

Partition == <<A>>

AnyKey == Parts \X Ids

SeedCommands ==
  {CREATE_PART(p) : p \in Parts} \cup {DELETE_PART(p) : p \in Parts}
    \cup {POST(p, id, Seeded(CreateTime)) : p \in Parts, id \in Ids}
    \cup {PUT(p, id, CreateTime, Seeded(UpdateTime)) : p \in Parts, id \in Ids}
    \cup {DEL(p, id, UpdateTime) : p \in Parts, id \in Ids}
=============================================================================
