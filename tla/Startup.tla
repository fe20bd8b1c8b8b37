------------------------------ MODULE Startup ------------------------------
(***************************************************************************)
(* The start of a node (src/server.go, src/config/config.go, src/dir): the *)
(* configuration, whether to bootstrap the cluster, to join it or to go on *)
(* where the last process left off, and the directories that tell which.   *)
(*                                                                         *)
(* A process may stop between any two steps and is started again with the  *)
(* same command line and file.  Dragonboat is external: NewNodeHost makes  *)
(* and locks the raft directory; StartOnDiskReplica saves, the first time, *)
(* a bootstrap record that says whether the replica joined or with which   *)
(* members it bootstrapped, refuses arguments that do not fit the record,  *)
(* and only then has the state machine created.                            *)
(***************************************************************************)
EXTENDS Naturals, Sequences

CONSTANTS
  Processes,   \* the commands that operators run
  Flags,       \* their options -replicaid, -addr and -gaddr
  Yaml,        \* the file they share: replica_id, address, grpc_address, initial_nodes
  Unset,       \* an option or a key that is not given
  MaxCrash     \* bound: times a process stops by itself

ASSUME StartupAssumption ==
  /\ MaxCrash \in Nat
  /\ \A n \in Processes : Flags[n].replicaid \in Nat \cup {Unset}
  /\ Yaml.replica_id \in Nat \cup {Unset}
  /\ Len(Yaml.initial_nodes) \in Nat

VARIABLES
  proc,     \* of each process: where main is, and what it has decided
  disk,     \* test-run/node-<id>: the raft and the data directory, the bootstrap record
  crashes   \* number of stops

startVars == <<proc, disk, crashes>>

NoRecord == [saved |-> FALSE, join |-> FALSE, members |-> <<>>]

NoProcess == [step |-> "down", id |-> 0, addr |-> "", join |-> FALSE, members |-> <<>>]

-----------------------------------------------------------------------------
(* config. *)

(* LoadConfig parses the flags, reads the file over them, and parses the     *)
(* flags again.                                                              *)
FileLast(flag, key, default) ==  \* mutant: the flags are not parsed again
  IF key # Unset THEN key ELSE IF flag # Unset THEN flag ELSE default

Setting(flag, key, default) ==
  IF flag # Unset THEN flag ELSE IF key # Unset THEN key ELSE default

LoadConfig(n) ==
  [ReplicaId    |-> Setting(Flags[n].replicaid, Yaml.replica_id, 0),
   Address      |-> Setting(Flags[n].addr, Yaml.address, ""),
   GrpcAddress  |-> Setting(Flags[n].gaddr, Yaml.grpc_address, "localhost:64001"),
   InitialNodes |-> Yaml.initial_nodes]

IsInitNode(cnf) == cnf.ReplicaId <= Len(cnf.InitialNodes)

(* Replica ids count from one. *)
FromZero(cnf) ==  \* mutant: idx instead of idx + 1
  [id \in 0..(Len(cnf.InitialNodes) - 1) |-> cnf.InitialNodes[id + 1]]

InitialNodeMap(cnf) == [id \in 1..Len(cnf.InitialNodes) |-> cnf.InitialNodes[id]]

(* Replica 0 passes for an initial node and panics: index out of range. *)
OwnAddress(cnf) == cnf.Address  \* mutant: also for initial nodes

NodeAddress(cnf) ==
  IF ~IsInitNode(cnf) THEN cnf.Address
  ELSE IF cnf.ReplicaId = 0 THEN "" ELSE cnf.InitialNodes[cnf.ReplicaId]

-----------------------------------------------------------------------------
(* main. *)

IdsUsed == {LoadConfig(n).ReplicaId : n \in Processes}

StartInit ==
  /\ proc = [n \in Processes |-> NoProcess]
  /\ disk = [id \in IdsUsed |-> [raft |-> FALSE, data |-> FALSE, record |-> NoRecord]]
  /\ crashes = 0

RaftMissing(id) == ~disk[id].raft  \* mutant: the wrong directory

IsFirstRun(id) == ~disk[id].data

Ended == {"down", "panic", "exit"}

(* Up to the call of NewNodeHost main only reads. *)
Configure(n) ==
  \E cnf \in {LoadConfig(n)} :
    LET first == IsFirstRun(cnf.ReplicaId)
        join  == first /\ ~IsInitNode(cnf)
    IN  /\ proc[n].step \in Ended
        /\ proc' = [proc EXCEPT ![n] =
             [step    |-> IF NodeAddress(cnf) = "" \/ cnf.GrpcAddress = "" THEN "panic"
                          ELSE "configured",
              id      |-> cnf.ReplicaId,
              addr    |-> NodeAddress(cnf),
              join    |-> join,
              members |-> IF first /\ ~join THEN InitialNodeMap(cnf) ELSE <<>>]]
        /\ UNCHANGED <<disk, crashes>>

Locked(n) == \E m \in Processes \ {n} :
  proc[m].id = proc[n].id /\ proc[m].step \in {"host", "recorded", "running"}

NewNodeHost(n) ==
  /\ proc[n].step = "configured"
  /\ IF Locked(n)
     THEN proc' = [proc EXCEPT ![n].step = "panic"] /\ UNCHANGED disk
     ELSE /\ proc' = [proc EXCEPT ![n].step = "host"]
          /\ disk' = [disk EXCEPT ![proc[n].id].raft = TRUE]
  /\ UNCHANGED crashes

(* StartOnDiskReplica up to the creation of the state machine: do the        *)
(* arguments fit what the raft directory says?  (External.)                  *)
Fits(record, join, members) ==
  IF ~record.saved THEN join \/ members # <<>>
  ELSE /\ join => record.join
       /\ members # <<>> => ~record.join /\ members = record.members

StartReplica(n) ==
  /\ proc[n].step = "host"
  /\ \E p \in {proc[n]}, record \in {disk[proc[n].id].record} :
       IF ~Fits(record, p.join, p.members)
       THEN proc' = [proc EXCEPT ![n].step = "exit"] /\ UNCHANGED disk
       ELSE /\ proc' = [proc EXCEPT ![n].step = "recorded"]
            /\ disk' = IF record.saved THEN disk
                       ELSE [disk EXCEPT ![p.id].record =
                               [saved |-> TRUE, join |-> p.join, members |-> p.members]]
  /\ UNCHANGED crashes

(* NewByStateMachine makes the data directory; then the API starts. *)
CreateStateMachine(n) ==
  /\ proc[n].step = "recorded"
  /\ proc' = [proc EXCEPT ![n].step = "running"]
  /\ disk' = [disk EXCEPT ![proc[n].id].data = TRUE]
  /\ UNCHANGED crashes

ProcessStops(n) ==
  /\ proc[n].step \notin Ended /\ crashes < MaxCrash
  /\ proc' = [proc EXCEPT ![n] = NoProcess]
  /\ crashes' = crashes + 1
  /\ UNCHANGED disk

StartStep(n) ==
  \/ Configure(n)
  \/ NewNodeHost(n)
  \/ StartReplica(n)
  \/ CreateStateMachine(n)

StartNext == \E n \in Processes : StartStep(n) \/ ProcessStops(n)

StartSpec == StartInit /\ [][StartNext]_startVars

(* A process runs on, and one that ended is started again. *)
StartFairSpec == StartSpec /\ \A n \in Processes : WF_startVars(StartStep(n))

-----------------------------------------------------------------------------
(* Wherever earlier starts were cut off, Dragonboat accepts what main makes  *)
(* of the directories: nobody is asked to start a replica without members    *)
(* that has none recorded, or to join or bootstrap against its record.       *)
StartNeverRefused == \A n \in Processes : proc[n].step # "exit"

(* The nodes that bootstrap agree on the members, and each is one of them    *)
(* under its own id and the address that it listens on; a node that joins is *)
(* in nobody's list.                                                         *)
Records == {id \in IdsUsed : disk[id].record.saved}

BootstrapsAgree ==
  /\ \A id, jd \in Records :
       LET r == disk[id].record
           s == disk[jd].record
       IN  ~r.join => /\ id \in DOMAIN r.members
                      /\ s.join => jd \notin DOMAIN r.members
                      /\ ~s.join => s.members = r.members
  /\ \A n \in Processes :
       proc[n].step = "running" /\ ~disk[proc[n].id].record.join
         => disk[proc[n].id].record.members[proc[n].id] = proc[n].addr

(* Processes that were given different replica ids never work in one         *)
(* directory, whatever the file that they share says.                        *)
OwnDirectory ==
  \A n, m \in Processes :
    /\ Flags[n].replicaid # Flags[m].replicaid
    /\ Unset \notin {Flags[n].replicaid, Flags[m].replicaid}
    /\ {proc[n].step, proc[m].step} \cap Ended = {}
    => proc[n].id # proc[m].id

(* For every replica id that was given, with an address if it is not an      *)
(* initial node, a process runs in the end, also if two were started for it. *)
EveryNodeRuns ==
  \A n \in Processes :
    \/ Flags[n].replicaid \in 1..Len(Yaml.initial_nodes)
    \/ Flags[n].replicaid \notin {Unset, 0} /\ Flags[n].addr # Unset
    => <>[](\E m \in Processes :
              Flags[m].replicaid = Flags[n].replicaid /\ proc[m].step = "running")
=============================================================================
