---------------------------- MODULE StartupProofs ----------------------------
(***************************************************************************)
(* However many processes are started with whatever options on top of one  *)
(* file, and wherever they stop: Dragonboat refuses none of them, those    *)
(* that bootstrap agree on the members, and different replica ids mean     *)
(* different directories.                                                  *)
(***************************************************************************)
EXTENDS Startup, TLAPS

Started == {"configured", "host", "recorded", "running"}

(* The initial nodes of the file, which every process reads. *)
Nodes == [id \in 1..Len(Yaml.initial_nodes) |-> Yaml.initial_nodes[id]]

Joins(id) == id > Len(Yaml.initial_nodes)

Bootstraps(id) == id \in 1..Len(Yaml.initial_nodes)

(* The fields of a process and of a directory. *)
StartShape ==
  /\ DOMAIN proc = Processes
  /\ \A n \in Processes :
       proc[n] = [step |-> proc[n].step, id |-> proc[n].id, addr |-> proc[n].addr,
                  join |-> proc[n].join, members |-> proc[n].members]
  /\ DOMAIN disk = IdsUsed
  /\ \A id \in IdsUsed :
       disk[id] = [raft |-> disk[id].raft, data |-> disk[id].data, record |-> disk[id].record]

(* What a process decided follows from its own configuration, and what it    *)
(* asks of Dragonboat is what any process of the same id would ask, or       *)
(* nothing if there is a record.                                             *)
Decided(n) ==
  /\ proc[n].id = LoadConfig(n).ReplicaId
  /\ proc[n].addr = NodeAddress(LoadConfig(n))
  /\ Bootstraps(proc[n].id) \/ Joins(proc[n].id)
  /\ proc[n].join => Joins(proc[n].id)
  /\ proc[n].members # <<>> => Bootstraps(proc[n].id) /\ proc[n].members = Nodes
  /\ proc[n].join \/ proc[n].members # <<>> \/ disk[proc[n].id].record.saved

ProcessDecided(n) ==
  /\ proc[n].step \in {"down", "panic"} \cup Started
  /\ proc[n].step \in Started => Decided(n)
  /\ proc[n].step \in {"recorded", "running"} => disk[proc[n].id].record.saved

ProcessesDecided == \A n \in Processes : ProcessDecided(n)

(* A record says what every process of that id says, and there is no data    *)
(* directory without one.                                                    *)
Recorded ==
  \A id \in IdsUsed :
    /\ disk[id].data => disk[id].record.saved
    /\ disk[id].record.saved =>
         \/ disk[id].record.join /\ Joins(id)
         \/ ~disk[id].record.join /\ Bootstraps(id) /\ disk[id].record.members = Nodes

StartInv == StartShape /\ ProcessesDecided /\ Recorded

-----------------------------------------------------------------------------
LEMMA ConfigType ==
  ASSUME NEW n \in Processes
  PROVE  /\ LoadConfig(n).ReplicaId \in Nat /\ LoadConfig(n).ReplicaId \in IdsUsed
         /\ LoadConfig(n).InitialNodes = Yaml.initial_nodes
         /\ Len(Yaml.initial_nodes) \in Nat
<1>1. LoadConfig(n).ReplicaId = Setting(Flags[n].replicaid, Yaml.replica_id, 0)
  BY DEF LoadConfig
<1>2. LoadConfig(n).ReplicaId \in Nat
  BY <1>1, StartupAssumption DEF Setting
<1>3. LoadConfig(n).ReplicaId \in IdsUsed
  BY DEF IdsUsed
<1> QED BY <1>2, <1>3, StartupAssumption DEF LoadConfig

(* main gets past the address. *)
Addressed(cnf) == NodeAddress(cnf) # ""

LEMMA AddressedId ==
  ASSUME NEW cnf, Addressed(cnf), IsInitNode(cnf)
  PROVE  cnf.ReplicaId # 0
BY Zenon DEF Addressed, NodeAddress

(* A process that does has a proper replica id. *)
LEMMA ProperId ==
  ASSUME NEW n \in Processes, Addressed(LoadConfig(n))
  PROVE  LET id == LoadConfig(n).ReplicaId
         IN  /\ IsInitNode(LoadConfig(n)) => Bootstraps(id) /\ NodeAddress(LoadConfig(n)) = Nodes[id]
             /\ ~IsInitNode(LoadConfig(n)) => Joins(id)
<1> DEFINE cnf == LoadConfig(n)
<1>1. cnf.ReplicaId \in Nat /\ cnf.InitialNodes = Yaml.initial_nodes /\ Len(Yaml.initial_nodes) \in Nat
  BY ConfigType
<1> HIDE DEF cnf
<1>2. IsInitNode(cnf) => cnf.ReplicaId # 0
  BY AddressedId DEF cnf
<1> DEFINE r == cnf.ReplicaId
           k == Len(Yaml.initial_nodes)
<1>3. r \in Nat /\ k \in Nat
  BY <1>1
<1>4. IsInitNode(cnf) <=> r <= k
  BY <1>1 DEF IsInitNode
<1>5. Joins(r) <=> r > k
  BY DEF Joins
<1>6. Bootstraps(r) <=> r \in 1..k
  BY DEF Bootstraps
<1> HIDE DEF r, k
<1>7. ASSUME IsInitNode(cnf) PROVE Bootstraps(cnf.ReplicaId) /\ NodeAddress(cnf) = Nodes[cnf.ReplicaId]
  <2>1. cnf.ReplicaId # 0
    BY <1>2, <1>7
  <2>2. r \in 1..k
    <3>1. r # 0
      BY <2>1 DEF r
    <3>2. r <= k
      BY <1>7, <1>4
    <3> QED BY <1>3, <3>1, <3>2
  <2>3. NodeAddress(cnf) = Yaml.initial_nodes[cnf.ReplicaId]
    BY <1>1, <1>7, <2>1 DEF NodeAddress
  <2> QED BY <1>6, <2>2, <2>3 DEF r, k, Nodes
<1>8. ASSUME ~IsInitNode(cnf) PROVE Joins(cnf.ReplicaId)
  <2>1. r > k
    BY <1>8, <1>3, <1>4
  <2> QED BY <1>5, <2>1 DEF r
<1> QED BY <1>7, <1>8 DEF cnf

LEMMA Exclusive ==
  ASSUME NEW id
  PROVE  Bootstraps(id) => ~Joins(id)
  BY StartupAssumption DEF Bootstraps, Joins

LEMMA BootstrapAddress ==
  ASSUME NEW n \in Processes, Bootstraps(LoadConfig(n).ReplicaId)
  PROVE  NodeAddress(LoadConfig(n)) = Nodes[LoadConfig(n).ReplicaId]
<1> DEFINE cnf == LoadConfig(n)
           r == cnf.ReplicaId
           k == Len(Yaml.initial_nodes)
<1>1. r \in Nat /\ cnf.InitialNodes = Yaml.initial_nodes /\ k \in Nat
  BY ConfigType
<1>2. r \in 1..k
  BY DEF Bootstraps
<1>3. (IsInitNode(cnf) <=> r <= k) /\ Nodes[r] = Yaml.initial_nodes[r]
  BY <1>1, <1>2 DEF IsInitNode, Nodes
<1> HIDE DEF k
<1>4. r <= k /\ r # 0
  <2> HIDE DEF r
  <2> QED BY <1>1, <1>2
<1> QED BY <1>1, <1>3, <1>4 DEF NodeAddress

LEMMA NodesSome ==
  ASSUME NEW id, Bootstraps(id)
  PROVE  Nodes # <<>> /\ DOMAIN Nodes = 1..Len(Yaml.initial_nodes)
<1>1. id \in DOMAIN Nodes
  BY DEF Bootstraps, Nodes
<1>2. DOMAIN <<>> = {}
  OBVIOUS
<1> QED BY <1>1, <1>2 DEF Nodes

-----------------------------------------------------------------------------
(* A step of one process leaves the others as they were; a record stays.     *)
LEMMA OthersDecided ==
  ASSUME StartInv, NEW m \in Processes, proc'[m] = proc[m],
         \A id \in IdsUsed : disk[id].record.saved => disk'[id].record.saved
  PROVE  ProcessDecided(m)'
<1>1. ProcessDecided(m)
  BY DEF StartInv, ProcessesDecided
<1>2. proc[m].step \in Started => proc[m].id \in IdsUsed
  BY <1>1, ConfigType DEF ProcessDecided, Decided
<1>3. proc[m].step \in {"recorded", "running"} => proc[m].step \in Started
  BY DEF Started
<1> QED BY <1>1, <1>2, <1>3 DEF ProcessDecided, Decided

LEMMA StartConfigure ==
  ASSUME StartInv, NEW n \in Processes, Configure(n)
  PROVE  StartInv'
<1> DEFINE cnf == LoadConfig(n)
           first == IsFirstRun(cnf.ReplicaId)
           join == first /\ ~IsInitNode(cnf)
           members == IF first /\ ~join THEN InitialNodeMap(cnf) ELSE <<>>
           step == IF NodeAddress(cnf) = "" \/ cnf.GrpcAddress = "" THEN "panic" ELSE "configured"
<1>1. /\ disk' = disk
      /\ proc' = [proc EXCEPT ![n] = [step |-> step, id |-> cnf.ReplicaId, addr |-> NodeAddress(cnf),
                                      join |-> join, members |-> members]]
  BY DEF Configure
<1>2. step \in {"panic", "configured"} /\ (step = "configured" => Addressed(cnf))
  BY Zenon DEF Addressed
<1> HIDE DEF step
<1>3. /\ proc'[n].step = step /\ proc'[n].id = cnf.ReplicaId /\ proc'[n].addr = NodeAddress(cnf)
      /\ proc'[n].join = join /\ proc'[n].members = members
  BY <1>1 DEF StartInv, StartShape
<1>4. cnf.ReplicaId \in IdsUsed /\ InitialNodeMap(cnf) = Nodes
  BY ConfigType DEF InitialNodeMap, Nodes
<1>5. first <=> ~disk[cnf.ReplicaId].data
  BY DEF IsFirstRun
<1>6. join <=> first /\ ~IsInitNode(cnf)
  OBVIOUS
<1>7. members = IF first /\ IsInitNode(cnf) THEN Nodes ELSE <<>>
  BY <1>4
<1>8. step = "configured" =>
        /\ IsInitNode(cnf) => Bootstraps(cnf.ReplicaId) /\ Nodes # <<>>
        /\ ~IsInitNode(cnf) => Joins(cnf.ReplicaId)
  BY <1>2, ProperId, NodesSome
<1> HIDE DEF cnf, first, join, members
<1>9. step = "configured" => Decided(n)'
  <2>1. ~first => disk[cnf.ReplicaId].record.saved
    BY <1>4, <1>5 DEF StartInv, Recorded
  <2>2. proc'[n].join <=> join
    BY <1>3
  <2>3. step = "configured" => Bootstraps(cnf.ReplicaId) \/ Joins(cnf.ReplicaId)
    BY <1>8
  <2>4. step = "configured" /\ join => Joins(cnf.ReplicaId)
    BY <1>6, <1>8
  <2>5. step = "configured" /\ members # <<>> => Bootstraps(cnf.ReplicaId) /\ members = Nodes
    BY <1>7, <1>8
  <2>6. step = "configured" => join \/ members # <<>> \/ disk[cnf.ReplicaId].record.saved
    BY <1>6, <1>7, <1>8, <2>1
  <2> QED BY <1>1, <1>3, <2>2, <2>3, <2>4, <2>5, <2>6 DEF Decided, cnf
<1>10. ProcessDecided(n)'
  BY <1>2, <1>3, <1>9 DEF ProcessDecided, Started
<1>11. \A m \in Processes : ProcessDecided(m)'
  <2> SUFFICES ASSUME NEW m \in Processes, m # n PROVE ProcessDecided(m)'
    BY <1>10
  <2>1. proc'[m] = proc[m]
    BY <1>1 DEF StartInv, StartShape
  <2> QED BY <1>1, <2>1, OthersDecided
<1>12. StartShape'
  BY <1>1 DEF StartInv, StartShape
<1> QED BY <1>1, <1>11, <1>12 DEF StartInv, ProcessesDecided, Recorded

(* A step that changes nothing of a process but how far it is. *)
LEMMA StepOnly ==
  ASSUME StartInv, NEW n \in Processes, NEW step, proc' = [proc EXCEPT ![n].step = step]
  PROVE  /\ proc'[n].step = step /\ proc'[n].id = proc[n].id /\ proc'[n].addr = proc[n].addr
         /\ proc'[n].join = proc[n].join /\ proc'[n].members = proc[n].members
         /\ \A m \in Processes \ {n} : proc'[m] = proc[m]
         /\ DOMAIN proc' = Processes
         /\ \A m \in Processes :
              proc'[m] = [step |-> proc'[m].step, id |-> proc'[m].id, addr |-> proc'[m].addr,
                          join |-> proc'[m].join, members |-> proc'[m].members]
<1>1. proc[n] = [step |-> proc[n].step, id |-> proc[n].id, addr |-> proc[n].addr,
                 join |-> proc[n].join, members |-> proc[n].members]
  BY DEF StartInv, StartShape
<1>2. proc'[n] = [step |-> step, id |-> proc[n].id, addr |-> proc[n].addr,
                  join |-> proc[n].join, members |-> proc[n].members]
  BY <1>1 DEF StartInv, StartShape
<1>3. DOMAIN proc' = Processes /\ \A m \in Processes \ {n} : proc'[m] = proc[m]
  BY DEF StartInv, StartShape
<1> QED BY <1>2, <1>3 DEF StartInv, StartShape

LEMMA StartNodeHost ==
  ASSUME StartInv, NEW n \in Processes, NewNodeHost(n)
  PROVE  StartInv'
<1> DEFINE id == proc[n].id
<1>1. PICK step \in {"panic", "host"} : proc' = [proc EXCEPT ![n].step = step]
  BY DEF NewNodeHost
<1>2. proc[n].step = "configured" /\ Decided(n)
  BY DEF NewNodeHost, StartInv, ProcessesDecided, ProcessDecided, Started
<1>3. id \in IdsUsed
  BY <1>2, ConfigType DEF Decided
<1>4. disk' = disk \/ disk' = [disk EXCEPT ![id].raft = TRUE]
  BY DEF NewNodeHost
<1>5. /\ DOMAIN disk' = IdsUsed
      /\ \A jd \in IdsUsed :
           /\ disk'[jd].record = disk[jd].record /\ disk'[jd].data = disk[jd].data
           /\ disk'[jd] = [raft |-> disk'[jd].raft, data |-> disk'[jd].data, record |-> disk'[jd].record]
  BY <1>3, <1>4 DEF StartInv, StartShape
<1> HIDE DEF id
<1>6. /\ proc'[n].step = step /\ proc'[n].id = proc[n].id /\ proc'[n].addr = proc[n].addr
      /\ proc'[n].join = proc[n].join /\ proc'[n].members = proc[n].members
      /\ \A m \in Processes \ {n} : proc'[m] = proc[m]
  BY <1>1, StepOnly
<1>7. StartShape'
  <2>1. /\ DOMAIN proc' = Processes
        /\ \A m \in Processes :
              proc'[m] = [step |-> proc'[m].step, id |-> proc'[m].id, addr |-> proc'[m].addr,
                          join |-> proc'[m].join, members |-> proc'[m].members]
    BY <1>1, StepOnly
  <2> QED BY <1>5, <2>1 DEF StartShape
<1>8. Recorded'
  BY <1>5 DEF StartInv, Recorded
<1>9. ProcessDecided(n)'
  <2>1. Decided(n)'
    BY <1>2, <1>3, <1>5, <1>6 DEF Decided, id
  <2>2. step \in {"down", "panic"} \cup Started /\ step \notin {"recorded", "running"}
    BY <1>1 DEF Started
  <2> QED BY <1>6, <2>1, <2>2 DEF ProcessDecided
<1>10. ASSUME NEW m \in Processes, m # n PROVE ProcessDecided(m)'
  BY <1>5, <1>6, <1>10, OthersDecided
<1> QED BY <1>7, <1>8, <1>9, <1>10 DEF StartInv, ProcessesDecided

(* Dragonboat takes what main asks for. *)
LEMMA FitsRecord ==
  ASSUME StartInv, NEW n \in Processes, proc[n].step = "host"
  PROVE  Fits(disk[proc[n].id].record, proc[n].join, proc[n].members)
<1> DEFINE id == proc[n].id
           r == disk[proc[n].id].record
<1>1. Decided(n) /\ id \in IdsUsed
  BY ConfigType DEF StartInv, ProcessesDecided, ProcessDecided, Started, Decided
<1>2. CASE ~r.saved
  BY <1>1, <1>2 DEF Decided, Fits
<1>3. CASE r.saved
  <2>1. \/ r.join /\ Joins(id)
        \/ ~r.join /\ Bootstraps(id) /\ r.members = Nodes
    BY <1>1, <1>3 DEF StartInv, Recorded
  <2>2. proc[n].join => Joins(id)
    BY <1>1 DEF Decided
  <2>3. proc[n].members # <<>> => Bootstraps(id) /\ proc[n].members = Nodes
    BY <1>1 DEF Decided
  <2>4. Bootstraps(id) => ~Joins(id)
    BY Exclusive
  <2> HIDE DEF id
  <2> QED BY <1>3, <2>1, <2>2, <2>3, <2>4 DEF Fits
<1> QED BY <1>2, <1>3

LEMMA StartReplicaStep ==
  ASSUME StartInv, NEW n \in Processes, StartReplica(n)
  PROVE  StartInv'
<1> DEFINE id == proc[n].id
           new == [saved |-> TRUE, join |-> proc[n].join, members |-> proc[n].members]
<1>1. proc[n].step = "host" /\ Decided(n) /\ id \in IdsUsed
  BY ConfigType DEF StartReplica, StartInv, ProcessesDecided, ProcessDecided, Started, Decided
<1>2. /\ proc' = [proc EXCEPT ![n].step = "recorded"]
      /\ disk' = IF disk[id].record.saved THEN disk ELSE [disk EXCEPT ![id].record = new]
  BY <1>1, FitsRecord DEF StartReplica
<1> HIDE DEF id, new
<1>3. /\ proc'[n].step = "recorded" /\ proc'[n].id = proc[n].id /\ proc'[n].addr = proc[n].addr
      /\ proc'[n].join = proc[n].join /\ proc'[n].members = proc[n].members
      /\ \A m \in Processes \ {n} : proc'[m] = proc[m]
  BY <1>2, StepOnly
<1>4. /\ DOMAIN disk' = IdsUsed
      /\ \A jd \in IdsUsed :
           /\ disk'[jd].data = disk[jd].data
           /\ disk'[jd].record = IF jd = id /\ ~disk[id].record.saved THEN new ELSE disk[jd].record
           /\ disk'[jd] = [raft |-> disk'[jd].raft, data |-> disk'[jd].data, record |-> disk'[jd].record]
  BY <1>1, <1>2 DEF StartInv, StartShape
<1>5. new.saved /\ new.join = proc[n].join /\ new.members = proc[n].members
  BY DEF new
<1>6. \A jd \in IdsUsed : disk[jd].record.saved => disk'[jd].record.saved
  BY <1>4, <1>5
<1>7. disk'[id].record.saved
  BY <1>1, <1>4, <1>5
<1>8. StartShape'
  <2>1. /\ DOMAIN proc' = Processes
        /\ \A m \in Processes :
              proc'[m] = [step |-> proc'[m].step, id |-> proc'[m].id, addr |-> proc'[m].addr,
                          join |-> proc'[m].join, members |-> proc'[m].members]
    BY <1>2, StepOnly
  <2> QED BY <1>4, <2>1 DEF StartShape
<1>9. Recorded'
  <2>1. ~disk[id].record.saved =>
          \/ new.join /\ Joins(id)
          \/ ~new.join /\ Bootstraps(id) /\ new.members = Nodes
    BY <1>1, <1>5 DEF Decided, id
  <2> SUFFICES ASSUME NEW jd \in IdsUsed
               PROVE  /\ disk'[jd].data => disk'[jd].record.saved
                      /\ disk'[jd].record.saved =>
                           \/ disk'[jd].record.join /\ Joins(jd)
                           \/ ~disk'[jd].record.join /\ Bootstraps(jd) /\ disk'[jd].record.members = Nodes
    BY DEF Recorded
  <2>2. CASE jd = id /\ ~disk[id].record.saved
    BY <1>4, <1>5, <2>1, <2>2
  <2>3. CASE ~(jd = id /\ ~disk[id].record.saved)
    BY <1>4, <2>3 DEF StartInv, Recorded
  <2> QED BY <2>2, <2>3
<1>10. ProcessDecided(n)'
  <2>1. Decided(n)'
    BY <1>1, <1>3, <1>7 DEF Decided, id
  <2> QED BY <1>3, <1>7, <2>1 DEF ProcessDecided, Started, id
<1>11. ASSUME NEW m \in Processes, m # n PROVE ProcessDecided(m)'
  BY <1>3, <1>6, <1>11, OthersDecided
<1> QED BY <1>8, <1>9, <1>10, <1>11 DEF StartInv, ProcessesDecided

LEMMA StartCreate ==
  ASSUME StartInv, NEW n \in Processes, CreateStateMachine(n)
  PROVE  StartInv'
<1> DEFINE id == proc[n].id
<1>1. /\ proc[n].step = "recorded"
      /\ proc' = [proc EXCEPT ![n].step = "running"]
      /\ disk' = [disk EXCEPT ![id].data = TRUE]
  BY DEF CreateStateMachine
<1>2. Decided(n) /\ id \in IdsUsed /\ disk[id].record.saved
  BY <1>1, ConfigType DEF StartInv, ProcessesDecided, ProcessDecided, Started, Decided
<1> HIDE DEF id
<1>3. /\ proc'[n].step = "running" /\ proc'[n].id = proc[n].id /\ proc'[n].addr = proc[n].addr
      /\ proc'[n].join = proc[n].join /\ proc'[n].members = proc[n].members
      /\ \A m \in Processes \ {n} : proc'[m] = proc[m]
  BY <1>1, StepOnly
<1>4. /\ DOMAIN disk' = IdsUsed
      /\ \A jd \in IdsUsed :
           /\ disk'[jd].record = disk[jd].record
           /\ disk'[jd].data => disk[jd].data \/ jd = id
           /\ disk'[jd] = [raft |-> disk'[jd].raft, data |-> disk'[jd].data, record |-> disk'[jd].record]
  <2>1. disk[id] = [raft |-> disk[id].raft, data |-> disk[id].data, record |-> disk[id].record]
    BY <1>2 DEF StartInv, StartShape
  <2>2. disk'[id] = [raft |-> disk[id].raft, data |-> TRUE, record |-> disk[id].record]
    BY <1>1, <1>2, <2>1 DEF StartInv, StartShape
  <2>3. DOMAIN disk' = IdsUsed /\ \A jd \in IdsUsed \ {id} : disk'[jd] = disk[jd]
    BY <1>1 DEF StartInv, StartShape
  <2>4. \A jd \in IdsUsed :
          disk[jd] = [raft |-> disk[jd].raft, data |-> disk[jd].data, record |-> disk[jd].record]
    BY DEF StartInv, StartShape
  <2>5. disk'[id].record = disk[id].record
        /\ disk'[id] = [raft |-> disk'[id].raft, data |-> disk'[id].data, record |-> disk'[id].record]
    BY <2>2
  <2> QED BY <2>3, <2>4, <2>5
<1>5. StartShape'
  <2>1. /\ DOMAIN proc' = Processes
        /\ \A m \in Processes :
              proc'[m] = [step |-> proc'[m].step, id |-> proc'[m].id, addr |-> proc'[m].addr,
                          join |-> proc'[m].join, members |-> proc'[m].members]
    BY <1>1, StepOnly
  <2> QED BY <1>4, <2>1 DEF StartShape
<1>6. Recorded'
  BY <1>2, <1>4 DEF StartInv, Recorded
<1>7. ProcessDecided(n)'
  <2>1. Decided(n)'
    BY <1>2, <1>3, <1>4 DEF Decided, id
  <2> QED BY <1>2, <1>3, <1>4, <2>1 DEF ProcessDecided, Started, id
<1>8. ASSUME NEW m \in Processes, m # n PROVE ProcessDecided(m)'
  BY <1>3, <1>4, <1>8, OthersDecided
<1> QED BY <1>5, <1>6, <1>7, <1>8 DEF StartInv, ProcessesDecided

LEMMA StartStops ==
  ASSUME StartInv, NEW n \in Processes, ProcessStops(n)
  PROVE  StartInv'
<1>1. proc' = [proc EXCEPT ![n] = NoProcess] /\ disk' = disk
  BY DEF ProcessStops
<1>2. proc'[n] = NoProcess /\ \A m \in Processes \ {n} : proc'[m] = proc[m]
  BY <1>1 DEF StartInv, StartShape
<1>3. StartShape'
  BY <1>1 DEF StartInv, StartShape, NoProcess
<1>4. ProcessDecided(n)'
  <2>1. NoProcess.step = "down"
    BY DEF NoProcess
  <2> QED BY <1>2, <2>1 DEF ProcessDecided, Started
<1>5. ASSUME NEW m \in Processes, m # n PROVE ProcessDecided(m)'
  BY <1>1, <1>2, <1>5, OthersDecided
<1> QED BY <1>1, <1>3, <1>4, <1>5 DEF StartInv, ProcessesDecided, Recorded

LEMMA StartInvariant == StartSpec => []StartInv
<1>1. StartInit => StartInv
  <2> SUFFICES ASSUME StartInit PROVE StartInv
    OBVIOUS
  <2>1. StartShape
    BY DEF StartInit, StartShape, NoProcess
  <2>2. ProcessesDecided
    BY DEF StartInit, ProcessesDecided, ProcessDecided, NoProcess, Started
  <2>3. Recorded
    BY DEF StartInit, Recorded, NoRecord
  <2> QED BY <2>1, <2>2, <2>3 DEF StartInv
<1>2. StartInv /\ [StartNext]_startVars => StartInv'
  <2> SUFFICES ASSUME StartInv, [StartNext]_startVars PROVE StartInv'
    OBVIOUS
  <2>1. ASSUME UNCHANGED startVars PROVE StartInv'
    BY <2>1 DEF startVars, StartInv, StartShape, ProcessesDecided, ProcessDecided, Decided, Recorded
  <2> QED BY <2>1, StartConfigure, StartNodeHost, StartReplicaStep, StartCreate, StartStops
          DEF StartNext, StartStep
<1> QED BY <1>1, <1>2, PTL DEF StartSpec

(* Dragonboat refuses no start: wherever earlier ones were cut off, also     *)
(* between the bootstrap record and the data directory, main asks for what   *)
(* the record says.                                                          *)
THEOREM StartNeverRefusedCorrect == StartSpec => []StartNeverRefused
<1>1. StartInv => StartNeverRefused
  BY DEF StartInv, ProcessesDecided, ProcessDecided, StartNeverRefused, Started
<1> QED BY <1>1, StartInvariant, PTL

(* The nodes that bootstrap agree on the members, each is one of them under  *)
(* its own id and the address it listens on, and who joins is none of them.  *)
THEOREM BootstrapsAgreeCorrect == StartSpec => []BootstrapsAgree
<1>1. StartInv => BootstrapsAgree
  <2> SUFFICES ASSUME StartInv PROVE BootstrapsAgree
    OBVIOUS
  <2>1. \A id \in Records :
          \/ disk[id].record.join /\ Joins(id)
          \/ ~disk[id].record.join /\ Bootstraps(id) /\ disk[id].record.members = Nodes
    BY DEF StartInv, Recorded, Records
  <2>2. \A id : Bootstraps(id) => id \in DOMAIN Nodes /\ ~Joins(id)
    BY NodesSome, Exclusive DEF Bootstraps
  <2>3. \A id : Joins(id) => id \notin DOMAIN Nodes
    BY <2>2 DEF Nodes, Bootstraps
  <2>4. ASSUME NEW n \in Processes, proc[n].step = "running", ~disk[proc[n].id].record.join
        PROVE  disk[proc[n].id].record.members[proc[n].id] = proc[n].addr
    <3>1. Decided(n) /\ disk[proc[n].id].record.saved /\ proc[n].id \in IdsUsed
      BY <2>4, ConfigType DEF StartInv, ProcessesDecided, ProcessDecided, Started, Decided
    <3>2. Bootstraps(proc[n].id) /\ disk[proc[n].id].record.members = Nodes
      BY <2>1, <2>4, <3>1 DEF Records
    <3>3. proc[n].addr = Nodes[proc[n].id]
      BY <3>1, <3>2, BootstrapAddress DEF Decided
    <3> QED BY <3>2, <3>3
  <2> QED BY <2>1, <2>2, <2>3, <2>4 DEF BootstrapsAgree
<1> QED BY <1>1, StartInvariant, PTL

(* Processes that were given different replica ids never work in one         *)
(* directory.                                                                *)
THEOREM OwnDirectoryCorrect == StartSpec => []OwnDirectory
<1>1. StartInv => OwnDirectory
  <2> SUFFICES ASSUME StartInv, NEW n \in Processes, NEW m \in Processes,
                      Flags[n].replicaid # Flags[m].replicaid,
                      Unset \notin {Flags[n].replicaid, Flags[m].replicaid},
                      {proc[n].step, proc[m].step} \cap Ended = {}
               PROVE  proc[n].id # proc[m].id
    BY DEF OwnDirectory
  <2>1. proc[n].id = LoadConfig(n).ReplicaId /\ proc[m].id = LoadConfig(m).ReplicaId
    BY DEF StartInv, ProcessesDecided, ProcessDecided, Decided, Ended
  <2>2. LoadConfig(n).ReplicaId = Flags[n].replicaid /\ LoadConfig(m).ReplicaId = Flags[m].replicaid
    BY DEF LoadConfig, Setting
  <2> QED BY <2>1, <2>2
<1> QED BY <1>1, StartInvariant, PTL
=============================================================================
