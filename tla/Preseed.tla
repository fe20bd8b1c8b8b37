------------------------------ MODULE Preseed ------------------------------
(***************************************************************************)
(* The load generator (src/preseed.go) against one replica: main creates   *)
(* the partitions, runs a POST, a GET, a PUT and a DEL batch, each with    *)
(* nWorkers goroutines, and deletes the partitions.  Every call goes       *)
(* through Crud (src/api/api.go), which proposes a write and looks a GET   *)
(* up, and waits for its answer; any code but 200 ends the program.        *)
(*                                                                         *)
(* The replica runs and Syncs beside it as it likes.  GETs do not affect   *)
(* one another, so they take turns for the one reader of Lookup.  The      *)
(* durations that the batches report are left out.                         *)
(***************************************************************************)
EXTENDS Lookup

CONSTANTS
  NWorkers,                 \* the flag workers
  Words,                    \* the words of this run, in the order of the shuffle
  Partitions,               \* the partitions of this run
  CreateTime, UpdateTime,   \* the clock when main read it, once each
  SkipDelete, DeletePart    \* the flags of these names

ASSUME PreseedAssumption ==
  /\ NWorkers \in Nat \ {0}
  /\ Words \in Seq(Ids) /\ Partitions \in Seq(Parts)
  /\ CreateTime \in Stamps /\ UpdateTime \in Stamps /\ CreateTime <= UpdateTime
  /\ SkipDelete \in BOOLEAN /\ DeletePart \in BOOLEAN

VARIABLES
  stage,   \* what main is at; "fatal" after log.Fatalf on a code, "lost" after an error
  jobs,    \* what each goroutine has still to call for; main is number 0
  call,    \* the log index of the write a goroutine waits for, or 0
  reader   \* the worker whose GET is being served, or 0

clientVars  == <<stage, jobs, call, reader>>
preseedVars == <<lookupVars, clientVars>>

Callers == 0..NWorkers

Seeded(t) == [updated |-> t, body |-> "seed"]

(* The write that stage s makes of a part and a word. *)
Request(s, key) ==
  CASE s = "CREATE" -> CREATE_PART(key[1])
    [] s = "POST"   -> POST(key[1], key[2], Seeded(CreateTime))
    [] s = "PUT"    -> PUT(key[1], key[2], CreateTime, Seeded(UpdateTime))
    [] s = "DEL"    -> DEL(key[1], key[2], UpdateTime)
    [] s = "DELETE" -> DELETE_PART(key[1])

(* The words that Run slices off for worker w. *)
OverlappingSlice(w) ==  \* mutant: each slice runs one word into the next
  LET wordsPerWorker == Len(Words) \div NWorkers
      last == w * wordsPerWorker + 1
  IN  SubSeq(Words, (w - 1) * wordsPerWorker + 1, IF last > Len(Words) THEN Len(Words) ELSE last)

WordsOf(w) ==
  LET wordsPerWorker == Len(Words) \div NWorkers
  IN  SubSeq(Words, (w - 1) * wordsPerWorker + 1, w * wordsPerWorker)

(* A worker ranges over the partitions and, for each, over its words. *)
Pairs(words) ==
  [n \in 1..(Len(Partitions) * Len(words)) |->
     <<Partitions[1 + ((n - 1) \div Len(words))], words[1 + ((n - 1) % Len(words))]>>]

Jobs(s) ==
  [w \in Callers |->
     IF s \in {"CREATE", "DELETE"} /\ w = 0
     THEN [n \in 1..Len(Partitions) |-> <<Partitions[n], EmptyId>>]
     ELSE IF s \in {"POST", "GET", "PUT", "DEL"} /\ w # 0 THEN Pairs(WordsOf(w)) ELSE <<>>]

Writes == {"CREATE", "POST", "PUT", "DEL", "DELETE"}

(* What the generator sends parses: no word of its file is empty. *)
ASSUME RequestsAssumption ==
  \A w \in Callers :
    /\ \A n \in 1..Len(Jobs("GET")[w]) : Jobs("GET")[w][n] \in GetKeys
    /\ \A s \in Writes : \A n \in 1..Len(Jobs(s)[w]) : Request(s, Jobs(s)[w][n]) \in Commands

(* What main does after a stage. *)
NextStage ==
  CASE stage = "CREATE" -> "POST"
    [] stage = "POST"   -> "GET"
    [] stage = "GET"    -> "PUT"
    [] stage = "PUT"    -> IF SkipDelete THEN "end" ELSE IF DeletePart THEN "DELETE" ELSE "DEL"
    [] stage = "DEL"    -> "DELETE"
    [] stage = "DELETE" -> "end"

PreseedInit ==
  /\ LookupInit
  /\ stage = "CREATE" /\ jobs = Jobs("CREATE")
  /\ call = [w \in Callers |-> 0] /\ reader = 0

-----------------------------------------------------------------------------
(* callCrud of a write: Crud proposes it ... *)
CallWrite(w) ==
  /\ stage \in Writes
  /\ jobs[w] # <<>> /\ call[w] = 0
  /\ Propose(Request(stage, Head(jobs[w]))) /\ Observe
  /\ call' = [call EXCEPT ![w] = Len(log) + 1]
  /\ UNCHANGED <<stage, jobs, reader>>

(* The goroutine has its answer: log.Fatalf unless it is a 200. *)
Receive(w, code) ==
  IF code = 200 THEN jobs' = [jobs EXCEPT ![w] = Tail(@)] /\ UNCHANGED stage
                ELSE stage' = "fatal" /\ UNCHANGED jobs

(* ... and returns the value that Update gave it. *)
WriteAnswered(w) ==
  /\ stage \notin {"fatal", "lost"}
  /\ call[w] # 0 /\ answer[call[w]] # NoAnswer
  /\ Receive(w, answer[call[w]])
  /\ call' = [call EXCEPT ![w] = 0]
  /\ UNCHANGED <<lookupVars, reader>>

(* callCrud of a GET, which Crud passes to Lookup. *)
CallGet(w) ==
  /\ stage = "GET" /\ jobs[w] # <<>> /\ reader = 0
  /\ LookupStart(Head(jobs[w]))
  /\ reader' = w
  /\ UNCHANGED <<stage, jobs, call>>

ReadStep == (LookupScan \/ LookupInState) /\ UNCHANGED clientVars

GetAnswered ==
  /\ LookupReturn
  /\ IF get.step = "error" THEN stage' = "lost" /\ UNCHANGED jobs
     ELSE Receive(reader, IF get.body = NoDoc THEN 404 ELSE 200)
  /\ reader' = 0
  /\ UNCHANGED call

(* The server went down under the GET, and callCrud ends the program. *)
GetLost ==
  /\ LookupPanic
  /\ stage' = "lost" /\ reader' = 0
  /\ UNCHANGED <<jobs, call>>

(* main goes on once it has had a message from every worker on doneChan. *)
AnyWorkerDone == \E w \in Callers : Jobs(stage)[w] # <<>> /\ jobs[w] = <<>>  \* mutant: one message is enough

OneMore ==  \* mutant: a batch waits for one message more than its workers send
  stage \in {"CREATE", "DELETE"} /\ \A w \in Callers : jobs[w] = <<>>

WorkersDone == \A w \in Callers : jobs[w] = <<>>

BatchDone ==
  /\ stage \notin {"end", "fatal", "lost"}
  /\ WorkersDone
  /\ stage' = NextStage
  /\ jobs' = Jobs(NextStage)
  /\ UNCHANGED <<lookupVars, call, reader>>

Client ==
  \/ \E w \in Callers : CallWrite(w) \/ WriteAnswered(w) \/ CallGet(w)
  \/ ReadStep
  \/ GetAnswered
  \/ GetLost
  \/ BatchDone

Server(step) == step /\ Observe /\ UNCHANGED clientVars

PreseedNext ==
  \/ Client
  \/ Server(UpdateStep)
  \/ Server(SyncStart)
  \/ Server(SyncStep)
  \/ Server(Open)

PreseedSpec == PreseedInit /\ [][PreseedNext]_preseedVars

-----------------------------------------------------------------------------
(* preseed.go ends with log.Fatalf when a call is not answered with 200:     *)
(* since each worker owns its words and main waits for a batch before the    *)
(* next, Update accepts every write, however calls of different workers      *)
(* share its batches and wherever Syncs fall, and every GET finds its        *)
(* document.                                                                 *)
EveryCallSucceeds == stage # "fatal"

(* What the workers were given has taken effect when main goes on: all of it *)
(* is there, with the first stamp, throughout the GET batch, and nothing is  *)
(* left, in queue and block together, when the program ends.                 *)
BatchesTakeEffect ==
  /\ stage = "GET" =>
       \A w \in 1..NWorkers : \A n \in 1..Len(Jobs("GET")[w]) :
         LiveDoc(Jobs("GET")[w][n][1], Jobs("GET")[w][n][2]) = Seeded(CreateTime)
  /\ stage = "end" /\ ~SkipDelete =>
       \A p \in Parts : ~LivePart(p) /\ \A id \in Ids : LiveDoc(p, id) = NoDoc

(* The goroutines go on, and the replica is as fair as it was alone. *)
PreseedFairness ==
  /\ WF_preseedVars(Client)
  /\ WF_preseedVars(Server(Open))
  /\ SF_preseedVars(Server(\E n \in 1..MaxBatch : UpdateStart(n)))
  /\ WF_preseedVars(Server(UpdateStep /\ phase = "update"))
  /\ WF_preseedVars(Server(SyncStep))

PreseedFairSpec == PreseedSpec /\ PreseedFairness

(* The program comes to its end, or loses a GET to the race with Sync: main  *)
(* is never left waiting for a worker or a worker for an answer.             *)
PreseedEnds == <>(stage \in {"end", "lost"})
=============================================================================
