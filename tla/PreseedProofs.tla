---------------------------- MODULE PreseedProofs ----------------------------
(***************************************************************************)
(* Every call of the load generator is answered with 200, and its batches  *)
(* take effect: for any number of workers and words, and however Update    *)
(* batches the calls that are open at once, as long as no two partitions   *)
(* share a shard (or Update is given one entry of a shard at a time).      *)
(*                                                                         *)
(* The argument: the calls that are open at any moment are for different   *)
(* keys, and what the store holds of a key follows from the stage and from *)
(* whether the call for it has been decided.                               *)
(***************************************************************************)
EXTENDS Preseed, LookupProofs, SequenceTheorems

Stages == Writes \cup {"GET", "end", "fatal", "lost"}

Running == stage \notin {"fatal", "lost"}

PartSet == {Partitions[n] : n \in 1..Len(Partitions)}

(* What goroutine w, and what all of them together, are given at stage s. *)
GivenTo(s, w) == {Jobs(s)[w][n] : n \in 1..Len(Jobs(s)[w])}

Given(s) == UNION {GivenTo(s, w) : w \in Callers}

(* The parts and words of the four batches. *)
WordKeys == Given("POST")

(* What the generator was started with: words and partitions that differ,    *)
(* in the alphabet.                                                          *)
ProperInput ==
  /\ \A m, n \in 1..Len(Words) : Words[m] = Words[n] => m = n
  /\ \A m, n \in 1..Len(Partitions) : Partitions[m] = Partitions[n] => m = n
  /\ \A n \in 1..Len(Partitions) : FirstRune[Partitions[n]] \in Shards

(* Update looks up at most one entry together, or all of one partition.      *)
OnePartition ==
  \/ MaxShardBatch <= 1
  \/ \A p, q \in PartSet : FirstRune[p] = FirstRune[q] => p = q

(* Entries that Update has decided. *)
Decided(i) == i <= Covered /\ i \notin AtHand

(* A key that a goroutine has still to call for, or whose call is undecided. *)
Working(key) ==
  \E w \in Callers : \E n \in 1..Len(jobs[w]) :
    jobs[w][n] = key /\ (n = 1 /\ call[w] # 0 => ~Decided(call[w]))

(* The parts and the document of a key at each stage. *)
PartThere(p) ==
  /\ stage = "CREATE" => ~Working(<<p, EmptyId>>)
  /\ stage = "DELETE" => Working(<<p, EmptyId>>)
  /\ stage = "end" => SkipDelete

DocThere(key) ==
  CASE stage = "CREATE" -> NoDoc
    [] stage = "POST"   -> IF Working(key) THEN NoDoc ELSE Seeded(CreateTime)
    [] stage = "GET"    -> Seeded(CreateTime)
    [] stage = "PUT"    -> IF Working(key) THEN Seeded(CreateTime) ELSE Seeded(UpdateTime)
    [] stage = "DEL"    -> IF Working(key) THEN Seeded(UpdateTime) ELSE NoDoc
    [] stage = "DELETE" -> IF DeletePart /\ Working(<<key[1], EmptyId>>) THEN Seeded(UpdateTime) ELSE NoDoc
    [] stage = "end"    -> IF SkipDelete THEN Seeded(UpdateTime) ELSE NoDoc

StoreFollows ==
  \A p \in Parts :
    /\ LivePart(p) <=> p \in PartSet /\ PartThere(p)
    /\ \A id \in Ids :
         LiveDoc(p, id) = IF <<p, id>> \in WordKeys THEN DocThere(<<p, id>>) ELSE NoDoc

(* The jobs are the stage's, no key is there twice. *)
JobsDiffer ==
  /\ DOMAIN jobs = Callers
  /\ \A w \in Callers : jobs[w] \in Seq(GivenTo(stage, w))
  /\ \A v, w \in Callers : \A m \in 1..Len(jobs[v]), n \in 1..Len(jobs[w]) :
       jobs[v][m] = jobs[w][n] => v = w /\ m = n

(* Every undecided entry is the call of one goroutine for its next key.      *)
CallsOpen ==
  /\ call \in [Callers -> 0..Len(log)]
  /\ \A w \in Callers :
       call[w] # 0 => /\ stage \in Writes /\ jobs[w] # <<>>
                      /\ log[call[w]] = Request(stage, Head(jobs[w]))
  /\ \A v, w \in Callers : call[v] = call[w] /\ call[v] # 0 => v = w
  /\ \A i \in 1..Len(log) : ~Decided(i) => \E w \in Callers : call[w] = i

(* All entries are accepted. *)
Accepted ==
  /\ \A i \in 1..Len(log) : Decided(i) => result[i] = 200
  /\ \A i \in 1..MaxLog : answer[i] # NoAnswer => answer[i] = 200 /\ i <= Len(log) /\ Decided(i)
  /\ \A i \in DOMAIN existing : Decide(log[i], existing[i]) = 200

LogOfStage ==
  \A i \in 1..Len(log) :
    /\ log[i].part \in PartSet
    /\ stage \in {"CREATE", "POST"} => log[i].type # "DEL"

(* main comes to the DEL and the DELETE stage as the flags say. *)
FlagsFollowed ==
  /\ stage \in {"DEL", "DELETE"} => ~SkipDelete
  /\ stage = "DEL" => ~DeletePart

(* The process starts once. *)
FirstStart == ~up => metaIndex = 0 /\ applied = 0

(* The GET that is being served will find the document. *)
GetFinds ==
  /\ reader # 0 <=> get.step # "none"
  /\ reader # 0 =>
       /\ stage = "GET" /\ reader \in Callers /\ jobs[reader] # <<>> /\ get.key = Head(jobs[reader])
       /\ get.step = "scan" => Rest(get.i, get.key[1], get.key[2]) = Seeded(CreateTime)
       /\ get.step = "state" => DiskDoc(get.key[1], get.key[2]) = Seeded(CreateTime)
       /\ get.step = "done" => get.body = Seeded(CreateTime)
       /\ get.step # "error"

(* Of the goroutines and the replica together. *)
ClientInv ==
  /\ StoreFollows
  /\ JobsDiffer
  /\ CallsOpen
  /\ Accepted
  /\ LogOfStage
  /\ FlagsFollowed
  /\ FirstStart

PreseedInv ==
  /\ stage \in Stages \ {"fatal"}
  /\ stage = "lost" => get.step = "none"
  /\ Running => BInv /\ ClientInv /\ GetFinds

-----------------------------------------------------------------------------
(* Division with remainder. *)
LEMMA DivMod ==
  ASSUME NEW a \in Nat, NEW b \in Nat \ {0}
  PROVE  a = b * (a \div b) + (a % b) /\ a \div b \in Nat /\ a % b \in 0..(b - 1)
  OBVIOUS

LEMMA DivBound ==
  ASSUME NEW a \in Nat, NEW b \in Nat \ {0}, NEW c \in Nat, a < c * b
  PROVE  a \div b \in 0..(c - 1)
<1> DEFINE d == a \div b
<1>1. b * d <= a /\ d \in Nat
  BY DivMod
<1> HIDE DEF d
<1>2. ASSUME d >= c PROVE FALSE
  <2>1. b * d >= b * c
    BY <1>1, <1>2
  <2> QED BY <1>1, <2>1
<1>3. d < c
  BY <1>1, <1>2
<1> QED BY <1>1, <1>3 DEF d

(* Slices of the same length do not overlap. *)
LEMMA SlicesApart ==
  ASSUME NEW k \in Nat, NEW v \in Nat \ {0}, NEW w \in Nat \ {0}, NEW i \in 1..k, NEW j \in 1..k,
         (v - 1) * k + i = (w - 1) * k + j
  PROVE  v = w /\ i = j
<1>1. ASSUME NEW x \in Nat \ {0}, NEW y \in Nat \ {0}, x < y
      PROVE  (y - 1) * k >= (x - 1) * k + k
  <2>1. PICK d \in Nat : y = x + 1 + d
    BY <1>1
  <2> DEFINE A == (x - 1) * k
             B == d * k
  <2>2. (y - 1) * k = A + k + B /\ A \in Int /\ B \in Nat
    BY <2>1
  <2> HIDE DEF A, B
  <2>3. (y - 1) * k >= A + k
    BY <2>2
  <2> QED BY <2>3 DEF A
<1>2. v = w
  <2>1. CASE v < w
    BY <1>1, <2>1
  <2>2. CASE w < v
    BY <1>1, <2>2
  <2> QED BY <2>1, <2>2
<1> QED BY <1>2

LEMMA SliceWithin ==
  ASSUME NEW k \in Nat, NEW n \in Nat \ {0}, NEW w \in 1..n, NEW i \in 1..k, NEW l \in Nat, n * k <= l
  PROVE  (w - 1) * k + i \in 1..l
<1>1. PICK d \in Nat : n = w + d
  OBVIOUS
<1> DEFINE A == (w - 1) * k
           B == d * k
<1>2. n * k = A + k + B /\ A \in Nat /\ B \in Nat
  BY <1>1
<1> HIDE DEF A, B
<1>3. A + i \in 1..l
  BY <1>2
<1> QED BY <1>3 DEF A

-----------------------------------------------------------------------------
(* What the goroutines are given. *)

LEMMA SliceIs ==
  ASSUME NEW a \in Nat, NEW k \in Nat, \A i \in 1..k : a + i \in 1..Len(Words)
  PROVE  /\ SubSeq(Words, a + 1, a + k) \in Seq(Ids)
         /\ Len(SubSeq(Words, a + 1, a + k)) = k
         /\ \A i \in 1..k : SubSeq(Words, a + 1, a + k)[i] = Words[a + i]
<1> DEFINE m == a + 1
           n == a + k
           s == SubSeq(Words, m, n)
<1>1. m \in Int /\ n \in Int /\ \A i \in m..n : Words[i] \in Ids
  <2>1. \A i \in m..n : i - a \in 1..k /\ a + (i - a) = i
    OBVIOUS
  <2>2. \A i \in m..n : i \in 1..Len(Words)
    BY <2>1
  <2> QED BY <2>2, PreseedAssumption
<1>2. n - m + 1 = k /\ (m <= n <=> k # 0) /\ \A i \in 1..k : m + i - 1 = a + i
  OBVIOUS
<1> HIDE DEF m, n
<1>3. /\ s \in Seq(Ids)
      /\ Len(s) = IF m <= n THEN n - m + 1 ELSE 0
      /\ \A i \in 1..(n - m + 1) : s[i] = Words[m + i - 1]
  BY <1>1, SubSeqProperties
<1> HIDE DEF s
<1>4. s \in Seq(Ids) /\ Len(s) = k /\ \A i \in 1..k : s[i] = Words[a + i]
  BY <1>2, <1>3
<1> QED BY <1>4 DEF s, m, n

(* The words of worker w: a slice of those of the run. *)
PerWorker == Len(Words) \div NWorkers

LEMMA WordsOfWorker ==
  ASSUME NEW w \in 1..NWorkers
  PROVE  /\ PerWorker \in Nat
         /\ WordsOf(w) \in Seq(Ids) /\ Len(WordsOf(w)) = PerWorker
         /\ \A i \in 1..PerWorker :
              /\ (w - 1) * PerWorker + i \in 1..Len(Words)
              /\ WordsOf(w)[i] = Words[(w - 1) * PerWorker + i]
<1> DEFINE l == Len(Words)
           k == PerWorker
           A == (w - 1) * k
<1>1. NWorkers \in Nat \ {0} /\ l \in Nat /\ Words \in Seq(Ids)
  BY PreseedAssumption
<1>2. k \in Nat /\ NWorkers * k <= l
  <2>1. k = l \div NWorkers
    BY DEF PerWorker
  <2> HIDE DEF k, l
  <2>2. l = NWorkers * k + (l % NWorkers) /\ k \in Nat /\ l % NWorkers \in 0..(NWorkers - 1)
    BY <1>1, <2>1, DivMod
  <2>3. NWorkers * k \in Nat
    BY <1>1, <2>2
  <2> QED BY <1>1, <2>2, <2>3
<1>3. A \in Nat /\ w * k = A + k
  BY <1>1, <1>2
<1>4. WordsOf(w) = SubSeq(Words, A + 1, A + k)
  BY <1>3 DEF WordsOf, PerWorker
<1>5. \A i \in 1..k : A + i \in 1..l
  <2> HIDE DEF l, k
  <2> QED BY <1>1, <1>2, SliceWithin
<1> HIDE DEF A, k, l
<1>6. /\ WordsOf(w) \in Seq(Ids) /\ Len(WordsOf(w)) = k
      /\ \A i \in 1..k : WordsOf(w)[i] = Words[A + i]
  BY <1>2, <1>3, <1>4, <1>5, SliceIs DEF l
<1>7. k = PerWorker /\ l = Len(Words)
  BY DEF k, l
<1> QED BY <1>2, <1>5, <1>6, <1>7 DEF A

(* Worker w's n-th call is for the x-th partition and its y-th word. *)
LEMMA PairsAre ==
  ASSUME NEW w \in 1..NWorkers
  PROVE  LET N == Len(Partitions) * PerWorker
         IN  /\ N \in Nat /\ Pairs(WordsOf(w)) = [n \in 1..N |-> Pairs(WordsOf(w))[n]]
             /\ \A n \in 1..N :
                  \E x \in 1..Len(Partitions), y \in 1..PerWorker :
                    /\ Pairs(WordsOf(w))[n] = <<Partitions[x], WordsOf(w)[y]>>
                    /\ n - 1 = PerWorker * (x - 1) + (y - 1)
<1> DEFINE k == PerWorker
           c == Len(Partitions)
           words == WordsOf(w)
<1>1. k \in Nat /\ c \in Nat /\ Len(words) = k
  BY WordsOfWorker, PreseedAssumption
<1>2. c * k \in Nat
  BY <1>1
<1>3. Pairs(words) =
        [n \in 1..(c * k) |-> <<Partitions[1 + ((n - 1) \div k)], words[1 + ((n - 1) % k)]>>]
  BY <1>1 DEF Pairs
<1> HIDE DEF k, c, words
<1>4. ASSUME NEW n \in 1..(c * k)
      PROVE  \E x \in 1..c, y \in 1..k :
               Pairs(words)[n] = <<Partitions[x], words[y]>> /\ n - 1 = k * (x - 1) + (y - 1)
  <2> DEFINE a == n - 1
             d == a \div k
             r == a % k
  <2>1. k # 0
    BY <1>1, <1>2
  <2>2. a \in Nat /\ a < c * k
    BY <1>2
  <2> HIDE DEF a
  <2>3. a = k * d + r /\ d \in Nat /\ r \in 0..(k - 1) /\ d \in 0..(c - 1)
    BY <1>1, <2>1, <2>2, DivMod, DivBound
  <2> DEFINE x == 1 + d
             y == 1 + r
  <2>4. Pairs(words)[n] = <<Partitions[x], words[y]>>
    BY <1>3 DEF a
  <2> HIDE DEF d, r
  <2>5. x \in 1..c /\ y \in 1..k /\ x - 1 = d /\ y - 1 = r
    BY <1>1, <2>3
  <2> HIDE DEF x, y
  <2>6. n - 1 = k * (x - 1) + (y - 1)
    BY <2>3, <2>5 DEF a
  <2> QED BY <2>4, <2>5, <2>6
<1>5. Pairs(words) = [n \in 1..(c * k) |-> Pairs(words)[n]]
  BY <1>3
<1> QED BY <1>2, <1>4, <1>5 DEF k, c, words

DocStages == {"POST", "GET", "PUT", "DEL"}

PartStages == {"CREATE", "DELETE"}

LEMMA JobsOf ==
  ASSUME NEW s, NEW w \in Callers
  PROVE  /\ s \in PartStages /\ w = 0 => Jobs(s)[w] = [n \in 1..Len(Partitions) |-> <<Partitions[n], EmptyId>>]
         /\ s \in DocStages /\ w # 0 => Jobs(s)[w] = Pairs(WordsOf(w))
         /\ ~(s \in PartStages /\ w = 0) /\ ~(s \in DocStages /\ w # 0) => Jobs(s)[w] = <<>>
  BY DEF Jobs, PartStages, DocStages

LEMMA SeqOfItsOwn ==
  ASSUME NEW n \in Nat, NEW f, f = [i \in 1..n |-> f[i]]
  PROVE  Len(f) = n /\ f \in Seq({f[i] : i \in 1..n})
  OBVIOUS

LEMMA JobsAreSeq ==
  ASSUME NEW s, NEW w \in Callers
  PROVE  Jobs(s)[w] \in Seq(GivenTo(s, w))
<1> DEFINE f == Jobs(s)[w]
<1>1. \E n \in Nat : f = [i \in 1..n |-> f[i]]
  <2>1. CASE s \in PartStages /\ w = 0
    <3>1. f = [n \in 1..Len(Partitions) |-> <<Partitions[n], EmptyId>>]
      BY <2>1, JobsOf
    <3>2. Len(Partitions) \in Nat
      BY PreseedAssumption
    <3> HIDE DEF f
    <3>3. f = [n \in 1..Len(Partitions) |-> f[n]]
      BY <3>1
    <3> QED BY <3>2, <3>3
  <2>2. CASE s \in DocStages /\ w # 0
    <3>1. f = Pairs(WordsOf(w))
      BY <2>2, JobsOf
    <3>2. w \in 1..NWorkers
      BY <2>2, PreseedAssumption DEF Callers
    <3> HIDE DEF f
    <3> QED BY <3>1, <3>2, PairsAre
  <2>3. CASE ~(s \in PartStages /\ w = 0) /\ ~(s \in DocStages /\ w # 0)
    <3>1. f = <<>>
      BY <2>3, JobsOf
    <3> HIDE DEF f
    <3>2. f = [n \in 1..0 |-> f[n]]
      BY <3>1
    <3> QED BY <3>2
  <2> QED BY <2>1, <2>2, <2>3
<1>2. PICK n \in Nat : f = [i \in 1..n |-> f[i]]
  BY <1>1
<1>3. Len(f) = n /\ f \in Seq({f[i] : i \in 1..n})
  <2> HIDE DEF f
  <2> QED BY <1>2, SeqOfItsOwn
<1> QED BY <1>3 DEF GivenTo

(* No key is given twice. *)
LEMMA JobsApart ==
  ASSUME ProperInput, NEW s, NEW v \in Callers, NEW w \in Callers,
         NEW m \in 1..Len(Jobs(s)[v]), NEW n \in 1..Len(Jobs(s)[w]), Jobs(s)[v][m] = Jobs(s)[w][n]
  PROVE  v = w /\ m = n
<1>0. NWorkers \in Nat /\ Len(Partitions) \in Nat
  BY PreseedAssumption
<1>1. CASE s \in PartStages
  <2>1. v = 0 /\ w = 0
    <3>1. s \notin DocStages
      BY <1>1 DEF PartStages, DocStages
    <3>2. ASSUME NEW u \in Callers, u # 0 PROVE Jobs(s)[u] = <<>>
      BY <3>1, <3>2, JobsOf
    <3> QED BY <3>2
  <2>2. Jobs(s)[0] = [i \in 1..Len(Partitions) |-> <<Partitions[i], EmptyId>>]
    BY <1>1, <2>1, JobsOf
  <2>3. m \in 1..Len(Partitions) /\ n \in 1..Len(Partitions) /\ Partitions[m] = Partitions[n]
    BY <1>0, <2>1, <2>2
  <2> QED BY <2>1, <2>3 DEF ProperInput
<1>2. CASE s \in DocStages
  <2> DEFINE k == PerWorker
             N == Len(Partitions) * k
  <2>1. v # 0 /\ w # 0
    <3>1. s \notin PartStages
      BY <1>2 DEF PartStages, DocStages
    <3>2. ASSUME NEW u \in Callers, u = 0 PROVE Jobs(s)[u] = <<>>
      BY <3>1, <3>2, JobsOf
    <3> QED BY <3>2
  <2>2. v \in 1..NWorkers /\ w \in 1..NWorkers
    BY <1>0, <2>1 DEF Callers
  <2>3. Jobs(s)[v] = Pairs(WordsOf(v)) /\ Jobs(s)[w] = Pairs(WordsOf(w))
    BY <1>2, <2>1, JobsOf
  <2>4. /\ N \in Nat
        /\ Pairs(WordsOf(v)) = [i \in 1..N |-> Pairs(WordsOf(v))[i]]
        /\ Pairs(WordsOf(w)) = [i \in 1..N |-> Pairs(WordsOf(w))[i]]
    BY <2>2, PairsAre
  <2> HIDE DEF N, k
  <2>5. m \in 1..N /\ n \in 1..N
    BY <2>3, <2>4
  <2>6. PICK x \in 1..Len(Partitions), y \in 1..k :
          Pairs(WordsOf(v))[m] = <<Partitions[x], WordsOf(v)[y]>> /\ m - 1 = k * (x - 1) + (y - 1)
    BY <2>2, <2>5, PairsAre DEF N, k
  <2>7. PICK a \in 1..Len(Partitions), b \in 1..k :
          Pairs(WordsOf(w))[n] = <<Partitions[a], WordsOf(w)[b]>> /\ n - 1 = k * (a - 1) + (b - 1)
    BY <2>2, <2>5, PairsAre DEF N, k
  <2>8. Partitions[x] = Partitions[a] /\ WordsOf(v)[y] = WordsOf(w)[b]
    BY <2>3, <2>6, <2>7
  <2>9. /\ k \in Nat
        /\ (v - 1) * k + y \in 1..Len(Words) /\ WordsOf(v)[y] = Words[(v - 1) * k + y]
        /\ (w - 1) * k + b \in 1..Len(Words) /\ WordsOf(w)[b] = Words[(w - 1) * k + b]
    BY <2>2, WordsOfWorker DEF k
  <2>10. (v - 1) * k + y = (w - 1) * k + b
    BY <2>8, <2>9 DEF ProperInput
  <2>11. v = w /\ y = b
    <3>1. v \in Nat \ {0} /\ w \in Nat \ {0}
      BY <1>0, <2>2
    <3>2. k \in Nat
      BY <2>9
    <3> QED BY <2>10, <3>1, <3>2, SlicesApart
  <2>12. x = a
    BY <2>8 DEF ProperInput
  <2>13. m - 1 = n - 1
    BY <2>6, <2>7, <2>11, <2>12
  <2> QED BY <2>5, <2>11, <2>13
<1>3. CASE s \notin PartStages /\ s \notin DocStages
  <2>1. Jobs(s)[v] = <<>>
    BY <1>3, JobsOf
  <2> QED BY <2>1
<1> QED BY <1>1, <1>2, <1>3

(* The keys of a stage. *)
LEMMA GivenIs ==
  ASSUME NEW s
  PROVE  /\ s \in DocStages => Given(s) = WordKeys
         /\ s \in PartStages => Given(s) = {<<p, EmptyId>> : p \in PartSet}
         /\ s \notin DocStages \cup PartStages => Given(s) = {}
<1>1. ASSUME s \in DocStages PROVE Given(s) = WordKeys
  <2>1. \A w \in Callers : GivenTo(s, w) = GivenTo("POST", w)
    BY <1>1 DEF GivenTo, Jobs, DocStages
  <2> QED BY <2>1 DEF Given, WordKeys
<1>2. ASSUME s \in PartStages PROVE Given(s) = {<<p, EmptyId>> : p \in PartSet}
  <2>1. 0 \in Callers /\ Len(Partitions) \in Nat
    BY PreseedAssumption DEF Callers
  <2>2. s \notin DocStages
    BY <1>2 DEF PartStages, DocStages
  <2>3. ASSUME NEW w \in Callers, w # 0 PROVE GivenTo(s, w) = {}
    <3>1. Jobs(s)[w] = <<>>
      BY <2>2, <2>3, JobsOf
    <3> QED BY <3>1 DEF GivenTo
  <2>4. Jobs(s)[0] = [n \in 1..Len(Partitions) |-> <<Partitions[n], EmptyId>>]
    BY <1>2, <2>1, JobsOf
  <2>5. GivenTo(s, 0) = {<<Partitions[n], EmptyId>> : n \in 1..Len(Partitions)}
    BY <2>1, <2>4 DEF GivenTo
  <2>6. Given(s) = GivenTo(s, 0)
    BY <2>1, <2>3 DEF Given
  <2> QED BY <2>5, <2>6 DEF PartSet
<1>3. ASSUME s \notin DocStages \cup PartStages PROVE Given(s) = {}
  <2>1. ASSUME NEW w \in Callers PROVE GivenTo(s, w) = {}
    <3>1. Jobs(s)[w] = <<>>
      BY <1>3, JobsOf
    <3> QED BY <3>1 DEF GivenTo
  <2> QED BY <2>1 DEF Given
<1> QED BY <1>1, <1>2, <1>3

LEMMA KeysAre ==
  /\ PartSet \subseteq Parts
  /\ \A key \in WordKeys : \E p \in PartSet, id \in Ids : key = <<p, id>>
<1>1. PartSet \subseteq Parts
  BY PreseedAssumption DEF PartSet
<1>2. ASSUME NEW key \in WordKeys PROVE \E p \in PartSet, id \in Ids : key = <<p, id>>
  <2>0. PICK w \in Callers : key \in GivenTo("POST", w)
    BY DEF WordKeys, Given
  <2>1. PICK n \in 1..Len(Jobs("POST")[w]) : key = Jobs("POST")[w][n]
    BY <2>0 DEF GivenTo
  <2>2. "POST" \in DocStages /\ "POST" \notin PartStages
    BY DEF DocStages, PartStages
  <2>3. w # 0
    <3>1. ASSUME w = 0 PROVE Jobs("POST")[w] = <<>>
      BY <2>2, <3>1, JobsOf
    <3> QED BY <2>1, <3>1
  <2>4. w \in 1..NWorkers /\ Jobs("POST")[w] = Pairs(WordsOf(w))
    <3>1. w \in 1..NWorkers
      BY <2>3, PreseedAssumption DEF Callers
    <3> QED BY <2>2, <2>3, <3>1, JobsOf
  <2>5. n \in 1..(Len(Partitions) * PerWorker)
    BY <2>1, <2>4, PairsAre
  <2>6. PICK x \in 1..Len(Partitions), y \in 1..PerWorker : key = <<Partitions[x], WordsOf(w)[y]>>
    BY <2>1, <2>4, <2>5, PairsAre
  <2>7. WordsOf(w)[y] \in Ids
    BY <2>4, WordsOfWorker
  <2> QED BY <2>6, <2>7 DEF PartSet
<1> QED BY <1>1, <1>2

-----------------------------------------------------------------------------
(* The calls that are open. *)

Fresh == jobs = Jobs(stage) /\ \A w \in Callers : call[w] = 0

LEMMA FreshJobs ==
  ASSUME ProperInput, Fresh
  PROVE  JobsDiffer /\ \A key : Working(key) <=> key \in Given(stage)
<1>1. DOMAIN jobs = Callers
  BY DEF Fresh, Jobs
<1>2. \A w \in Callers : jobs[w] \in Seq(GivenTo(stage, w))
  BY JobsAreSeq DEF Fresh
<1>3. \A v, w \in Callers : \A m \in 1..Len(jobs[v]), n \in 1..Len(jobs[w]) :
        jobs[v][m] = jobs[w][n] => v = w /\ m = n
  BY JobsApart DEF Fresh
<1>4. \A key : Working(key) <=> key \in Given(stage)
  BY DEF Working, Given, GivenTo, Fresh
<1> QED BY <1>1, <1>2, <1>3, <1>4 DEF JobsDiffer

FreshNow == ProperInput /\ Fresh => JobsDiffer /\ \A key : Working(key) <=> key \in Given(stage)

LEMMA FreshNext == FreshNow'
<1>1. FreshNow
  BY FreshJobs DEF FreshNow
<1> QED BY <1>1, PTL

LEMMA JobsGiven ==
  ASSUME JobsDiffer, NEW w \in Callers
  PROVE  /\ Len(jobs[w]) \in Nat
         /\ \A n \in 1..Len(jobs[w]) : jobs[w][n] \in GivenTo(stage, w) /\ jobs[w][n] \in Given(stage)
         /\ jobs[w] # <<>> => Len(jobs[w]) >= 1 /\ Head(jobs[w]) = jobs[w][1]
<1>1. jobs[w] \in Seq(GivenTo(stage, w))
  BY DEF JobsDiffer
<1> QED BY <1>1 DEF Given

LEMMA WorkingGiven ==
  ASSUME JobsDiffer, NEW key, Working(key)
  PROVE  key \in Given(stage)
  BY JobsGiven DEF Working

(* The next call of a goroutine is legal input for the replica. *)
LEMMA NextCall ==
  ASSUME JobsDiffer, NEW w \in Callers, jobs[w] # <<>>
  PROVE  /\ Head(jobs[w]) \in Given(stage)
         /\ stage \in Writes => Request(stage, Head(jobs[w])) \in Commands
         /\ stage = "GET" => Head(jobs[w]) \in GetKeys
<1>1. Head(jobs[w]) \in GivenTo(stage, w) /\ Head(jobs[w]) \in Given(stage)
  BY JobsGiven
<1>2. PICK n \in 1..Len(Jobs(stage)[w]) : Head(jobs[w]) = Jobs(stage)[w][n]
  BY <1>1 DEF GivenTo
<1> QED BY <1>1, <1>2, RequestsAssumption

(* The command of a call, by its stage. *)
LEMMA RequestIs ==
  ASSUME NEW p, NEW id, NEW key, key = <<p, id>>
  PROVE  /\ Request("CREATE", key) = CREATE_PART(p)
         /\ Request("POST", key) = POST(p, id, Seeded(CreateTime))
         /\ Request("PUT", key) = PUT(p, id, CreateTime, Seeded(UpdateTime))
         /\ Request("DEL", key) = DEL(p, id, UpdateTime)
         /\ Request("DELETE", key) = DELETE_PART(p)
  BY DEF Request

LEMMA SeededIs ==
  ASSUME NEW key \in WordKeys
  PROVE  Seeded(CreateTime) \in Documents /\ Seeded(UpdateTime) \in Documents
<1>1. ASSUME NEW s \in {"POST", "PUT"} PROVE Request(s, key) \in Commands
  <2>1. s \in DocStages /\ s \in Writes
    BY DEF DocStages, Writes
  <2>2. key \in Given(s)
    BY <2>1, GivenIs
  <2>3. PICK w \in Callers : key \in GivenTo(s, w)
    BY <2>2 DEF Given
  <2>4. PICK n \in 1..Len(Jobs(s)[w]) : key = Jobs(s)[w][n]
    BY <2>3 DEF GivenTo
  <2> QED BY <2>1, <2>4, RequestsAssumption
<1>2. PICK p \in PartSet, id \in Ids : key = <<p, id>>
  BY KeysAre
<1>3. /\ POST(p, id, Seeded(CreateTime)) \in Commands
      /\ PUT(p, id, CreateTime, Seeded(UpdateTime)) \in Commands
  BY <1>1, <1>2, RequestIs
<1>4. /\ POST(p, id, Seeded(CreateTime)).doc \in Documents
      /\ PUT(p, id, CreateTime, Seeded(UpdateTime)).doc \in Documents
  <2>1. POST(p, id, Seeded(CreateTime)).type = "POST" /\ PUT(p, id, CreateTime, Seeded(UpdateTime)).type = "PUT"
    BY DEF POST, PUT
  <2> QED BY <1>3, <2>1, CommandType
<1> QED BY <1>4 DEF POST, PUT

(* The goroutine that waits for an undecided entry. *)
LEMMA OpenCall ==
  ASSUME IInv, JobsDiffer, CallsOpen, NEW i \in 1..Len(log), ~Decided(i)
  PROVE  \E w \in Callers :
           /\ call[w] = i /\ stage \in Writes /\ jobs[w] # <<>>
           /\ log[i] = Request(stage, Head(jobs[w]))
           /\ Working(Head(jobs[w]))
<1>1. PICK w \in Callers : call[w] = i
  BY DEF CallsOpen
<1>2. stage \in Writes /\ jobs[w] # <<>> /\ log[i] = Request(stage, Head(jobs[w]))
  BY <1>1 DEF CallsOpen
<1>3. Head(jobs[w]) = jobs[w][1] /\ 1 \in 1..Len(jobs[w])
  BY <1>2, JobsGiven
<1>4. Working(Head(jobs[w]))
  BY <1>1, <1>3 DEF Working
<1> QED BY <1>1, <1>2, <1>4

(* What a command must meet for Update to accept it. *)
Welcome(cmd) ==
  /\ ShardOf(cmd) \in Shards
  /\ cmd.type = "CREATE_PART" <=> ~LivePart(cmd.part)
  /\ cmd.type \in PartTypes \cup DocTypes
  /\ cmd.type = "POST" =>
       LiveDoc(cmd.part, cmd.id) = NoDoc /\ \A j \in 1..Len(log) : log[j].type # "DEL"
  /\ cmd.type \in {"PUT", "DEL"} =>
       LiveDoc(cmd.part, cmd.id) # NoDoc /\ LiveDoc(cmd.part, cmd.id).updated = cmd.ts

(* A key for which a call is to come meets what the call expects. *)
LEMMA CallIsWelcome ==
  ASSUME ProperInput, JobsDiffer, StoreFollows, LogOfStage, stage \in Writes, NEW key, Working(key)
  PROVE  Welcome(Request(stage, key)) /\ Request(stage, key).part \in PartSet
<1>1. key \in Given(stage)
  BY WorkingGiven
<1>2. ASSUME NEW p \in PartSet PROVE p \in Parts /\ FirstRune[p] \in Shards
  BY KeysAre DEF ProperInput, PartSet
<1>3. CASE stage \in PartStages
  <2>1. PICK p \in PartSet : key = <<p, EmptyId>>
    BY <1>1, <1>3, GivenIs
  <2>2. p \in Parts /\ FirstRune[p] \in Shards
    BY <1>2
  <2>3. LivePart(p) <=> PartThere(p)
    BY <2>2 DEF StoreFollows
  <2>4. CASE stage = "CREATE"
    <3>1. Request(stage, key) = CREATE_PART(p)
      BY <2>1, <2>4, RequestIs
    <3>2. ~LivePart(p)
      BY <2>1, <2>3, <2>4 DEF PartThere
    <3> QED BY <2>2, <3>1, <3>2 DEF CREATE_PART, Welcome, ShardOf, PartTypes
  <2>5. CASE stage = "DELETE"
    <3>1. Request(stage, key) = DELETE_PART(p)
      BY <2>1, <2>5, RequestIs
    <3>2. LivePart(p)
      BY <2>1, <2>3, <2>5 DEF PartThere
    <3> QED BY <2>2, <3>1, <3>2 DEF DELETE_PART, Welcome, ShardOf, PartTypes
  <2> QED BY <1>3, <2>4, <2>5 DEF PartStages
<1>4. CASE stage \in DocStages
  <2>1. key \in WordKeys
    BY <1>1, <1>4, GivenIs
  <2>2. PICK p \in PartSet, id \in Ids : key = <<p, id>>
    BY <2>1, KeysAre
  <2>3. p \in Parts /\ FirstRune[p] \in Shards
    BY <1>2
  <2>4. LivePart(p)
    BY <1>4, <2>3 DEF StoreFollows, PartThere, DocStages
  <2>5. LiveDoc(p, id) = DocThere(key)
    BY <2>1, <2>2, <2>3 DEF StoreFollows
  <2>6. /\ Seeded(CreateTime) # NoDoc /\ Seeded(UpdateTime) # NoDoc
        /\ Seeded(CreateTime).updated = CreateTime /\ Seeded(UpdateTime).updated = UpdateTime
    BY <2>1, SeededIs, NoDocAssumption DEF Seeded
  <2>7. CASE stage = "POST"
    <3>1. Request(stage, key) = POST(p, id, Seeded(CreateTime))
      BY <2>2, <2>7, RequestIs
    <3>2. LiveDoc(p, id) = NoDoc
      BY <2>5, <2>7 DEF DocThere
    <3>3. \A j \in 1..Len(log) : log[j].type # "DEL"
      BY <2>7 DEF LogOfStage
    <3> QED BY <2>3, <2>4, <3>1, <3>2, <3>3 DEF POST, Welcome, ShardOf, DocTypes
  <2>8. CASE stage = "PUT"
    <3>1. Request(stage, key) = PUT(p, id, CreateTime, Seeded(UpdateTime))
      BY <2>2, <2>8, RequestIs
    <3>2. LiveDoc(p, id) = Seeded(CreateTime)
      BY <2>5, <2>8 DEF DocThere
    <3> QED BY <2>3, <2>4, <2>6, <3>1, <3>2 DEF PUT, Welcome, ShardOf, DocTypes
  <2>9. CASE stage = "DEL"
    <3>1. Request(stage, key) = DEL(p, id, UpdateTime)
      BY <2>2, <2>9, RequestIs
    <3>2. LiveDoc(p, id) = Seeded(UpdateTime)
      BY <2>5, <2>9 DEF DocThere
    <3> QED BY <2>3, <2>4, <2>6, <3>1, <3>2 DEF DEL, Welcome, ShardOf, DocTypes
  <2> QED BY <1>4, <2>7, <2>8, <2>9 DEF Writes, DocStages
<1> QED BY <1>3, <1>4 DEF Writes, DocStages, PartStages

LEMMA OpenWelcome ==
  ASSUME ProperInput, IInv, JobsDiffer, CallsOpen, StoreFollows, LogOfStage,
         NEW i \in 1..Len(log), ~Decided(i)
  PROVE  Welcome(log[i])
<1>1. PICK w \in Callers : /\ stage \in Writes /\ log[i] = Request(stage, Head(jobs[w]))
                           /\ Working(Head(jobs[w]))
  BY OpenCall
<1> QED BY <1>1, CallIsWelcome

-----------------------------------------------------------------------------
(* Update accepts what is welcome. *)

(* For an entry that is looked up alone. *)
LEMMA WelcomeAccepted ==
  ASSUME IInv, QueueLegal, phase # "apply", NEW i \in 1..Len(log), Welcome(log[i])
  PROVE  Decide(log[i], FindExisting(ShardOf(log[i]), {i})[i]) = 200
<1> DEFINE cmd == log[i]
           e == FindExisting(ShardOf(log[i]), {i})[i]
           k == FindCommandInPending(log[i])
<1>1. /\ e.partExists \in BOOLEAN
      /\ e.partExists <=> LivePart(cmd.part)
      /\ ~IsPart(cmd) => IF k # 0 /\ Queued(k).type = "DEL"
                         THEN e.doc = EmptyDoc /\ LiveDoc(cmd.part, cmd.id) = NoDoc
                         ELSE e.doc = LiveDoc(cmd.part, cmd.id)
  BY FoundIsLive DEF Welcome
<1>2. k = 0 \/ (Queued(k) = log[pending[k]] /\ pending[k] \in 1..Len(log))
  <2>1. MatchPositions(cmd) \in SUBSET (1..Len(pending)) /\ Len(pending) \in Nat
    BY QueueType DEF MatchPositions, IInv
  <2>2. k = 0 \/ k \in 1..Len(pending)
    BY <2>1, NewestProperties DEF FindCommandInPending
  <2> QED BY <2>2 DEF Queued, IInv, TypeOK
<1> HIDE DEF cmd, e, k
<1>3. Welcome(cmd)
  BY DEF cmd
<1>4. ASSUME cmd.type \in PartTypes PROVE Decide(cmd, e) = 200
  BY <1>1, <1>3, <1>4 DEF Decide, Welcome, PartTypes
<1>5. ASSUME cmd.type = "POST" PROVE Decide(cmd, e) = 200
  <2>1. e.partExists /\ LiveDoc(cmd.part, cmd.id) = NoDoc /\ \A j \in 1..Len(log) : log[j].type # "DEL"
    BY <1>1, <1>3, <1>5 DEF Welcome
  <2>2. e.doc = NoDoc
    BY <1>1, <1>2, <1>5, <2>1 DEF IsPart
  <2> QED BY <1>5, <2>1, <2>2 DEF Decide
<1>6. ASSUME cmd.type \in {"PUT", "DEL"} PROVE Decide(cmd, e) = 200
  <2>1. /\ e.partExists /\ LiveDoc(cmd.part, cmd.id) # NoDoc
        /\ LiveDoc(cmd.part, cmd.id).updated = cmd.ts
    BY <1>1, <1>3, <1>6 DEF Welcome
  <2>2. e.doc = LiveDoc(cmd.part, cmd.id)
    BY <1>1, <1>6, <2>1 DEF IsPart
  <2> QED BY <1>6, <2>1, <2>2 DEF Decide
<1>7. Decide(cmd, e) = 200
  BY <1>3, <1>4, <1>5, <1>6 DEF Welcome, DocTypes
<1> QED BY <1>7 DEF cmd, e

(* When a shard has one partition, or one entry at a time, looking up the    *)
(* entries of a shard together finds what looking up each alone would.       *)
LEMMA LookedUpAlike ==
  ASSUME OnePartition, IInv, MaxShardBatch <= 1 => SInv, LogOfStage,
         NEW c \in Shards, NEW i \in OfShard(batch, c)
  PROVE  FindExisting(c, OfShard(batch, c))[i] = FindExisting(c, {i})[i]
<1> DEFINE S == OfShard(batch, c)
           cmd == log[i]
           f == FindInPending(cmd)
           k == FindCommandInPending(cmd)
           q == log[pending[k]]
<1>1. S \subseteq batch /\ S \subseteq 1..Len(log) /\ \A j \in S : ShardOf(log[j]) = c
  BY DEF OfShard, IInv, TypeOK
<1>2. FindExisting(c, S)[i] = IF StateSearch(S) THEN FindExistingDocument(block[c], cmd, f) ELSE f
  BY DEF FindExisting
<1>3. FindExisting(c, {i})[i] = IF k = 0 THEN FindExistingDocument(block[c], cmd, f) ELSE f
  BY DEF FindExisting, StateSearch
<1>4. CASE k = 0
  <2>1. StateSearch(S)
    BY <1>4 DEF StateSearch
  <2> QED BY <1>2, <1>3, <1>4, <2>1
<1>5. CASE k # 0 /\ f.doc # NoDoc
  BY <1>2, <1>3, <1>5 DEF FindExistingDocument
<1>6. CASE k # 0 /\ f.doc = NoDoc
  <2>1. /\ k \in MatchPositions(cmd) /\ k \in 1..Len(pending)
    <3>1. MatchPositions(cmd) \in SUBSET (1..Len(pending)) /\ Len(pending) \in Nat
      BY QueueType DEF MatchPositions, IInv
    <3>2. k \in MatchPositions(cmd)
      BY <1>6, <3>1, NewestProperties DEF FindCommandInPending
    <3> QED BY <3>1, <3>2
  <2>2. q \in Commands /\ q.part = cmd.part
    BY <2>1 DEF IInv, TypeOK, MatchPositions, Matches
  <2>3. q.doc # NoDoc
    BY <2>2, CommandType, NoDocAssumption
  <2>4. IsPart(q)
    BY <1>6, <2>3 DEF FindInPending, IsPart
  <2>5. ASSUME StateSearch(S) PROVE FALSE
    <3>1. PICK j \in S : FindCommandInPending(log[j]) = 0
      BY <2>5 DEF StateSearch
    <3>2. log[j].part = cmd.part
      <4>1. CASE MaxShardBatch <= 1
        <5>1. i = j
          BY <1>1, <3>1, <4>1 DEF SInv, OneOfShard, AtHand
        <5> QED BY <5>1
      <4>2. CASE \A x, y \in PartSet : FirstRune[x] = FirstRune[y] => x = y
        BY <1>1, <4>2 DEF LogOfStage, ShardOf
      <4> QED BY <4>1, <4>2 DEF OnePartition
    <3>3. k \in MatchPositions(log[j])
      BY <2>1, <2>2, <2>4, <3>2 DEF MatchPositions, Matches
    <3>4. MatchPositions(log[j]) \in SUBSET (1..Len(pending)) /\ Len(pending) \in Nat
      BY QueueType DEF MatchPositions, IInv
    <3>5. FindCommandInPending(log[j]) \in 1..Len(pending)
      BY <3>3, <3>4, NewestProperties DEF FindCommandInPending
    <3> QED BY <3>1, <3>4, <3>5
  <2> QED BY <1>2, <1>3, <1>6, <2>5
<1> QED BY <1>4, <1>5, <1>6

-----------------------------------------------------------------------------
(* The steps of the replica. *)

SameLives ==
  \A p \in Parts : /\ LivePart(p)' <=> LivePart(p)
                   /\ \A id \in Ids : LiveDoc(p, id)' = LiveDoc(p, id)

SameDecided == \A i \in 1..Len(log) : Decided(i)' <=> Decided(i)

SameWorking == \A key : Working(key)' <=> Working(key)

LEMMA WorkingFrame ==
  ASSUME CallsOpen, jobs' = jobs, call' = call, SameDecided
  PROVE  SameWorking
<1>1. \A w \in Callers : call[w] # 0 => (Decided(call[w])' <=> Decided(call[w]))
  BY DEF CallsOpen, SameDecided
<1> QED BY <1>1 DEF Working, SameWorking

LEMMA FollowsFrame ==
  ASSUME StoreFollows, SameLives, SameWorking, stage' = stage
  PROVE  StoreFollows'
<1>1. \A p : PartThere(p)' <=> PartThere(p)
  BY DEF PartThere, SameWorking
<1>2. \A key : DocThere(key)' = DocThere(key)
  BY DEF DocThere, SameWorking
<1> QED BY <1>1, <1>2 DEF StoreFollows, SameLives

(* A step that changes nothing that clients see and decides nothing. *)
LEMMA QuietStep ==
  ASSUME ClientInv, log' = log, SameLives, SameDecided, UNCHANGED clientVars, Accepted', FirstStart'
  PROVE  ClientInv'
<1>1. UNCHANGED <<stage, jobs, call>>
  BY DEF clientVars
<1>2. SameWorking
  BY <1>1, WorkingFrame DEF ClientInv
<1>3. StoreFollows'
  BY <1>1, <1>2, FollowsFrame DEF ClientInv
<1>4. JobsDiffer'
  BY <1>1 DEF ClientInv, JobsDiffer
<1>5. CallsOpen'
  BY <1>1 DEF ClientInv, CallsOpen, SameDecided
<1>6. LogOfStage' /\ FlagsFollowed'
  BY <1>1 DEF ClientInv, LogOfStage, FlagsFollowed
<1> QED BY <1>3, <1>4, <1>5, <1>6 DEF ClientInv

LEMMA LivesFrame ==
  ASSUME IInv, UNCHANGED <<log, pending, block>>
  PROVE  SameLives
<1>1. SameQueue
  BY DEF SameQueue
<1> QED BY <1>1, FrameStores DEF SameLives

LEMMA AcceptedFrame ==
  ASSUME Accepted, SameDecided, UNCHANGED <<log, result, answer, existing>>
  PROVE  Accepted'
<1>1. \A i \in 1..Len(log) : Decided(i)' => result'[i] = 200
  BY DEF Accepted, SameDecided
<1>2. \A i \in 1..MaxLog : answer'[i] # NoAnswer => answer'[i] = 200 /\ i <= Len(log) /\ Decided(i)'
  BY DEF Accepted, SameDecided
<1> QED BY <1>1, <1>2 DEF Accepted

LEMMA QuietUpdateStart ==
  ASSUME IInv, ClientInv, NEW n \in 1..MaxBatch, UpdateStart(n)
  PROVE  SameLives /\ SameDecided /\ Accepted'
<1>1. UNCHANGED <<log, answer, existing, pending, block>>
  BY DEF UpdateStart, hostVars, diskVars
<1>2. /\ phase = "idle" /\ phase' = "update" /\ applied \in Nat /\ Len(log) \in Nat /\ n \in Nat
      /\ batch = {} /\ DOMAIN existing = {}
      /\ batch' = (applied + 1)..(applied + n) /\ batchEnd' = applied + n
      /\ result' = [i \in 1..MaxLog |-> IF i \in (applied + 1)..(applied + n) THEN 0 ELSE result[i]]
      /\ MaxLog \in Nat /\ Len(log) <= MaxLog
  BY BoundsAssumption DEF UpdateStart, IInv, TypeOK, Memory
<1>3. \A i : i \in AtHand' <=> i \in (applied + 1)..(applied + n)
  BY <1>1, <1>2 DEF AtHand
<1>4. Covered = applied /\ Covered' = applied + n /\ AtHand = {}
  BY <1>2 DEF Covered, AtHand
<1>5. \A i \in 1..Len(log) : /\ Decided(i) <=> i <= applied
                             /\ Decided(i)' <=> i <= applied
  BY <1>2, <1>3, <1>4 DEF Decided
<1>6. \A i \in 1..Len(log) : i <= applied => result'[i] = result[i]
  BY <1>2
<1>7. SameDecided
  BY <1>5 DEF SameDecided
<1>8. Accepted'
  <2>1. \A i \in 1..Len(log) : Decided(i)' => result'[i] = 200
    BY <1>5, <1>6 DEF ClientInv, Accepted
  <2>2. \A i \in 1..MaxLog : answer[i] # NoAnswer => answer[i] = 200 /\ i <= Len(log) /\ Decided(i)'
    BY <1>7 DEF ClientInv, Accepted, SameDecided
  <2> QED BY <1>1, <2>1, <2>2 DEF ClientInv, Accepted
<1> QED BY <1>1, <1>7, <1>8, LivesFrame

LEMMA QuietUpdateShard ==
  ASSUME ProperInput, OnePartition, IInv, MaxShardBatch <= 1 => SInv, BInv, ClientInv,
         NEW c \in Shards, UpdateShard(c)
  PROVE  SameLives /\ SameDecided /\ Accepted'
<1> DEFINE S == OfShard(batch, c)
<1>1. UNCHANGED <<log, answer, result, pending, block, applied, batchEnd, phase>>
  BY DEF UpdateShard, hostVars, diskVars
<1>2. /\ phase = "update" /\ DOMAIN existing = {}
      /\ existing' = FindExisting(c, S) /\ batch' = batch \ S
      /\ S \subseteq batch /\ S \subseteq 1..Len(log) /\ \A i \in S : ShardOf(log[i]) = c
  BY DEF UpdateShard, OfShard, IInv, TypeOK
<1>3. DOMAIN existing' = S
  BY <1>2 DEF FindExisting
<1>4. AtHand' = AtHand
  BY <1>2, <1>3 DEF AtHand
<1>5. SameDecided
  BY <1>1, <1>4 DEF SameDecided, Decided, Covered
<1>6. ASSUME NEW i \in S PROVE Decide(log[i], existing'[i]) = 200
  <2>1. i \in 1..Len(log) /\ ~Decided(i) /\ ShardOf(log[i]) = c
    BY <1>2 DEF Decided, AtHand
  <2>2. Welcome(log[i])
    BY <2>1, OpenWelcome DEF ClientInv
  <2>3. Decide(log[i], FindExisting(c, {i})[i]) = 200
    BY <1>2, <2>1, <2>2, WelcomeAccepted DEF BInv
  <2>4. FindExisting(c, S)[i] = FindExisting(c, {i})[i]
    BY LookedUpAlike DEF ClientInv
  <2> QED BY <1>2, <2>3, <2>4
<1>7. Accepted'
  <2>1. \A i \in 1..Len(log) : Decided(i)' => result[i] = 200
    BY <1>5 DEF ClientInv, Accepted, SameDecided
  <2>2. \A i \in 1..MaxLog : answer[i] # NoAnswer => answer[i] = 200 /\ i <= Len(log) /\ Decided(i)'
    BY <1>5 DEF ClientInv, Accepted, SameDecided
  <2> QED BY <1>1, <1>3, <1>6, <2>1, <2>2 DEF Accepted
<1> QED BY <1>1, <1>5, <1>7, LivesFrame

LEMMA QuietUpdateReturn ==
  ASSUME ProperInput, IInv, ClientInv, UpdateReturn
  PROVE  SameLives /\ SameDecided /\ Accepted'
<1>1. UNCHANGED <<log, result, existing, pending, block>>
  BY DEF UpdateReturn, hostVars, diskVars
<1>2. /\ phase = "update" /\ phase' = "idle" /\ DOMAIN existing = {}
      /\ applied' = batchEnd /\ batch' = {} /\ batch \subseteq 1..Len(log)
      /\ answer' = [i \in 1..MaxLog |-> IF applied < i /\ i <= batchEnd /\ answer[i] = NoAnswer
                                        THEN result[i] ELSE answer[i]]
      /\ batchEnd \in 0..Len(log) /\ Len(log) \in Nat /\ MaxLog \in Nat
  BY BoundsAssumption DEF UpdateReturn, IInv, TypeOK
<1>3. batch = {}
  <2> SUFFICES ASSUME NEW i \in batch PROVE FALSE
    OBVIOUS
  <2>1. log[i].part \in PartSet
    BY <1>2 DEF ClientInv, LogOfStage
  <2>2. ShardOf(log[i]) \in Shards
    BY <2>1 DEF ProperInput, PartSet, ShardOf
  <2>3. i \in OfShard(batch, ShardOf(log[i]))
    BY DEF OfShard
  <2> QED BY <2>2, <2>3 DEF UpdateReturn, RangeDone
<1>4. AtHand = {} /\ AtHand' = {} /\ Covered = batchEnd /\ Covered' = batchEnd
  BY <1>1, <1>2, <1>3 DEF AtHand, Covered
<1>5. \A i : /\ Decided(i) <=> i <= batchEnd
             /\ Decided(i)' <=> i <= batchEnd
  BY <1>4 DEF Decided
<1>6. SameDecided
  BY <1>5 DEF SameDecided
<1>7. Accepted'
  <2>1. \A i \in 1..Len(log) : Decided(i)' => result[i] = 200
    BY <1>6 DEF ClientInv, Accepted, SameDecided
  <2>2. ASSUME NEW i \in 1..MaxLog, answer'[i] # NoAnswer
        PROVE  answer'[i] = 200 /\ i <= Len(log) /\ Decided(i)'
    <3>1. CASE applied < i /\ i <= batchEnd /\ answer[i] = NoAnswer
      <4>1. i \in 1..Len(log) /\ Decided(i)' /\ answer'[i] = result[i]
        BY <1>2, <1>5, <3>1
      <4> QED BY <2>1, <4>1
    <3>2. CASE ~(applied < i /\ i <= batchEnd /\ answer[i] = NoAnswer)
      <4>1. answer'[i] = answer[i]
        BY <1>2, <3>2
      <4>2. answer[i] = 200 /\ i <= Len(log) /\ Decided(i)
        BY <2>2, <4>1 DEF ClientInv, Accepted
      <4> QED BY <1>5, <4>1, <4>2
    <3> QED BY <3>1, <3>2
  <2> QED BY <1>1, <1>2, <2>1, <2>2 DEF ClientInv, Accepted
<1> QED BY <1>1, <1>6, <1>7, LivesFrame

(* Sync decides nothing. *)
LEMMA DecidedFrame ==
  ASSUME UNCHANGED <<applied, batch, existing>>, phase # "update", phase' # "update"
  PROVE  SameDecided
  BY DEF SameDecided, Decided, Covered, AtHand

LEMMA QuietSync ==
  ASSUME IInv, BInv, ClientInv,
         \/ SyncStart \/ ClearPendingQueue \/ UpdateLastUpdateIndex
         \/ \E c \in Shards : TxApply(c) \/ IndexBatch(c) \/ TxCommit(c)
  PROVE  SameLives /\ SameDecided /\ Accepted'
<1>1. UNCHANGED <<log, applied, batch, existing, result, answer>> /\ phase # "update" /\ phase' # "update"
  BY DEF SyncStart, ClearPendingQueue, UpdateLastUpdateIndex, TxApply, IndexBatch, TxCommit, NextInTx,
         hostVars, updateVars
<1>2. SameDecided
  BY <1>1, DecidedFrame
<1>3. Accepted'
  BY <1>1, <1>2, AcceptedFrame DEF ClientInv
<1>4. ASSUME \/ SyncStart \/ UpdateLastUpdateIndex
             \/ \E c \in Shards : TxApply(c) \/ IndexBatch(c)
      PROVE  SameLives
  <2>1. UNCHANGED <<log, pending, block>>
    BY <1>4 DEF SyncStart, UpdateLastUpdateIndex, TxApply, IndexBatch, hostVars, diskVars
  <2> QED BY <2>1, LivesFrame
<1>5. ASSUME ClearPendingQueue PROVE SameLives
  BY <1>5, ClearKeeps DEF SameLives
<1>6. ASSUME NEW c \in Shards, TxCommit(c) PROVE SameLives
  <2>1. SameQueue /\ block' = [block EXCEPT ![c] = tx[c].block] /\ block \in [Shards -> Blocks]
    BY <1>6 DEF TxCommit, hostVars, SameQueue, IInv, TypeOK
  <2>2. Queue' = Queue /\ Len(pending') = Len(pending) /\ Len(pending) \in Nat
    BY <2>1, FrameQueue, QueueType DEF SameQueue, IInv
  <2>3. ASSUME NEW p \in Parts, FirstRune[p] # c
        PROVE  (LivePart(p)' <=> LivePart(p)) /\ \A id \in Ids : LiveDoc(p, id)' = LiveDoc(p, id)
    <3>1. FirstRune[p] \in Shards => block'[FirstRune[p]] = block[FirstRune[p]]
      BY <2>1, <2>3
    <3>2. DiskPart(p)' = DiskPart(p) /\ \A id : DiskDoc(p, id)' = DiskDoc(p, id)
      BY <3>1 DEF DiskDoc, DiskPart
    <3>3. OnDisk(p)' = OnDisk(p)
      BY <3>2 DEF OnDisk
    <3> QED BY <2>2, <3>2, <3>3, LiveIsNow, LiveIsNext DEF LiveIsQueue
  <2> QED BY <1>6, <2>3, CommitStores DEF SameLives
<1> QED BY <1>2, <1>3, <1>4, <1>5, <1>6

LEMMA QuietOpen ==
  ASSUME IInv, ClientInv, Open
  PROVE  SameLives /\ SameDecided /\ Accepted'
<1>1. UNCHANGED <<log, batch, existing, result, answer, pending, block, phase>>
  BY DEF Open, updateVars, diskVars
<1>2. applied' = applied /\ phase = "idle"
  BY DEF Open, GetLastUpdateIndex, ClientInv, FirstStart, IInv, Memory
<1>3. SameDecided
  BY <1>1, <1>2, DecidedFrame
<1> QED BY <1>1, <1>3, AcceptedFrame, LivesFrame DEF ClientInv

(* No goroutine of Sync meets a nil bucket. *)
LEMMA NoPanic ==
  ASSUME IInv, BInv, NEW c \in Shards
  PROVE  ~SyncPanic(c)
  BY BucketThere DEF SyncPanic, Queued

-----------------------------------------------------------------------------
(* Entry i, for which goroutine w waits, is decided: it is accepted, and its *)
(* call is no longer open.                                                   *)
Accepts(i, w) ==
  /\ phase = "update" /\ phase' = "update"
  /\ pending' = Append(pending, i) /\ UNCHANGED <<log, block, answer, up>>
  /\ result' = [result EXCEPT ![i] = 200]
  /\ existing' = [j \in DOMAIN existing \ {i} |-> existing[j]]
  /\ \A j \in 1..Len(log) : Decided(j)' <=> Decided(j) \/ j = i
  /\ call[w] = i /\ ~Decided(i)
  /\ stage \in Writes /\ jobs[w] # <<>> /\ log[i] = Request(stage, Head(jobs[w]))
  /\ Working(Head(jobs[w]))

LEMMA DecideEffect ==
  ASSUME ProperInput, IInv, ClientInv, DecideEntry
  PROVE  \E i \in 1..Len(log), w \in Callers : Accepts(i, w)
<1>1. PICK i \in DOMAIN existing :
        /\ phase = "update"
        /\ result' = [result EXCEPT ![i] = Decide(log[i], existing[i])]
        /\ pending' = IF Decide(log[i], existing[i]) = 200 THEN Append(pending, i) ELSE pending
        /\ existing' = [j \in DOMAIN existing \ {i} |-> existing[j]]
        /\ UNCHANGED <<hostVars, up, phase, batch, batchEnd, lastIndex, diskVars, tx, crashes>>
  BY DEF DecideEntry
<1>2. UNCHANGED <<log, block, answer, up, batch, batchEnd, applied, phase>>
  BY <1>1 DEF hostVars, diskVars
<1>3. Decide(log[i], existing[i]) = 200
  BY DEF ClientInv, Accepted
<1>4. i \in 1..Len(log) /\ i \in AtHand /\ i \notin batch /\ i <= batchEnd
  BY DEF IInv, TypeOK, AtHand, EntriesAtHand
<1>5. AtHand' = AtHand \ {i}
  BY <1>1, <1>2, <1>4 DEF AtHand
<1>6. Covered = batchEnd /\ Covered' = batchEnd
  BY <1>1, <1>2 DEF Covered
<1>7. \A j \in 1..Len(log) : Decided(j)' <=> Decided(j) \/ j = i
  BY <1>4, <1>5, <1>6 DEF Decided
<1>8. ~Decided(i)
  BY <1>4 DEF Decided
<1>9. PICK w \in Callers : /\ call[w] = i /\ stage \in Writes /\ jobs[w] # <<>>
                           /\ log[i] = Request(stage, Head(jobs[w]))
                           /\ Working(Head(jobs[w]))
  BY <1>4, <1>8, OpenCall DEF ClientInv
<1>10. Accepts(i, w)
  BY <1>1, <1>2, <1>3, <1>7, <1>8, <1>9 DEF Accepts
<1> QED BY <1>4, <1>10

LEMMA DecideKeepsBInv ==
  ASSUME ProperInput, IInv, BInv, ClientInv, DecideEntry
  PROVE  BInv'
<1>1. PICK i \in 1..Len(log), w \in Callers : Accepts(i, w)
  BY DecideEffect
<1>2. Welcome(log[i])
  BY <1>1, CallIsWelcome DEF ClientInv, Accepts
<1>3. log[i].type = "CREATE_PART" <=> ~LivePart(log[i].part)
  BY <1>2 DEF Welcome
<1> QED BY <1>1, <1>3, StoreAppend DEF Accepts

LEMMA AcceptWorking ==
  ASSUME ClientInv, UNCHANGED clientVars, NEW i \in 1..Len(log), NEW w \in Callers, Accepts(i, w),
         NEW key
  PROVE  Working(key)' <=> Working(key) /\ key # Head(jobs[w])
<1>0. /\ UNCHANGED <<stage, jobs, call>>
      /\ call[w] = i /\ i # 0 /\ ~Decided(i) /\ Decided(i)'
      /\ \A j \in 1..Len(log) : Decided(j)' <=> Decided(j) \/ j = i
  BY DEF clientVars, Accepts
<1>1. Head(jobs[w]) = jobs[w][1] /\ 1 \in 1..Len(jobs[w])
  BY JobsGiven DEF ClientInv, Accepts
<1>2. \A v \in Callers : call[v] # 0 => call[v] \in 1..Len(log)
  BY DEF ClientInv, CallsOpen, Accepts
<1>3. \A v \in Callers : call[v] = i => v = w
  BY <1>0 DEF ClientInv, CallsOpen
<1>4. \A v \in Callers : \A n \in 1..Len(jobs[v]) : jobs[v][n] = jobs[w][1] => v = w /\ n = 1
  BY <1>1 DEF ClientInv, JobsDiffer
<1>5. ASSUME Working(key)' PROVE Working(key) /\ key # Head(jobs[w])
  <2>0. PICK v \in Callers : \E n \in 1..Len(jobs[v]) :
          jobs[v][n] = key /\ (n = 1 /\ call[v] # 0 => ~Decided(call[v])')
    BY <1>0, <1>5 DEF Working
  <2>1. PICK n \in 1..Len(jobs[v]) : jobs[v][n] = key /\ (n = 1 /\ call[v] # 0 => ~Decided(call[v])')
    BY <2>0
  <2>2. n = 1 /\ call[v] # 0 => ~Decided(call[v])
    BY <1>0, <1>2, <2>1
  <2>3. key # jobs[w][1]
    BY <1>0, <1>4, <2>1
  <2> QED BY <1>1, <2>1, <2>2, <2>3 DEF Working
<1>6. ASSUME Working(key), key # Head(jobs[w]) PROVE Working(key)'
  <2>0. PICK v \in Callers : \E n \in 1..Len(jobs[v]) :
          jobs[v][n] = key /\ (n = 1 /\ call[v] # 0 => ~Decided(call[v]))
    BY <1>6 DEF Working
  <2>1. PICK n \in 1..Len(jobs[v]) : jobs[v][n] = key /\ (n = 1 /\ call[v] # 0 => ~Decided(call[v]))
    BY <2>0
  <2>2. n = 1 => v # w
    BY <1>1, <1>6, <2>1
  <2>3. n = 1 /\ call[v] # 0 => ~Decided(call[v])'
    BY <1>0, <1>2, <1>3, <2>1, <2>2
  <2> QED BY <1>0, <2>1, <2>3 DEF Working
<1> QED BY <1>5, <1>6

LEMMA AcceptFollows ==
  ASSUME ProperInput, IInv, ClientInv, UNCHANGED clientVars,
         NEW i \in 1..Len(log), NEW w \in Callers, Accepts(i, w)
  PROVE  StoreFollows'
<1> DEFINE key == Head(jobs[w])
<1>0. UNCHANGED <<stage, log, block>> /\ pending' = Append(pending, i)
  BY DEF clientVars, Accepts
<1>1. \A k : Working(k)' <=> Working(k) /\ k # key
  BY AcceptWorking
<1>2. \A p, id :
        /\ LivePart(p)' <=> IF log[i].part = p /\ log[i].type \in PartTypes
                            THEN log[i].type = "CREATE_PART" ELSE LivePart(p)
        /\ LiveDoc(p, id)' = IF log[i].part = p /\ (log[i].type \in PartTypes \/ log[i].id = id)
                             THEN IF log[i].type \in {"POST", "PUT"} THEN log[i].doc ELSE NoDoc
                             ELSE LiveDoc(p, id)
  BY <1>0, AppendStores
<1>3. stage \in Writes /\ log[i] = Request(stage, key) /\ Working(key) /\ key \in Given(stage)
  BY WorkingGiven DEF Accepts, ClientInv
<1>4. \A p \in Parts :
        /\ LivePart(p) <=> p \in PartSet /\ PartThere(p)
        /\ \A id \in Ids : LiveDoc(p, id) = IF <<p, id>> \in WordKeys THEN DocThere(<<p, id>>) ELSE NoDoc
  BY DEF ClientInv, StoreFollows
<1> HIDE DEF key
<1>5. CASE stage \in PartStages
  <2>1. PICK q \in PartSet : key = <<q, EmptyId>>
    BY <1>3, <1>5, GivenIs
  <2>2. \A k : Working(k)' <=> Working(k) /\ k # <<q, EmptyId>>
    BY <1>1, <2>1
  <2>3. CASE stage = "CREATE"
    <3>1. log[i] = CREATE_PART(q)
      BY <1>3, <2>1, <2>3, RequestIs
    <3>2. \A p, id : /\ LivePart(p)' <=> p = q \/ LivePart(p)
                     /\ LiveDoc(p, id)' = IF p = q THEN NoDoc ELSE LiveDoc(p, id)
      BY <1>2, <3>1 DEF CREATE_PART, PartTypes
    <3>3. \A p : PartThere(p)' <=> p = q \/ PartThere(p)
      BY <1>0, <2>2, <2>3 DEF PartThere
    <3>4. \A k : DocThere(k) = NoDoc /\ DocThere(k)' = NoDoc
      BY <1>0, <2>3 DEF DocThere
    <3> QED BY <1>4, <3>2, <3>3, <3>4 DEF StoreFollows
  <2>4. CASE stage = "DELETE"
    <3>1. log[i] = DELETE_PART(q)
      BY <1>3, <2>1, <2>4, RequestIs
    <3>2. \A p, id : /\ LivePart(p)' <=> p # q /\ LivePart(p)
                     /\ LiveDoc(p, id)' = IF p = q THEN NoDoc ELSE LiveDoc(p, id)
      BY <1>2, <3>1 DEF DELETE_PART, PartTypes
    <3>3. \A p : PartThere(p)' <=> p # q /\ PartThere(p)
      BY <1>0, <2>2, <2>4 DEF PartThere
    <3>4. \A p, id : DocThere(<<p, id>>)' = IF p = q THEN NoDoc ELSE DocThere(<<p, id>>)
      BY <1>0, <2>2, <2>4 DEF DocThere
    <3> QED BY <1>4, <3>2, <3>3, <3>4 DEF StoreFollows
  <2> QED BY <1>5, <2>3, <2>4 DEF PartStages
<1>6. CASE stage \in DocStages
  <2>1. key \in WordKeys
    BY <1>3, <1>6, GivenIs
  <2>2. PICK q \in PartSet, x \in Ids : key = <<q, x>>
    BY <2>1, KeysAre
  <2>3. \A k : Working(k)' <=> Working(k) /\ k # <<q, x>>
    BY <1>1, <2>2
  <2>4. \A p : PartThere(p) /\ PartThere(p)'
    BY <1>0, <1>6 DEF PartThere, DocStages
  <2>5. /\ stage = "POST" => log[i] = POST(q, x, Seeded(CreateTime))
        /\ stage = "PUT" => log[i] = PUT(q, x, CreateTime, Seeded(UpdateTime))
        /\ stage = "DEL" => log[i] = DEL(q, x, UpdateTime)
    BY <1>3, <2>2, RequestIs
  <2> DEFINE d == IF stage = "POST" THEN Seeded(CreateTime)
                  ELSE IF stage = "PUT" THEN Seeded(UpdateTime) ELSE NoDoc
  <2>6. \A p, id : /\ LivePart(p)' <=> LivePart(p)
                   /\ LiveDoc(p, id)' = IF p = q /\ id = x THEN d ELSE LiveDoc(p, id)
    BY <1>2, <1>3, <1>6, <2>5 DEF POST, PUT, DEL, PartTypes, Writes, DocStages
  <2>7. \A p, id : DocThere(<<p, id>>)' = IF p = q /\ id = x THEN d ELSE DocThere(<<p, id>>)
    BY <1>0, <1>3, <1>6, <2>3 DEF DocThere, Writes, DocStages
  <2> HIDE DEF d
  <2> QED BY <1>4, <2>1, <2>2, <2>4, <2>6, <2>7 DEF StoreFollows
<1> QED BY <1>3, <1>5, <1>6 DEF Writes, PartStages, DocStages

LEMMA DecideKeepsClientInv ==
  ASSUME ProperInput, IInv, ClientInv, UNCHANGED clientVars, DecideEntry
  PROVE  ClientInv' /\ up' = up
<1>1. PICK i \in 1..Len(log), w \in Callers : Accepts(i, w)
  BY DecideEffect
<1>2. /\ UNCHANGED <<stage, jobs, call, log, answer, up>>
      /\ \A j \in 1..Len(log) : Decided(j)' <=> Decided(j) \/ j = i
      /\ existing' = [j \in DOMAIN existing \ {i} |-> existing[j]]
      /\ result' = [result EXCEPT ![i] = 200]
      /\ result \in [1..MaxLog -> Codes] /\ Len(log) <= MaxLog /\ Len(log) \in Nat /\ MaxLog \in Nat
  BY <1>1, BoundsAssumption DEF Accepts, clientVars, IInv, TypeOK
<1>3. StoreFollows'
  BY <1>1, AcceptFollows
<1>4. JobsDiffer' /\ LogOfStage' /\ FlagsFollowed'
  <2>1. JobsDiffer'
    BY <1>2 DEF ClientInv, JobsDiffer
  <2> QED BY <1>2, <2>1 DEF ClientInv, LogOfStage, FlagsFollowed
<1>5. CallsOpen'
  BY <1>2 DEF ClientInv, CallsOpen
<1>6. Accepted'
  <2>1. \A j \in 1..Len(log) : Decided(j)' => result'[j] = 200
    BY <1>2 DEF ClientInv, Accepted
  <2>2. \A j \in 1..MaxLog : answer[j] # NoAnswer => answer[j] = 200 /\ j <= Len(log) /\ Decided(j)'
    BY <1>2 DEF ClientInv, Accepted
  <2>3. \A j \in DOMAIN existing' : Decide(log[j], existing'[j]) = 200
    BY <1>2 DEF ClientInv, Accepted
  <2> QED BY <1>2, <2>1, <2>2, <2>3 DEF Accepted
<1>7. FirstStart'
  <2>1. phase = "update"
    BY <1>1 DEF Accepts
  <2>2. up
    BY <2>1 DEF IInv, Memory
  <2> QED BY <1>2, <2>2 DEF FirstStart
<1> QED BY <1>2, <1>3, <1>4, <1>5, <1>6, <1>7 DEF ClientInv

-----------------------------------------------------------------------------
(* The GET that is being served. *)

(* It is for a document that is there throughout the batch. *)
LEMMA ServedDoc ==
  ASSUME ClientInv, GetFinds, reader # 0
  PROVE  \E p \in PartSet, id \in Ids :
           /\ get.key = <<p, id>> /\ p \in Parts /\ <<p, id>> \in WordKeys
           /\ LiveDoc(p, id) = Seeded(CreateTime)
<1>1. stage = "GET" /\ reader \in Callers /\ jobs[reader] # <<>> /\ get.key = Head(jobs[reader])
  BY DEF GetFinds
<1>2. get.key \in WordKeys
  BY <1>1, NextCall, GivenIs DEF ClientInv, DocStages
<1>3. PICK p \in PartSet, id \in Ids : get.key = <<p, id>>
  BY <1>2, KeysAre
<1>4. p \in Parts
  BY KeysAre
<1>5. LiveDoc(p, id) = Seeded(CreateTime)
  BY <1>1, <1>2, <1>3, <1>4 DEF ClientInv, StoreFollows, DocThere
<1> QED BY <1>2, <1>3, <1>4, <1>5

(* Update and Sync do not hide it from the GET. *)
LEMMA GetFindsObserve ==
  ASSUME IInv, IInv', GetType, BInv, ClientInv, ClientInv', GetFinds,
         [Next]_vars, up', Observe, UNCHANGED clientVars
  PROVE  GetFinds'
<1>1. UNCHANGED <<stage, jobs, reader>>
  BY DEF clientVars
<1>2. get \in Gets /\ get.i \in Nat
  BY BoundsAssumption DEF GetType, Gets
<1>3. UNCHANGED <<get.step, get.key, get.i, get.body>>
  BY <1>2 DEF Observe, Gets
<1>4. CASE reader = 0
  BY <1>1, <1>3, <1>4 DEF GetFinds
<1>5. CASE reader # 0
  <2>1. PICK p \in PartSet, id \in Ids :
          /\ get.key = <<p, id>> /\ p \in Parts /\ <<p, id>> \in WordKeys
          /\ LiveDoc(p, id) = Seeded(CreateTime)
    BY <1>5, ServedDoc
  <2>2. stage = "GET"
    BY <1>5 DEF GetFinds
  <2>3. LiveDoc(p, id)' = Seeded(CreateTime)
    BY <1>1, <2>1, <2>2 DEF ClientInv, StoreFollows, DocThere
  <2>4. ~Stop /\ 0 \in Nat
    BY DEF Stop
  <2>5. PICK i \in Nat : get.i = i /\ get'.i = i
    BY <1>2, <1>3
  <2>6. DiskDoc(p, id) = Seeded(CreateTime) => DiskDoc(p, id)' = Seeded(CreateTime)
    <3>1. Rest(0, p, id) = DiskDoc(p, id) /\ Rest(0, p, id)' = DiskDoc(p, id)'
      BY RestIs, RestIsNext DEF RestIsNow, IInv
    <3>2. Rest(0, p, id)' \in {Rest(0, p, id), LiveDoc(p, id), LiveDoc(p, id)'}
      BY <2>1, <2>4, RestStep
    <3> QED BY <2>1, <2>3, <3>1, <3>2
  <2>7. get.step = "scan" => Rest(i, p, id)' = Seeded(CreateTime)
    <3>1. get.step = "scan" => Rest(i, p, id) = Seeded(CreateTime)
      BY <1>5, <2>1, <2>5 DEF GetFinds
    <3> QED BY <2>1, <2>3, <2>4, <3>1, RestStep
  <2>8. get.step = "state" => DiskDoc(p, id)' = Seeded(CreateTime)
    BY <1>5, <2>1, <2>6 DEF GetFinds
  <2>9. get.step = "scan" => Rest(get.i, get.key[1], get.key[2])' = Seeded(CreateTime)
    BY <1>3, <2>1, <2>5, <2>7 DEF Rest
  <2> QED BY <1>1, <1>3, <1>5, <2>1, <2>7, <2>8, <2>9 DEF GetFinds
<1> QED BY <1>4, <1>5

(* A step of the GET leads on to the document. *)
LEMMA QuietVars ==
  ASSUME IInv, BInv, UNCHANGED vars
  PROVE  /\ BInv' /\ SameLives /\ SameDecided
         /\ \A i : Decided(i)' <=> Decided(i)
         /\ \A p, id : DiskDoc(p, id)' = DiskDoc(p, id)
         /\ \A i, p, id : Rest(i, p, id)' = Rest(i, p, id)
<1>1. UNCHANGED <<log, pending, block, tx, phase, applied, batch, batchEnd, existing>>
  BY DEF vars
<1>2. SameQueue
  BY <1>1 DEF SameQueue
<1>3. BInv'
  BY <1>1, <1>2, StoreFrame
<1>4. \A i : Decided(i)' <=> Decided(i)
  BY <1>1 DEF Decided, Covered, AtHand
<1>5. \A p, id : DiskDoc(p, id)' = DiskDoc(p, id)
  BY <1>1 DEF DiskDoc, DiskPart
<1>6. \A i, p, id : Rest(i, p, id)' = Rest(i, p, id)
  BY <1>1, <1>5 DEF Rest, Queue, UpTo
<1> QED BY <1>1, <1>3, <1>4, <1>5, <1>6, LivesFrame DEF SameDecided

LEMMA ReadFinds ==
  ASSUME ProperInput, IInv, GetType, BInv, ClientInv, GetFinds, ReadStep
  PROVE  BInv' /\ ClientInv' /\ GetFinds'
<1>1. UNCHANGED vars /\ UNCHANGED clientVars
  BY DEF ReadStep, LookupScan, LookupInState
<1>2. UNCHANGED <<stage, jobs, call, reader, log, result, answer, existing, up, metaIndex, applied>>
  BY <1>1 DEF vars, clientVars
<1>3. BInv' /\ ClientInv'
  <2>1. Accepted'
    BY <1>1, <1>2, QuietVars, AcceptedFrame DEF ClientInv
  <2>2. FirstStart'
    BY <1>2 DEF ClientInv, FirstStart
  <2> QED BY <1>1, <1>2, <2>1, <2>2, QuietVars, QuietStep
<1>4. get \in Gets /\ get.step \in {"scan", "state"} /\ reader # 0
  BY DEF ReadStep, LookupScan, LookupInState, GetType, GetFinds
<1>5. PICK p \in PartSet, id \in Ids :
        /\ get.key = <<p, id>> /\ p \in Parts /\ <<p, id>> \in WordKeys
        /\ LiveDoc(p, id) = Seeded(CreateTime)
  BY <1>4, ServedDoc
<1>6. Seeded(CreateTime) # NoDoc
  BY <1>5, SeededIs, NoDocAssumption
<1>7. ASSUME LookupScan, get.i = 0 PROVE GetFinds'
  <2>1. get' = [get EXCEPT !.step = "state"] /\ get.step = "scan"
    BY <1>7 DEF LookupScan
  <2>2. get'.step = "state" /\ get'.key = get.key
    BY <1>4, <2>1 DEF Gets
  <2>3. DiskDoc(p, id) = Seeded(CreateTime)
    BY <1>4, <1>5, <1>7, <2>1, RestIs DEF GetFinds, IInv
  <2>4. DiskDoc(p, id)' = Seeded(CreateTime)
    BY <1>1, <2>3, QuietVars
  <2> QED BY <1>2, <1>4, <1>5, <2>2, <2>4 DEF GetFinds
<1>8. ASSUME LookupScan, get.i # 0 PROVE GetFinds'
  <2> DEFINE q == Queued(get.i)
             hit == Matches(q, [part |-> p, id |-> id])
  <2>1. get.step = "scan" /\ get.i \in 1..Len(pending)
    BY <1>4, <1>8, QueueType DEF LookupScan, IInv, Gets
  <2>2. Seeded(CreateTime) = IF hit THEN IF q.type \in {"POST", "PUT"} THEN q.doc ELSE NoDoc
                             ELSE Rest(get.i - 1, p, id)
    BY <1>4, <1>5, <2>1, RestDown DEF GetFinds, IInv
  <2>3. get' = IF hit THEN AnswerFromPending(q) ELSE [get EXCEPT !.i = @ - 1]
    BY <1>5, <1>8 DEF LookupScan
  <2> HIDE DEF q, hit
  <2>4. CASE hit
    <3>1. q.type \in {"POST", "PUT"} /\ q.doc = Seeded(CreateTime)
      BY <1>6, <2>2, <2>4
    <3>2. get' = [get EXCEPT !.step = "done", !.body = q.doc]
      BY <2>3, <2>4, <3>1 DEF AnswerFromPending
    <3>3. get'.step = "done" /\ get'.body = Seeded(CreateTime) /\ get'.key = get.key
      BY <1>4, <3>1, <3>2 DEF Gets
    <3> QED BY <1>2, <1>4, <3>3 DEF GetFinds
  <2>5. CASE ~hit
    <3>1. get'.step = "scan" /\ get'.key = get.key /\ get'.i = get.i - 1
      BY <1>4, <2>1, <2>3, <2>5 DEF Gets
    <3>2. PICK i \in Int : get.i - 1 = i
      BY <2>1
    <3>3. Rest(i, p, id)' = Seeded(CreateTime)
      BY <1>1, <2>2, <2>5, <3>2, QuietVars
    <3>4. Rest(get.i, get.key[1], get.key[2])' = Seeded(CreateTime)
      BY <1>5, <3>1, <3>2, <3>3 DEF Rest
    <3> QED BY <1>2, <1>4, <3>1, <3>4 DEF GetFinds
  <2> QED BY <2>4, <2>5
<1>9. ASSUME LookupInState PROVE GetFinds'
  <2>1. FirstRune[p] \in Shards
    BY DEF ProperInput, PartSet
  <2>2. get.step = "state" /\ get'.step = "done" /\ get'.key = get.key
        /\ get'.body = GetDocumentString(block[FirstRune[p]], p, id)
    BY <1>4, <1>5, <1>9, <2>1 DEF LookupInState, Gets
  <2>3. GetDocumentString(block[FirstRune[p]], p, id) = DiskDoc(p, id)
    BY <2>1 DEF GetDocumentString, DiskDoc, DiskPart
  <2>4. DiskDoc(p, id) = Seeded(CreateTime)
    BY <1>4, <1>5, <2>2 DEF GetFinds
  <2> QED BY <1>2, <1>4, <2>2, <2>3, <2>4 DEF GetFinds
<1> QED BY <1>3, <1>7, <1>8, <1>9 DEF ReadStep

-----------------------------------------------------------------------------
(* The steps of the goroutines. *)

LEMMA CallWriteKeeps ==
  ASSUME ProperInput, IInv, BInv, ClientInv, GetFinds, NEW w \in Callers, CallWrite(w)
  PROVE  BInv' /\ ClientInv' /\ GetFinds'
<1> DEFINE key == Head(jobs[w])
           cmd == Request(stage, key)
           n == Len(log)
<1>1. /\ stage \in Writes /\ jobs[w] # <<>> /\ call[w] = 0
      /\ log' = Append(log, cmd) /\ call' = [call EXCEPT ![w] = n + 1]
      /\ UNCHANGED <<stage, jobs, reader, applied, answer, up, phase, batch, existing, batchEnd, result,
                     pending, metaIndex, block, tx>>
  BY DEF CallWrite, Propose, updateVars, diskVars
<1>2. n \in Nat /\ Len(log') = n + 1 /\ log'[n + 1] = cmd /\ \A i \in 1..n : log'[i] = log[i]
  BY <1>1 DEF IInv, TypeOK
<1>3. Covered <= n /\ \A i : Decided(i)' <=> Decided(i)
  BY <1>1 DEF Covered, Decided, AtHand, IInv, TypeOK
<1>4. ~Decided(n + 1) /\ SameDecided
  <2>1. Covered \in Nat
    BY DEF Covered, IInv, TypeOK
  <2> QED BY <1>2, <1>3, <2>1 DEF Decided, SameDecided
<1>5. SameQueue
  BY <1>1, <1>2 DEF SameQueue
<1>6. BInv' /\ SameLives
  <2>1. BInv'
    BY <1>1, <1>5, StoreFrame
  <2> QED BY <1>1, <1>5, <2>1, FrameStores DEF SameLives
<1>7. key = jobs[w][1] /\ 1 \in 1..Len(jobs[w])
  BY <1>1, JobsGiven DEF ClientInv
<1>8. Working(key)
  BY <1>1, <1>7 DEF Working
<1>9. cmd.part \in PartSet
  BY <1>1, <1>8, CallIsWelcome DEF ClientInv
<1>10. stage \in {"CREATE", "POST"} => cmd.type # "DEL"
  BY DEF Request, CREATE_PART, POST
<1> HIDE DEF key, cmd, n
<1>11. call \in [Callers -> 0..n] /\ call'[w] = n + 1 /\ \A v \in Callers \ {w} : call'[v] = call[v]
  BY <1>1 DEF ClientInv, CallsOpen, n
<1>12. SameWorking
  <2>1. \A v \in Callers : (call[v] # 0 => ~Decided(call[v]))' <=> (call[v] # 0 => ~Decided(call[v]))
    BY <1>1, <1>2, <1>3, <1>4, <1>11
  <2> QED BY <1>1, <2>1 DEF Working, SameWorking
<1>13. StoreFollows'
  BY <1>1, <1>6, <1>12, FollowsFrame DEF ClientInv
<1>14. JobsDiffer'
  <2>1. UNCHANGED <<stage, jobs>>
    BY <1>1
  <2> QED BY <2>1 DEF ClientInv, JobsDiffer
<1>15. CallsOpen'
  <2>1. call' \in [Callers -> 0..Len(log')]
    BY <1>1, <1>2, <1>11
  <2>2. \A v \in Callers :
          call'[v] # 0 => stage \in Writes /\ jobs[v] # <<>> /\ log'[call'[v]] = Request(stage, Head(jobs[v]))
    BY <1>1, <1>2, <1>11 DEF ClientInv, CallsOpen, key, cmd
  <2>3. \A u, v \in Callers : call'[u] = call'[v] /\ call'[u] # 0 => u = v
    BY <1>2, <1>11 DEF ClientInv, CallsOpen
  <2>4. \A i \in 1..Len(log') : ~Decided(i)' => \E v \in Callers : call'[v] = i
    <3> SUFFICES ASSUME NEW i \in 1..Len(log'), ~Decided(i)' PROVE \E v \in Callers : call'[v] = i
      OBVIOUS
    <3>1. CASE i = n + 1
      BY <1>11, <3>1
    <3>2. CASE i # n + 1
      <4>1. i \in 1..n /\ i # 0 /\ ~Decided(i)
        BY <1>2, <1>3, <3>2
      <4>2. PICK v \in Callers : call[v] = i
        BY <4>1 DEF ClientInv, CallsOpen, n
      <4> QED BY <1>1, <1>11, <4>1, <4>2
    <3> QED BY <3>1, <3>2
  <2> QED BY <1>1, <2>1, <2>2, <2>3, <2>4 DEF CallsOpen
<1>16. Accepted'
  <2>1. \A i \in 1..Len(log') : Decided(i)' => result'[i] = 200
    BY <1>1, <1>2, <1>3, <1>4 DEF ClientInv, Accepted, n
  <2>2. \A i \in 1..MaxLog : answer'[i] # NoAnswer => answer'[i] = 200 /\ i <= Len(log') /\ Decided(i)'
    BY <1>1, <1>2, <1>3, BoundsAssumption DEF ClientInv, Accepted, n
  <2>3. \A i \in DOMAIN existing : i \in 1..n
    BY DEF IInv, TypeOK, n
  <2> QED BY <1>1, <1>2, <2>1, <2>2, <2>3 DEF ClientInv, Accepted
<1>17. LogOfStage'
  BY <1>1, <1>2, <1>9, <1>10 DEF ClientInv, LogOfStage, n
<1>18. FlagsFollowed' /\ FirstStart'
  BY <1>1 DEF ClientInv, FlagsFollowed, FirstStart
<1>19. GetFinds'
  <2>1. reader = 0 /\ get.step = "none"
    BY <1>1 DEF GetFinds, Writes
  <2>2. get' = get
    BY <2>1 DEF CallWrite, Observe
  <2> QED BY <1>1, <2>1, <2>2 DEF GetFinds
<1> QED BY <1>6, <1>13, <1>14, <1>15, <1>16, <1>17, <1>18, <1>19 DEF ClientInv

(* The key at the head is done with. *)
LEMMA TailJobs ==
  ASSUME JobsDiffer, NEW w \in Callers, jobs[w] # <<>>, jobs' = [jobs EXCEPT ![w] = Tail(@)], stage' = stage
  PROVE  /\ JobsDiffer'
         /\ Len(jobs'[w]) = Len(jobs[w]) - 1
         /\ \A n \in 1..Len(jobs'[w]) : jobs'[w][n] = jobs[w][n + 1]
         /\ \A v \in Callers \ {w} : jobs'[v] = jobs[v]
<1>1. DOMAIN jobs = Callers /\ \A v \in Callers : jobs[v] \in Seq(GivenTo(stage, v))
  BY DEF JobsDiffer
<1>2. jobs'[w] = Tail(jobs[w]) /\ \A v \in Callers \ {w} : jobs'[v] = jobs[v]
  BY <1>1
<1>3. /\ Tail(jobs[w]) \in Seq(GivenTo(stage, w)) /\ Len(Tail(jobs[w])) = Len(jobs[w]) - 1
      /\ \A n \in 1..Len(Tail(jobs[w])) : Tail(jobs[w])[n] = jobs[w][n + 1]
  BY <1>1, HeadTailProperties
<1>4. /\ jobs'[w] \in Seq(GivenTo(stage, w)) /\ Len(jobs'[w]) = Len(jobs[w]) - 1
      /\ \A n \in 1..Len(jobs'[w]) : jobs'[w][n] = jobs[w][n + 1]
  BY <1>2, <1>3
<1>5. DOMAIN jobs' = Callers
  BY <1>1
<1>6. \A v \in Callers : jobs'[v] \in Seq(GivenTo(stage, v))
  BY <1>1, <1>2, <1>4
<1>7. \A v \in Callers : Len(jobs[v]) \in Nat
  BY <1>1
<1>8. \A v \in Callers : \A m \in 1..Len(jobs'[v]) :
        IF v = w THEN m + 1 \in 1..Len(jobs[v]) /\ jobs'[v][m] = jobs[v][m + 1]
                 ELSE m \in 1..Len(jobs[v]) /\ jobs'[v][m] = jobs[v][m]
  BY <1>2, <1>4, <1>7
<1>9. \A u, v \in Callers : \A m \in 1..Len(jobs'[u]), n \in 1..Len(jobs'[v]) :
        jobs'[u][m] = jobs'[v][n] => u = v /\ m = n
  <2> SUFFICES ASSUME NEW u \in Callers, NEW v \in Callers,
                      NEW m \in 1..Len(jobs'[u]), NEW n \in 1..Len(jobs'[v]), jobs'[u][m] = jobs'[v][n]
               PROVE  u = v /\ m = n
    OBVIOUS
  <2>1. PICK a \in 1..Len(jobs[u]) : jobs'[u][m] = jobs[u][a] /\ a = IF u = w THEN m + 1 ELSE m
    BY <1>8
  <2>2. PICK b \in 1..Len(jobs[v]) : jobs'[v][n] = jobs[v][b] /\ b = IF v = w THEN n + 1 ELSE n
    BY <1>8
  <2>3. u = v /\ a = b
    BY <2>1, <2>2 DEF JobsDiffer
  <2> QED BY <2>1, <2>2, <2>3
<1>10. JobsDiffer'
  BY <1>5, <1>6, <1>9 DEF JobsDiffer
<1> QED BY <1>2, <1>4, <1>10

LEMMA WriteAnsweredKeeps ==
  ASSUME IInv, BInv, ClientInv, GetFinds, NEW w \in Callers, WriteAnswered(w)
  PROVE  stage' = stage /\ BInv' /\ ClientInv' /\ GetFinds'
<1> DEFINE i == call[w]
<1>1. /\ i # 0 /\ answer[i] # NoAnswer /\ Receive(w, answer[i])
      /\ call' = [call EXCEPT ![w] = 0] /\ UNCHANGED vars /\ get' = get /\ reader' = reader
  BY DEF WriteAnswered, lookupVars
<1>2. /\ call \in [Callers -> 0..Len(log)] /\ stage \in Writes /\ jobs[w] # <<>>
      /\ i \in 1..Len(log) /\ i \in 1..MaxLog
  BY <1>1, BoundsAssumption DEF ClientInv, CallsOpen, IInv, TypeOK
<1>3. answer[i] = 200 /\ Decided(i)
  BY <1>1, <1>2 DEF ClientInv, Accepted
<1>4. jobs' = [jobs EXCEPT ![w] = Tail(@)] /\ stage' = stage
  BY <1>1, <1>3 DEF Receive
<1>5. UNCHANGED <<log, result, answer, existing, up, metaIndex, applied>>
  BY <1>1 DEF vars
<1>6. BInv' /\ SameLives /\ SameDecided /\ \A j : Decided(j)' <=> Decided(j)
  BY <1>1, QuietVars
<1> HIDE DEF i
<1>7. call'[w] = 0 /\ \A v \in Callers \ {w} : call'[v] = call[v]
  BY <1>1, <1>2
<1>8. /\ JobsDiffer'
      /\ Len(jobs'[w]) = Len(jobs[w]) - 1
      /\ \A n \in 1..Len(jobs'[w]) : jobs'[w][n] = jobs[w][n + 1]
      /\ \A v \in Callers \ {w} : jobs'[v] = jobs[v]
  BY <1>2, <1>4, TailJobs DEF ClientInv
<1>9. Len(jobs[w]) \in Nat /\ Len(jobs[w]) >= 1
  BY <1>2, JobsGiven DEF ClientInv
<1>10. SameWorking
  <2> SUFFICES ASSUME NEW key PROVE Working(key)' <=> Working(key)
    BY DEF SameWorking
  <2>1. ASSUME Working(key)' PROVE Working(key)
    <3>1. PICK v \in Callers : \E n \in 1..Len(jobs'[v]) :
            jobs'[v][n] = key /\ (n = 1 /\ call'[v] # 0 => ~Decided(call[v])')
      BY <2>1 DEF Working
    <3>2. PICK n \in 1..Len(jobs'[v]) : jobs'[v][n] = key /\ (n = 1 /\ call'[v] # 0 => ~Decided(call[v])')
      BY <3>1
    <3>3. CASE v = w
      <4>1. n + 1 \in 1..Len(jobs[w]) /\ jobs[w][n + 1] = key /\ n + 1 # 1
        BY <1>8, <1>9, <3>2, <3>3
      <4> QED BY <4>1 DEF Working
    <3>4. CASE v # w
      <4>1. n \in 1..Len(jobs[v]) /\ jobs[v][n] = key
        BY <1>8, <3>2, <3>4
      <4>2. n = 1 /\ call[v] # 0 => ~Decided(call[v])
        BY <1>6, <1>7, <3>2, <3>4
      <4> QED BY <4>1, <4>2 DEF Working
    <3> QED BY <3>3, <3>4
  <2>2. ASSUME Working(key) PROVE Working(key)'
    <3>1. PICK v \in Callers : \E n \in 1..Len(jobs[v]) :
            jobs[v][n] = key /\ (n = 1 /\ call[v] # 0 => ~Decided(call[v]))
      BY <2>2 DEF Working
    <3>2. PICK n \in 1..Len(jobs[v]) : jobs[v][n] = key /\ (n = 1 /\ call[v] # 0 => ~Decided(call[v]))
      BY <3>1
    <3>3. CASE v = w
      <4>1. n # 1
        BY <1>1, <1>3, <3>2, <3>3 DEF i
      <4>2. PICK m \in Nat : m = n - 1
        BY <4>1, <3>2
      <4>3. m \in 1..Len(jobs'[w]) /\ n = m + 1
        BY <1>8, <1>9, <3>2, <3>3, <4>1, <4>2
      <4>4. jobs'[w][m] = key
        BY <1>8, <3>2, <3>3, <4>3
      <4> QED BY <1>7, <4>3, <4>4 DEF Working
    <3>4. CASE v # w
      <4>1. n \in 1..Len(jobs'[v]) /\ jobs'[v][n] = key
        BY <1>8, <3>2, <3>4
      <4>2. n = 1 /\ call'[v] # 0 => ~Decided(call[v])'
        BY <1>6, <1>7, <3>2, <3>4
      <4> QED BY <4>1, <4>2 DEF Working
    <3> QED BY <3>3, <3>4
  <2> QED BY <2>1, <2>2
<1>11. StoreFollows'
  BY <1>4, <1>6, <1>10, FollowsFrame DEF ClientInv
<1>12. CallsOpen'
  <2>1. call' \in [Callers -> 0..Len(log)]
    BY <1>1, <1>2
  <2>2. \A v \in Callers :
          call'[v] # 0 => stage \in Writes /\ jobs'[v] # <<>> /\ log[call'[v]] = Request(stage, Head(jobs'[v]))
    BY <1>7, <1>8 DEF ClientInv, CallsOpen
  <2>3. \A u, v \in Callers : call'[u] = call'[v] /\ call'[u] # 0 => u = v
    BY <1>7 DEF ClientInv, CallsOpen
  <2>4. \A j \in 1..Len(log) : ~Decided(j)' => \E v \in Callers : call'[v] = j
    <3> SUFFICES ASSUME NEW j \in 1..Len(log), ~Decided(j) PROVE \E v \in Callers : call'[v] = j
      BY <1>6
    <3>1. PICK v \in Callers : call[v] = j
      BY DEF ClientInv, CallsOpen
    <3>2. v # w
      BY <1>3, <3>1 DEF i
    <3> QED BY <1>7, <3>1, <3>2
  <2> QED BY <1>4, <1>5, <2>1, <2>2, <2>3, <2>4 DEF CallsOpen
<1>13. Accepted'
  BY <1>5, <1>6, AcceptedFrame DEF ClientInv
<1>14. LogOfStage' /\ FlagsFollowed' /\ FirstStart'
  BY <1>4, <1>5 DEF ClientInv, LogOfStage, FlagsFollowed, FirstStart
<1>15. GetFinds'
  <2>1. reader = 0 /\ get.step = "none"
    BY <1>2 DEF GetFinds, Writes
  <2> QED BY <1>1, <2>1 DEF GetFinds
<1> QED BY <1>4, <1>6, <1>8, <1>11, <1>12, <1>13, <1>14, <1>15 DEF ClientInv

LEMMA CallGetKeeps ==
  ASSUME ProperInput, IInv, BInv, ClientInv, GetFinds, NEW w \in Callers, CallGet(w)
  PROVE  BInv' /\ ClientInv' /\ GetFinds'
<1>1. /\ stage = "GET" /\ jobs[w] # <<>> /\ reader' = w
      /\ UNCHANGED vars /\ UNCHANGED <<stage, jobs, call>>
  BY DEF CallGet, LookupStart
<1>2. UNCHANGED <<log, result, answer, existing, up, metaIndex, applied>>
  BY <1>1 DEF vars
<1>3. BInv' /\ SameLives /\ SameDecided
  BY <1>1, QuietVars
<1>4. SameWorking
  BY <1>1, <1>3, WorkingFrame DEF ClientInv
<1>5. StoreFollows'
  BY <1>1, <1>3, <1>4, FollowsFrame DEF ClientInv
<1>6. JobsDiffer'
  <2>1. UNCHANGED <<stage, jobs>>
    BY <1>1
  <2> QED BY <2>1 DEF ClientInv, JobsDiffer
<1>7. CallsOpen'
  BY <1>1, <1>2, <1>3 DEF ClientInv, CallsOpen, SameDecided
<1>8. Accepted'
  BY <1>2, <1>3, AcceptedFrame DEF ClientInv
<1>9. LogOfStage' /\ FlagsFollowed' /\ FirstStart'
  BY <1>1, <1>2 DEF ClientInv, LogOfStage, FlagsFollowed, FirstStart
<1>10. GetFinds'
  <2> DEFINE key == Head(jobs[w])
  <2>1. get' = [NoGet EXCEPT !.step = "scan", !.key = key, !.i = ScanFrom,
                             !.seen = {LiveDoc(key[1], key[2])}]
    BY DEF CallGet, LookupStart
  <2>2. get'.step = "scan" /\ get'.key = key /\ get'.i = Len(pending)
    BY <2>1 DEF NoGet, ScanFrom
  <2>3. key \in WordKeys
    BY <1>1, NextCall, GivenIs DEF ClientInv, DocStages
  <2> HIDE DEF key
  <2>4. PICK p \in PartSet, id \in Ids : key = <<p, id>>
    BY <2>3, KeysAre
  <2>5. LiveDoc(p, id) = Seeded(CreateTime)
    BY <1>1, <2>3, <2>4, KeysAre DEF ClientInv, StoreFollows, DocThere
  <2>6. Len(pending) \in Nat /\ Rest(Len(pending), p, id) = LiveDoc(p, id)
    BY RestIs, QueueType DEF IInv
  <2>7. PICK i \in Nat : i = Len(pending)
    BY <2>6
  <2>8. Rest(i, p, id)' = Seeded(CreateTime)
    BY <1>1, <2>5, <2>6, <2>7, QuietVars
  <2>9. Rest(get.i, get.key[1], get.key[2])' = Seeded(CreateTime)
    BY <2>2, <2>4, <2>7, <2>8 DEF Rest
  <2>10. w # 0
    <3>1. jobs[w] \in Seq(GivenTo("GET", w))
      BY <1>1 DEF ClientInv, JobsDiffer
    <3>2. ASSUME w = 0 PROVE FALSE
      <4>1. Jobs("GET")[w] = <<>>
        <5>1. "GET" \notin PartStages
          BY DEF PartStages
        <5> QED BY <3>2, <5>1, JobsOf
      <4>2. GivenTo("GET", w) = {}
        BY <4>1 DEF GivenTo
      <4> QED BY <1>1, <3>1, <4>2
    <3> QED BY <3>2
  <2> QED BY <1>1, <2>2, <2>9, <2>10 DEF GetFinds, key
<1> QED BY <1>3, <1>5, <1>6, <1>7, <1>8, <1>9, <1>10 DEF ClientInv

LEMMA GetAnsweredKeeps ==
  ASSUME IInv, GetType, BInv, ClientInv, GetFinds, GetAnswered
  PROVE  stage' = stage /\ BInv' /\ ClientInv' /\ GetFinds'
<1>1. /\ get.step \in {"done", "error"} /\ get' = NoGet /\ UNCHANGED vars
      /\ reader' = 0 /\ call' = call
  BY DEF GetAnswered, LookupReturn
<1>2. /\ reader # 0 /\ stage = "GET" /\ reader \in Callers /\ jobs[reader] # <<>>
      /\ get.step = "done" /\ get.body = Seeded(CreateTime)
  BY <1>1 DEF GetFinds
<1>3. Seeded(CreateTime) # NoDoc
  BY <1>2, ServedDoc, SeededIs, NoDocAssumption
<1>4. stage' = stage /\ jobs' = [jobs EXCEPT ![reader] = Tail(@)]
  BY <1>2, <1>3 DEF GetAnswered, Receive
<1>5. UNCHANGED <<log, result, answer, existing, up, metaIndex, applied>>
  BY <1>1 DEF vars
<1>6. BInv' /\ SameLives /\ SameDecided
  BY <1>1, QuietVars
<1>7. StoreFollows'
  <2>1. \A p : PartThere(p) /\ PartThere(p)'
    BY <1>2, <1>4 DEF PartThere
  <2>2. \A key : DocThere(key)' = DocThere(key)
    BY <1>2, <1>4 DEF DocThere
  <2> QED BY <1>6, <2>1, <2>2 DEF ClientInv, StoreFollows, SameLives
<1>8. JobsDiffer'
  BY <1>2, <1>4, TailJobs DEF ClientInv
<1>9. CallsOpen'
  <2>1. \A w \in Callers : call[w] = 0
    BY <1>2 DEF ClientInv, CallsOpen, Writes
  <2>2. \A i \in 1..Len(log) : ~Decided(i)' => \E w \in Callers : call[w] = i
    BY <1>6 DEF ClientInv, CallsOpen, SameDecided
  <2> QED BY <1>1, <1>5, <2>1, <2>2 DEF ClientInv, CallsOpen
<1>10. Accepted'
  BY <1>5, <1>6, AcceptedFrame DEF ClientInv
<1>11. LogOfStage' /\ FlagsFollowed' /\ FirstStart'
  BY <1>4, <1>5 DEF ClientInv, LogOfStage, FlagsFollowed, FirstStart
<1>12. GetFinds'
  BY <1>1, NoGetType DEF GetFinds
<1> QED BY <1>4, <1>6, <1>7, <1>8, <1>9, <1>10, <1>11, <1>12 DEF ClientInv

(* Between two stages nothing is open, and the store is as the next one      *)
(* expects it.                                                               *)
LEMMA BatchDoneKeeps ==
  ASSUME ProperInput, IInv, BInv, ClientInv, GetFinds, BatchDone, stage \in Stages
  PROVE  stage' \in Stages \ {"fatal", "lost"} /\ BInv' /\ ClientInv' /\ GetFinds'
<1>1. /\ stage \in Writes \cup {"GET"} /\ stage' = NextStage /\ jobs' = Jobs(stage')
      /\ UNCHANGED vars /\ get' = get /\ UNCHANGED <<call, reader>>
      /\ \A w \in Callers : jobs[w] = <<>>
  BY DEF BatchDone, WorkersDone, lookupVars, Stages
<1>2. UNCHANGED <<log, result, answer, existing, up, metaIndex, applied>>
  BY <1>1 DEF vars
<1>3. BInv' /\ SameLives /\ SameDecided
  BY <1>1, QuietVars
<1>4. \A w \in Callers : call[w] = 0
  BY <1>1 DEF ClientInv, CallsOpen
<1>5. \A i \in 1..Len(log) : Decided(i)
  <2> SUFFICES ASSUME NEW i \in 1..Len(log), ~Decided(i) PROVE FALSE
    OBVIOUS
  <2>1. PICK w \in Callers : call[w] = i
    BY DEF ClientInv, CallsOpen
  <2> QED BY <1>4, <2>1
<1>6. \A key : ~Working(key)
  BY <1>1 DEF Working
<1>7. JobsDiffer' /\ \A key : Working(key)' <=> key \in Given(stage')
  <2>1. Fresh'
    BY <1>1, <1>4 DEF Fresh
  <2> QED BY <2>1, FreshNext DEF FreshNow
<1>8. \/ stage = "CREATE" /\ stage' = "POST"
      \/ stage = "POST" /\ stage' = "GET"
      \/ stage = "GET" /\ stage' = "PUT"
      \/ stage = "PUT" /\ SkipDelete /\ stage' = "end"
      \/ stage = "PUT" /\ ~SkipDelete /\ DeletePart /\ stage' = "DELETE"
      \/ stage = "PUT" /\ ~SkipDelete /\ ~DeletePart /\ stage' = "DEL"
      \/ stage = "DEL" /\ stage' = "DELETE"
      \/ stage = "DELETE" /\ stage' = "end"
  BY <1>1 DEF NextStage, Writes
<1>9. /\ stage = "DEL" => ~SkipDelete /\ ~DeletePart
      /\ stage = "DELETE" => ~SkipDelete
  BY DEF ClientInv, FlagsFollowed
<1>10. FlagsFollowed' /\ stage' \in Stages \ {"fatal", "lost"}
  BY <1>8, <1>9 DEF FlagsFollowed, Stages, Writes
<1>11. StoreFollows'
  <2>1. ASSUME NEW p \in PartSet PROVE PartThere(p)' <=> PartThere(p)
    <3>1. ~Working(<<p, EmptyId>>)
      BY <1>6
    <3>2. stage' = "DELETE" => Working(<<p, EmptyId>>)'
      BY <1>7, GivenIs DEF PartStages
    <3> QED BY <1>8, <1>9, <3>1, <3>2 DEF PartThere
  <2>2. ASSUME NEW key \in WordKeys PROVE DocThere(key)' = DocThere(key)
    <3>1. ~Working(key) /\ ~Working(<<key[1], EmptyId>>)
      BY <1>6
    <3>2. stage' \in {"POST", "PUT", "DEL"} => Working(key)'
      BY <1>7, GivenIs DEF DocStages
    <3>3. stage' = "DELETE" => Working(<<key[1], EmptyId>>)'
      BY <1>7, KeysAre, GivenIs DEF PartStages
    <3>4. CASE stage = "CREATE" /\ stage' = "POST"
      BY <3>1, <3>2, <3>4 DEF DocThere
    <3>5. CASE stage = "POST" /\ stage' = "GET"
      BY <3>1, <3>5 DEF DocThere
    <3>6. CASE stage = "GET" /\ stage' = "PUT"
      BY <3>2, <3>6 DEF DocThere
    <3>7. CASE stage = "PUT" /\ SkipDelete /\ stage' = "end"
      BY <3>1, <3>7 DEF DocThere
    <3>8. CASE stage = "PUT" /\ ~SkipDelete /\ DeletePart /\ stage' = "DELETE"
      BY <3>1, <3>3, <3>8 DEF DocThere
    <3>9. CASE stage = "PUT" /\ ~SkipDelete /\ ~DeletePart /\ stage' = "DEL"
      BY <3>1, <3>2, <3>9 DEF DocThere
    <3>10. CASE stage = "DEL" /\ stage' = "DELETE"
      BY <1>9, <3>1, <3>10 DEF DocThere
    <3>11. CASE stage = "DELETE" /\ stage' = "end"
      BY <1>9, <3>1, <3>11 DEF DocThere
    <3> QED BY <1>8, <3>4, <3>5, <3>6, <3>7, <3>8, <3>9, <3>10, <3>11
  <2> QED BY <1>3, <2>1, <2>2 DEF ClientInv, StoreFollows, SameLives
<1>12. CallsOpen'
  <2>1. \A i \in 1..Len(log) : Decided(i)'
    BY <1>3, <1>5 DEF SameDecided
  <2> QED BY <1>1, <1>2, <1>4, <2>1 DEF ClientInv, CallsOpen
<1>13. Accepted'
  BY <1>2, <1>3, AcceptedFrame DEF ClientInv
<1>14. LogOfStage' /\ FirstStart'
  BY <1>2, <1>8 DEF ClientInv, LogOfStage, FirstStart
<1>15. GetFinds'
  <2>1. reader = 0 /\ get.step = "none"
    BY <1>1 DEF GetFinds
  <2> QED BY <1>1, <2>1 DEF GetFinds
<1> QED BY <1>3, <1>7, <1>10, <1>11, <1>12, <1>13, <1>14, <1>15 DEF ClientInv

-----------------------------------------------------------------------------
(* All steps together. *)

ServerStep == UpdateStep \/ SyncStart \/ SyncStep \/ Open

LEMMA ServerIsUp ==
  ASSUME IInv, BInv, ServerStep
  PROVE  up'
<1>1. ~up => phase = "idle"
  BY DEF IInv, Memory
<1>2. ASSUME UpdateStep PROVE up'
  <2>1. ASSUME NEW n \in 1..MaxBatch, UpdateStart(n) PROVE up'
    BY <2>1 DEF UpdateStart
  <2>2. ASSUME NEW c \in Shards, UpdateShard(c) PROVE up'
    BY <1>1, <2>2 DEF UpdateShard
  <2>3. ASSUME DecideEntry PROVE up'
    BY <1>1, <2>3 DEF DecideEntry
  <2>4. ASSUME UpdateReturn PROVE up'
    BY <1>1, <2>4 DEF UpdateReturn
  <2> QED BY <1>2, <2>1, <2>2, <2>3, <2>4 DEF UpdateStep
<1>3. ASSUME SyncStart \/ Open PROVE up'
  BY <1>3 DEF SyncStart, Open
<1>4. ASSUME SyncStep PROVE up'
  <2>1. \A c \in Shards : ~SyncPanic(c)
    BY NoPanic
  <2>2. ASSUME NEW c \in Shards, TxApply(c) \/ IndexBatch(c) \/ TxCommit(c) PROVE up'
    <3>1. phase = "apply" /\ up' = up
      <4>1. ASSUME TxApply(c) PROVE phase = "apply" /\ up' = up
        BY <4>1 DEF TxApply, NextInTx
      <4>2. ASSUME IndexBatch(c) \/ TxCommit(c) PROVE phase = "apply" /\ up' = up
        BY <4>2 DEF IndexBatch, TxCommit
      <4> QED BY <2>2, <4>1, <4>2
    <3> QED BY <1>1, <3>1
  <2>3. ASSUME ClearPendingQueue \/ UpdateLastUpdateIndex PROVE up'
    BY <1>1, <2>3 DEF ClearPendingQueue, UpdateLastUpdateIndex
  <2> QED BY <1>4, <2>1, <2>2, <2>3 DEF SyncStep
<1> QED BY <1>2, <1>3, <1>4 DEF ServerStep

LEMMA ServerKeeps ==
  ASSUME ProperInput, OnePartition, IInv, IInv', GetType, MaxShardBatch <= 1 => SInv,
         BInv, ClientInv, GetFinds, ServerStep, Observe, UNCHANGED clientVars
  PROVE  BInv' /\ ClientInv' /\ GetFinds'
<1>1. [Next]_vars
  BY DEF ServerStep, Next
<1>2. up'
  BY ServerIsUp
<1>3. BInv'
  BY <1>1, BlocksStep, DecideKeepsBInv
<1>4. ASSUME log' = log, SameLives, SameDecided, Accepted' PROVE ClientInv'
  <2>1. FirstStart'
    BY <1>2 DEF FirstStart
  <2> QED BY <1>4, <2>1, QuietStep
<1>5. ASSUME \/ \E n \in 1..MaxBatch : UpdateStart(n)
             \/ \E c \in Shards : UpdateShard(c)
             \/ UpdateReturn
      PROVE  ClientInv'
  <2>1. log' = log
    BY <1>5 DEF UpdateStart, UpdateShard, UpdateReturn, hostVars
  <2> QED BY <1>4, <1>5, <2>1, QuietUpdateStart, QuietUpdateShard, QuietUpdateReturn
<1>6. ASSUME \/ SyncStart \/ ClearPendingQueue \/ UpdateLastUpdateIndex
             \/ \E c \in Shards : TxApply(c) \/ IndexBatch(c) \/ TxCommit(c)
      PROVE  ClientInv'
  <2>1. log' = log
    BY <1>6 DEF SyncStart, ClearPendingQueue, UpdateLastUpdateIndex, TxApply, IndexBatch, TxCommit, hostVars
  <2> QED BY <1>4, <1>6, <2>1, QuietSync
<1>7. ASSUME Open PROVE ClientInv'
  <2>1. log' = log
    BY <1>7 DEF Open
  <2> QED BY <1>4, <1>7, <2>1, QuietOpen
<1>8. ASSUME DecideEntry PROVE ClientInv'
  BY <1>8, DecideKeepsClientInv
<1>9. \A c \in Shards : ~SyncPanic(c)
  BY NoPanic
<1>10. ClientInv'
  BY <1>5, <1>6, <1>7, <1>8, <1>9 DEF ServerStep, UpdateStep, SyncStep
<1> QED BY <1>1, <1>2, <1>3, <1>10, GetFindsObserve

LEMMA PreseedSteps ==
  ASSUME PreseedNext
  PROVE  \/ \E w \in Callers : CallWrite(w) \/ WriteAnswered(w) \/ CallGet(w)
         \/ ReadStep \/ GetAnswered \/ GetLost \/ BatchDone
         \/ ServerStep /\ Observe /\ UNCHANGED clientVars
  BY DEF PreseedNext, Client, Server, ServerStep

(* The load generator drives the replica of Lookup as its host may. *)
LEMMA PreseedIsLookup ==
  ASSUME PreseedInv, [PreseedNext]_preseedVars
  PROVE  [LookupNext]_lookupVars
<1>1. ASSUME NEW w \in Callers, CallWrite(w) PROVE LookupNext
  <2>1. stage \in Writes /\ jobs[w] # <<>> /\ Propose(Request(stage, Head(jobs[w]))) /\ Observe
    BY <1>1 DEF CallWrite
  <2>2. Request(stage, Head(jobs[w])) \in Commands
    BY <2>1, NextCall DEF PreseedInv, ClientInv, Running, Writes
  <2> QED BY <2>1, <2>2 DEF LookupNext, Next
<1>2. ASSUME NEW w \in Callers, CallGet(w) PROVE LookupNext
  <2>1. stage = "GET" /\ jobs[w] # <<>> /\ LookupStart(Head(jobs[w]))
    BY <1>2 DEF CallGet
  <2>2. Head(jobs[w]) \in GetKeys
    BY <2>1, NextCall DEF PreseedInv, ClientInv, Running
  <2> QED BY <2>1, <2>2 DEF LookupNext, LookupStep
<1>3. ASSUME ReadStep \/ GetAnswered \/ GetLost PROVE LookupNext
  BY <1>3 DEF ReadStep, GetAnswered, GetLost, LookupNext, LookupStep
<1>4. ASSUME BatchDone \/ \E w \in Callers : WriteAnswered(w) PROVE UNCHANGED lookupVars
  BY <1>4 DEF BatchDone, WriteAnswered
<1>5. ASSUME ServerStep, Observe PROVE LookupNext
  BY <1>5 DEF ServerStep, LookupNext, Next
<1>6. ASSUME UNCHANGED preseedVars PROVE UNCHANGED lookupVars
  BY <1>6 DEF preseedVars
<1> QED BY <1>1, <1>2, <1>3, <1>4, <1>5, <1>6, PreseedSteps

LEMMA PreseedStep ==
  ASSUME ProperInput, OnePartition, IInv, IInv', GetType, MaxShardBatch <= 1 => SInv,
         PreseedInv, [PreseedNext]_preseedVars
  PROVE  PreseedInv'
<1>1. CASE UNCHANGED preseedVars
  <2>1. UNCHANGED vars /\ get' = get /\ UNCHANGED clientVars
    BY <1>1 DEF preseedVars, lookupVars
  <2>2. UNCHANGED <<stage, jobs, call, reader, log, result, answer, existing, up, metaIndex, applied>>
    BY <2>1 DEF vars, clientVars
  <2>3. ASSUME Running PROVE BInv' /\ ClientInv' /\ GetFinds'
    <3>1. BInv /\ ClientInv /\ GetFinds
      BY <2>3 DEF PreseedInv
    <3>2. BInv' /\ SameLives /\ SameDecided
      BY <2>1, <3>1, QuietVars
    <3>3. Accepted'
      BY <2>2, <3>1, <3>2, AcceptedFrame DEF ClientInv
    <3>4. FirstStart'
      BY <2>2, <3>1 DEF ClientInv, FirstStart
    <3>5. ClientInv'
      BY <2>1, <2>2, <3>1, <3>2, <3>3, <3>4, QuietStep
    <3>6. GetFinds'
      <4>1. \A i, p, id : Rest(i, p, id)' = Rest(i, p, id) /\ DiskDoc(p, id)' = DiskDoc(p, id)
        BY <2>1, <3>1, QuietVars
      <4>2. Rest(get.i, get.key[1], get.key[2])' = Rest(get.i, get.key[1], get.key[2])
        BY <2>1, <2>2 DEF vars, Rest, Queue, UpTo, DiskDoc, DiskPart
      <4>3. DiskDoc(get.key[1], get.key[2])' = DiskDoc(get.key[1], get.key[2])
        BY <2>1 DEF vars, DiskDoc, DiskPart
      <4> QED BY <2>1, <2>2, <3>1, <4>2, <4>3 DEF GetFinds
    <3> QED BY <3>2, <3>5, <3>6
  <2> QED BY <2>1, <2>2, <2>3 DEF PreseedInv, Running
<1>2. CASE PreseedNext /\ ~Running
  <2>1. stage = "lost" /\ get.step = "none"
    BY <1>2 DEF PreseedInv, Running
  <2>2. get' = get /\ stage' = stage
    BY <1>2, <2>1, PreseedSteps
       DEF CallWrite, WriteAnswered, CallGet, ReadStep, GetAnswered, GetLost, BatchDone, LookupScan,
           LookupInState, LookupReturn, LookupPanic, Observe, clientVars, Writes
  <2> QED BY <2>1, <2>2 DEF PreseedInv, Running, Stages
<1>3. CASE PreseedNext /\ Running
  <2>0. BInv /\ ClientInv /\ GetFinds /\ stage \in Stages \ {"fatal", "lost"}
    BY <1>3 DEF PreseedInv, Running
  <2>1. ASSUME stage' \in Stages \ {"fatal", "lost"}, BInv', ClientInv', GetFinds' PROVE PreseedInv'
    BY <2>1 DEF PreseedInv, Running
  <2>2. ASSUME NEW w \in Callers, CallWrite(w) PROVE PreseedInv'
    <3>1. stage' = stage
      BY <2>2 DEF CallWrite
    <3> QED BY <2>0, <2>1, <2>2, <3>1, CallWriteKeeps
  <2>3. ASSUME NEW w \in Callers, WriteAnswered(w) PROVE PreseedInv'
    BY <2>0, <2>1, <2>3, WriteAnsweredKeeps
  <2>4. ASSUME NEW w \in Callers, CallGet(w) PROVE PreseedInv'
    <3>1. stage' = stage
      BY <2>4 DEF CallGet
    <3> QED BY <2>0, <2>1, <2>4, <3>1, CallGetKeeps
  <2>5. ASSUME ReadStep PROVE PreseedInv'
    <3>1. stage' = stage
      BY <2>5 DEF ReadStep, clientVars
    <3> QED BY <2>0, <2>1, <2>5, <3>1, ReadFinds
  <2>6. ASSUME GetAnswered PROVE PreseedInv'
    BY <2>0, <2>1, <2>6, GetAnsweredKeeps
  <2>7. ASSUME GetLost PROVE PreseedInv'
    <3>1. stage' = "lost" /\ get' = NoGet
      BY <2>7 DEF GetLost, LookupPanic
    <3> QED BY <3>1, NoGetType DEF PreseedInv, Running, Stages
  <2>8. ASSUME BatchDone PROVE PreseedInv'
    BY <2>0, <2>1, <2>8, BatchDoneKeeps
  <2>9. ASSUME ServerStep, Observe, UNCHANGED clientVars PROVE PreseedInv'
    <3>1. stage' = stage
      BY <2>9 DEF clientVars
    <3> QED BY <2>0, <2>1, <2>9, <3>1, ServerKeeps
  <2> QED BY <1>3, <2>2, <2>3, <2>4, <2>5, <2>6, <2>7, <2>8, <2>9, PreseedSteps
<1> QED BY <1>1, <1>2, <1>3

-----------------------------------------------------------------------------
LEMMA PreseedStart ==
  ASSUME ProperInput, PreseedInit
  PROVE  IInv /\ GetType /\ (MaxShardBatch <= 1 => SInv) /\ PreseedInv
<1>1. /\ Init /\ get = NoGet /\ stage = "CREATE" /\ jobs = Jobs("CREATE")
      /\ call = [w \in Callers |-> 0] /\ reader = 0
  BY DEF PreseedInit, LookupInit
<1>2. IInv /\ SInv
  BY <1>1, RecoveryInit, StoreInit
<1>3. GetType /\ get.step = "none"
  BY <1>1, NoGetType DEF GetType
<1>4. Fresh
  BY <1>1 DEF Fresh
<1>5. JobsDiffer /\ \A key : Working(key) <=> key \in Given("CREATE")
  BY <1>1, <1>4, FreshJobs
<1>6. StoreFollows
  <2>1. pending = <<>> /\ Len(pending) = 0 /\ 1..0 = {} /\ Newest({}) = 0
    BY <1>1 DEF Init, Newest
  <2>2. \A p \in Parts : LivePart(p) = FALSE /\ DiskPart(p) = FALSE
    BY <1>1, <2>1 DEF Init, LivePart, DiskPart, EmptyBlock
  <2>3. \A p \in Parts, id \in Ids : LiveDoc(p, id) = NoDoc
    BY <2>1, <2>2 DEF LiveDoc, DiskDoc
  <2>4. \A p \in PartSet : ~PartThere(p)
    BY <1>1, <1>5, GivenIs DEF PartThere, PartStages
  <2>5. \A key : DocThere(key) = NoDoc
    BY <1>1 DEF DocThere
  <2> QED BY <2>2, <2>3, <2>4, <2>5 DEF StoreFollows
<1>7. log = <<>> /\ Len(log) = 0 /\ 1..0 = {} /\ 0 \in 0..0
  BY <1>1 DEF Init
<1>8. CallsOpen
  BY <1>1, <1>7 DEF CallsOpen
<1>9. Accepted
  BY <1>1, <1>7 DEF Init, NoEntries, Accepted
<1>10. LogOfStage /\ FlagsFollowed /\ FirstStart
  BY <1>1, <1>7 DEF Init, LogOfStage, FlagsFollowed, FirstStart
<1>11. GetFinds
  BY <1>1, <1>3 DEF GetFinds
<1>12. BInv
  BY <1>2 DEF SInv, BInv
<1>13. ClientInv
  BY <1>5, <1>6, <1>8, <1>9, <1>10 DEF ClientInv
<1> QED BY <1>1, <1>2, <1>3, <1>11, <1>12, <1>13 DEF PreseedInv, Stages, Writes

LEMMA PreseedInvariant ==
  ASSUME ProperInput, OnePartition
  PROVE  PreseedSpec => []PreseedInv
<1> DEFINE Inv == IInv /\ GetType /\ (MaxShardBatch <= 1 => SInv) /\ PreseedInv
<1>1. PreseedInit => Inv
  BY PreseedStart
<1>2. Inv /\ [PreseedNext]_preseedVars => Inv'
  <2> SUFFICES ASSUME Inv, [PreseedNext]_preseedVars PROVE Inv'
    OBVIOUS
  <2>1. [LookupNext]_lookupVars
    BY PreseedIsLookup
  <2>2. IInv'
    BY <2>1, LookupKeepsIInv
  <2>3. GetType'
    BY <2>1, <2>2, GetTypeStep
  <2>4. MaxShardBatch <= 1 => SInv'
    BY <2>1, <2>2, LookupKeepsSInv
  <2>5. PreseedInv'
    BY <2>2, PreseedStep
  <2> QED BY <2>2, <2>3, <2>4, <2>5
<1>3. Inv => PreseedInv
  OBVIOUS
<1> HIDE DEF Inv
<1> QED BY <1>1, <1>2, <1>3, PTL DEF PreseedSpec

(* The load generator never comes to its log.Fatalf for a code: for any      *)
(* number of workers and any list of different words and partitions, and     *)
(* wherever Update's batches and the Syncs fall, every write is answered     *)
(* with 200 and every GET that is answered finds its document.               *)
THEOREM EveryCallSucceedsCorrect ==
  ASSUME ProperInput, OnePartition
  PROVE  PreseedSpec => []EveryCallSucceeds
<1>1. PreseedInv => EveryCallSucceeds
  BY DEF PreseedInv, EveryCallSucceeds
<1> QED BY <1>1, PreseedInvariant, PTL

(* When main goes on to the next batch, what it gave the workers has taken   *)
(* effect: the GET batch runs over the documents as they were inserted, and  *)
(* a program that deletes and ends leaves no part and no document, in        *)
(* s.pending and the blocks together.                                        *)
THEOREM BatchesTakeEffectCorrect ==
  ASSUME ProperInput, OnePartition
  PROVE  PreseedSpec => []BatchesTakeEffect
<1>1. PreseedInv => BatchesTakeEffect
  <2> SUFFICES ASSUME PreseedInv PROVE BatchesTakeEffect
    OBVIOUS
  <2>1. ASSUME stage = "GET", NEW w \in 1..NWorkers, NEW n \in 1..Len(Jobs("GET")[w])
        PROVE  LiveDoc(Jobs("GET")[w][n][1], Jobs("GET")[w][n][2]) = Seeded(CreateTime)
    <3>1. PICK key : key = Jobs("GET")[w][n]
      OBVIOUS
    <3>2. key \in WordKeys
      <4>1. key \in Given("GET")
        <5>1. w \in Callers
          BY PreseedAssumption DEF Callers
        <5> QED BY <3>1, <5>1 DEF Given, GivenTo
      <4> QED BY <4>1, GivenIs DEF DocStages
    <3>3. PICK p \in PartSet : \E id \in Ids : key = <<p, id>>
      BY <3>2, KeysAre
    <3>4. PICK id \in Ids : key = <<p, id>>
      BY <3>3
    <3>5. LiveDoc(p, id) = DocThere(key)
      <4>1. StoreFollows
        BY <2>1 DEF PreseedInv, Running, ClientInv
      <4> QED BY <3>2, <3>4, <4>1, KeysAre DEF StoreFollows
    <3>6. DocThere(key) = Seeded(CreateTime)
      BY <2>1 DEF DocThere
    <3> QED BY <3>1, <3>4, <3>5, <3>6
  <2>2. ASSUME stage = "end", ~SkipDelete, NEW p \in Parts
        PROVE  ~LivePart(p) /\ \A id \in Ids : LiveDoc(p, id) = NoDoc
    <3>1. StoreFollows
      BY <2>2 DEF PreseedInv, Running, ClientInv
    <3>2. ~PartThere(p) /\ \A key : DocThere(key) = NoDoc
      BY <2>2 DEF PartThere, DocThere
    <3> QED BY <3>1, <3>2 DEF StoreFollows
  <2> QED BY <2>1, <2>2 DEF BatchesTakeEffect
<1> QED BY <1>1, PreseedInvariant, PTL

(* The load generator is a client and a host as Lookup has them: it proposes *)
(* commands and asks for keys that parse, and its steps leave the replica    *)
(* alone or are the replica's own.                                           *)
THEOREM PreseedRefinesLookup ==
  ASSUME ProperInput, OnePartition
  PROVE  PreseedSpec => LookupSpec
<1>1. PreseedInit => LookupInit
  BY DEF PreseedInit
<1>2. PreseedInv /\ [PreseedNext]_preseedVars => [LookupNext]_lookupVars
  BY PreseedIsLookup
<1> QED BY <1>1, <1>2, PreseedInvariant, PTL DEF PreseedSpec, LookupSpec
=============================================================================
