----------------------------- MODULE BenchProofs -----------------------------
(***************************************************************************)
(* What a case of the benchmark leaves behind, whether its record is true, *)
(* for any number of messages and faults, and what its site keeps of it.   *)
(***************************************************************************)
EXTENDS BenchProtocol, BenchSite, DataLemmas, SequenceTheorems, FiniteSetTheorems, TLAPS

-----------------------------------------------------------------------------
(* What is left *)

(* The three processes the runner may spawn, and where it may stand *)
Processes == Children \cup {"roudi"}
Stages ==
  { "config", "roudi", "startup", "spawnSubscriber", "spawnPublisher", "handshake",
    "startSubscriber", "startPublisher", "results", "stop", "waitSubscriber",
    "waitPublisher", "dropPublisher", "dropSubscriber", "stopRoudi", "roudiEnds",
    "cleanup", "record", "done", "unrecorded", "killed" }

(* Stages at which a process is not spawned yet, and those at which the     *)
(* runner is through with it                                                *)
NotYet(p) ==
  IF p = "roudi" THEN {"config", "roudi"}
  ELSE IF p = "subscriber" THEN {"config", "roudi", "startup", "spawnSubscriber"}
  ELSE {"config", "roudi", "startup", "spawnSubscriber", "spawnPublisher"}

Through(p) ==
  {"cleanup", "record", "done", "unrecorded"} \cup
  IF p = "roudi" THEN {}
  ELSE IF p = "subscriber" THEN {"stopRoudi", "roudiEnds"}
  ELSE {"dropSubscriber", "stopRoudi", "roudiEnds"}

(* No process is left of it *)
Reaped(p) == proc[p] = "none" \/ (p \in reaped /\ ~Running(p))
HasRoudi == \E p \in {"roudi"} : proc[p] # "none"

BehindInv ==
  /\ proc \in [Processes -> {"none", "run", "ok", "fail"}]
  /\ files \subseteq {"xml", "toml", "partial"} /\ stage \in Stages
  /\ \A p \in Processes :
       /\ stage \in NotYet(p) => proc[p] = "none"
       /\ stage \in Through(p) => Reaped(p)
  /\ stage = "config" => files = {}
  /\ stage \notin {"record", "done", "unrecorded", "killed"} /\ "toml" \in files => HasRoudi
  /\ stage = "cleanup" => "toml" \notin files
  /\ stage \in {"record", "done", "unrecorded"} =>
       files \subseteq {"partial"} \cup IF HasRoudi THEN {} ELSE {"toml"}

(* What BehindInv speaks of is left alone. *)
LEMMA SameBehind ==
  ASSUME BehindInv, UNCHANGED << stage, files, proc, reaped >> PROVE BehindInv'
BY DEF BehindInv, Reaped, Running, HasRoudi

(* A process ends while the runner is at something *)
LEMMA EndBehind ==
  ASSUME BehindInv, NEW p \in Processes, Running(p), NEW how \in {"ok", "fail"},
         proc' = [proc EXCEPT ![p] = how], UNCHANGED << stage, files, reaped >>
  PROVE  BehindInv'
BY DEF BehindInv, Reaped, Running, HasRoudi

(* The runner goes on without spawning or reaping *)
LEMMA GoesBehind ==
  ASSUME BehindInv, NEW from \in Stages, NEW to \in Stages, RunnerGoes(from, to),
         \A p \in Processes : /\ to \in NotYet(p) => from \in NotYet(p)
                              /\ to \in Through(p) => from \in Through(p),
         from # "config", to # "config", from \notin {"record", "done", "unrecorded", "killed"},
         to \notin {"record", "done", "unrecorded", "cleanup"},
         UNCHANGED << files, proc, reaped >>
  PROVE  BehindInv'
BY DEF BehindInv, Reaped, Running, RunnerGoes, HasRoudi

(* BehindInv holds when the runner begins, *)
LEMMA BehindInvInit == BenchInit => BehindInv
BY DEF BenchInit, BehindInv, Processes, Stages, NotYet, Through, Reaped, HasRoudi

(* A process that is killed or has ended is waited for. *)
LEMMA TerminatesBehind ==
  ASSUME BehindInv, NEW p \in Processes, Terminates(p)
  PROVE  /\ proc' \in [Processes -> {"none", "run", "ok", "fail"}]
         /\ \A q \in Processes : proc'[q] = "none" <=> proc[q] = "none"
         /\ Reaped(p)' /\ \A q \in Processes : Reaped(q) => Reaped(q)'
BY DEF BehindInv, Terminates, Reaped, Running

(* and every step keeps it. *)
LEMMA BehindInvStep == BehindInv /\ [BenchNext]_benchVars => BehindInv'
<1> SUFFICES ASSUME BehindInv, [BenchNext]_benchVars PROVE BehindInv'
  OBVIOUS
<1>0. "subscriber" \in Children /\ "publisher" \in Children /\ "roudi" \in Processes
      /\ Children \subseteq Processes
  BY DEF Children, Processes
<1>1. CASE WriteConfig
  BY <1>1 DEF WriteConfig, RunnerGoes, BehindInv, processVars, Reaped, Running, Stages,
              NotYet, Through, Processes, HasRoudi
<1>2. CASE StartRoudiFails
  <2>1. /\ stage = "roudi" /\ stage' = "record" /\ UNCHANGED << proc, reaped >>
        /\ files' \subseteq (files \ {"xml"}) \cup {"partial", "toml"}
    BY <1>2 DEF StartRoudiFails, RunnerGoes, processVars
  <2>2. \A p \in Processes : proc[p] = "none"
    BY <2>1 DEF BehindInv, NotYet, Processes, Children
  <2> QED BY <2>1, <2>2 DEF BehindInv, Reaped, Stages, NotYet, HasRoudi, Processes
<1>3. CASE StartRoudi
  BY <1>3 DEF StartRoudi, RunnerGoes, BehindInv, Reaped, Running, Stages,
              NotYet, Through, Processes, HasRoudi, Children
<1>4. CASE RoudiComplains
  BY <1>4, SameBehind DEF RoudiComplains, runnerVars
<1>5. CASE RoudiStarted
  BY <1>5, GoesBehind DEF RoudiStarted, processVars, Stages, NotYet, Through, Processes, Children
<1>6. CASE RoudiStartupFails
  <2>1. Terminates("roudi") /\ stage = "startup" /\ stage' = "record" /\ files' = {}
    BY <1>6 DEF RoudiStartupFails, RunnerGoes
  <2>2. \A c \in Children : proc[c] = "none"
    BY <2>1 DEF BehindInv, NotYet, Children, Processes
  <2>3. \A p \in Processes : Reaped(p)'
    BY <1>0, <2>1, <2>2, TerminatesBehind DEF Processes, Reaped
  <2>4. proc' \in [Processes -> {"none", "run", "ok", "fail"}]
    BY <1>0, <2>1, TerminatesBehind
  <2> QED BY <2>1, <2>3, <2>4 DEF BehindInv, Stages, NotYet, HasRoudi
<1>7. CASE Interrupt
  BY <1>7 DEF Interrupt, RunnerGoes, BehindInv, processVars, Reaped, Running, Stages,
              NotYet, Through, Processes, HasRoudi
<1>8. CASE RoudiObeys
  BY <1>0, <1>8, EndBehind DEF RoudiObeys, runnerVars
<1>9. ASSUME NEW expired \in BOOLEAN, RoudiStopped(expired) PROVE BehindInv'
  <2>1. Terminates("roudi") /\ stage = "roudiEnds" /\ stage' = "cleanup"
        /\ files' = files \ {"toml"}
    BY <1>9 DEF RoudiStopped, RunnerGoes
  <2>2. \A c \in Children : Reaped(c)
    BY <1>0, <2>1 DEF BehindInv, Through, Children
  <2>3. \A p \in Processes : Reaped(p)'
    BY <1>0, <2>1, <2>2, TerminatesBehind DEF Processes
  <2>4. proc' \in [Processes -> {"none", "run", "ok", "fail"}]
    BY <1>0, <2>1, TerminatesBehind
  <2> QED BY <2>1, <2>3, <2>4 DEF BehindInv, Stages, NotYet
<1>10. CASE Cleanup
  <2>1. stage = "cleanup" /\ stage' = "record" /\ files' = files \ {"xml"}
        /\ UNCHANGED << proc, reaped >>
    BY <1>10 DEF Cleanup, RunnerGoes, processVars
  <2> QED BY <2>1 DEF BehindInv, Reaped, Running, Stages, NotYet, Through
<1>11. CASE WriteRecord
  <2>1. stage = "record" /\ stage' \in {"done", "unrecorded"} /\ UNCHANGED << files, proc, reaped >>
    BY <1>11 DEF WriteRecord, RunnerGoes, processVars
  <2> QED BY <2>1 DEF BehindInv, Reaped, Running, Stages, NotYet, Through, HasRoudi
<1>12. ASSUME NEW c \in Children, Spawn(c) PROVE BehindInv'
  <2>1. /\ stage = SpawnAt(c) /\ proc' = [proc EXCEPT ![c] = "run"]
        /\ stage' = IF c = "subscriber" THEN "spawnPublisher" ELSE "handshake"
        /\ UNCHANGED << files, reaped >>
    BY <1>12 DEF Spawn, RunnerGoes
  <2> QED BY <1>0, <2>1 DEF BehindInv, SpawnAt, Reaped, Running, Stages, NotYet, Through,
                            HasRoudi, Children, Processes
<1>13. ASSUME NEW c \in Children, SpawnFails(c) PROVE BehindInv'
  BY <1>13, GoesBehind DEF SpawnFails, Returns, SpawnAt, Stages, NotYet, Through, processVars,
                           Processes, Children
<1>14. ASSUME NEW expired \in BOOLEAN, HandshakeRound(expired) PROVE BehindInv'
  <2>1. /\ stage = "handshake" /\ stage' \in {"handshake", "startSubscriber", "dropPublisher"}
        /\ UNCHANGED << files, proc, reaped >>
    BY <1>14 DEF HandshakeRound, Returns, RunnerGoes, processVars
  <2> QED BY <2>1, GoesBehind DEF RunnerGoes, Stages, NotYet, Through, Processes, Children
<1>15. CASE HandshakeBroken
  BY <1>15, GoesBehind DEF HandshakeBroken, Returns, Stages, NotYet, Through, processVars,
                           Processes, Children
<1>16. CASE TellStart \/ TellStop
  <2>1. /\ UNCHANGED << files, proc, reaped >>
        /\ \E from \in {"startSubscriber", "startPublisher", "stop"} :
             \E to \in {"startPublisher", "results", "waitSubscriber", "dropPublisher"} :
               RunnerGoes(from, to)
    BY <1>16 DEF TellStart, TellStop, Tells, Returns, processVars, RunnerGoes
  <2> QED BY <2>1, GoesBehind DEF Stages, NotYet, Through, Processes, Children
<1>17. ASSUME NEW expired \in BOOLEAN, ResultRound(expired) PROVE BehindInv'
  <2>1. /\ stage = "results" /\ stage' \in {"results", "stop", "dropPublisher"}
        /\ UNCHANGED << files, proc, reaped >>
    BY <1>17 DEF ResultRound, Returns, RunnerGoes, processVars
  <2> QED BY <2>1, GoesBehind DEF RunnerGoes, Stages, NotYet, Through, Processes, Children
<1>18. CASE WaitSubscriber
  BY <1>18 DEF WaitSubscriber, RunnerGoes, BehindInv, Reaped, Running, Stages,
               NotYet, Through, Processes, HasRoudi
<1>19. CASE WaitPublisher
  BY <1>19 DEF WaitPublisher, Returns, RunnerGoes, BehindInv, Reaped, Running, Stages,
               NotYet, Through, Processes, HasRoudi
<1>20. CASE DropChildren
  <2>1. CASE DropChild("publisher", "dropPublisher", "dropSubscriber")
    <3>1. stage = "dropPublisher" /\ stage' = "dropSubscriber" /\ UNCHANGED files
          /\ Terminates("publisher")
      BY <2>1 DEF DropChild, RunnerGoes
    <3> QED BY <1>0, <3>1, TerminatesBehind DEF BehindInv, Stages, NotYet, Through, HasRoudi, Processes, Children
  <2>2. CASE DropChild("subscriber", "dropSubscriber", "stopRoudi")
    <3>1. stage = "dropSubscriber" /\ stage' = "stopRoudi" /\ UNCHANGED files
          /\ Terminates("subscriber")
      BY <2>2 DEF DropChild, RunnerGoes
    <3> QED BY <1>0, <3>1, TerminatesBehind DEF BehindInv, Stages, NotYet, Through, HasRoudi, Processes, Children
  <2> QED BY <1>20, <2>1, <2>2 DEF DropChildren
<1>21. ASSUME NEW c \in Children, ChildStep(c) \/ MatchTimesOut(c) \/ Crash(c) PROVE BehindInv'
  <2>1. \/ UNCHANGED << stage, files, proc, reaped >>
        \/ /\ Running(c) /\ UNCHANGED << stage, files, reaped >>
           /\ \E how \in {"ok", "fail"} : proc' = [proc EXCEPT ![c] = how]
    BY <1>21 DEF ChildStep, CreateEndpoint, SeesMatch, Start, Orphaned, Write, Done, Stop,
         Take, Report, Leave, MatchTimesOut, Crash, ChildGoes, Hears, Ends, Stays, processVars,
         runnerVars
  <2> QED BY <1>0, <2>1, SameBehind, EndBehind
<1>22. CASE RoudiCrashes
  BY <1>0, <1>22, EndBehind DEF RoudiCrashes, runnerVars
<1>23. CASE RunnerKilled
  BY <1>23 DEF RunnerKilled, BehindInv, processVars, Reaped, Running, Stages, NotYet, Through,
               HasRoudi
<1>24. CASE ReceiveTimesOut \/ Deliver \/ Disturb \/ (\E c \in Children : Pairs(c))
            \/ UNCHANGED benchVars
  BY <1>24, SameBehind DEF ReceiveTimesOut, Deliver, Disturb, Pairs, benchVars, runnerVars,
     processVars, Stays
<1> QED BY <1>1, <1>2, <1>3, <1>4, <1>5, <1>6, <1>7, <1>8, <1>9, <1>10, <1>11, <1>12, <1>13,
           <1>14, <1>15, <1>16, <1>17, <1>18, <1>19, <1>20, <1>21, <1>22, <1>23, <1>24
        DEF BenchNext, RunnerStep, Runner

(* Whatever failed, a runner that wrote its record has waited for every     *)
(* process it spawned and removed its files.                                *)
THEOREM NothingIsLeft == BenchSpec => []NothingLeftBehind
<1>1. BehindInv => NothingLeftBehind
  BY DEF BehindInv, NothingLeftBehind, Reaped, Through, HasRoudi, Processes
<1> QED BY <1>1, BehindInvInit, BehindInvStep, PTL DEF BenchSpec

-----------------------------------------------------------------------------
(* The verdict and what is taken *)

(* Of a sequence whose elements never decrease, none is less than an earlier one *)
LEMMA Ordered ==
  ASSUME NEW s \in Seq(Nat), \A i \in 2..Len(s) : ~(s[i] < s[i - 1]),
         NEW i \in 1..Len(s), NEW k \in i..Len(s)
  PROVE  s[i] <= s[k]
<1> DEFINE Bad == { m \in i..Len(s) : ~(s[i] <= s[m]) }
<1>1. Len(s) \in Nat /\ \A m \in 1..Len(s) : s[m] \in Nat
  BY LenProperties
<1>2. Bad = {}
  <2> SUFFICES ASSUME Bad # {} PROVE FALSE
    OBVIOUS
  <2>1. Bad \in SUBSET Nat
    BY <1>1
  <2>2. PICK m \in Bad : \A y \in Bad : m <= y
    BY <2>1, LeastNatural
  <2>3. m # i /\ m \in 2..Len(s) /\ m - 1 \in i..Len(s)
    BY SMTT(30), <1>1
  <2>4. m - 1 \notin Bad
    BY <2>2, <2>3
  <2>5. s[i] <= s[m - 1] /\ ~(s[m] < s[m - 1]) /\ ~(s[i] <= s[m])
    BY <2>3, <2>4
  <2> QED BY SMTT(30), <1>1, <2>3, <2>5
<1> QED BY <1>2

(* An "ok" verdict says that every message came once and in order. *)
LEMMA VerdictOrders ==
  ASSUME taken \in Seq(Nat), Verdict = "ok"
  PROVE  taken = [i \in 1..Total |-> i - 1]
<1>0. Total \in Nat /\ Total > 0
  BY BenchAssumption
<1>1. /\ Len(taken) \in Nat /\ DOMAIN taken = 1..Len(taken)
      /\ \A i \in 1..Len(taken) : taken[i] \in Nat
      /\ taken \in [1..Len(taken) -> Nat]
  BY LenProperties
<1>2. Range(taken) = Messages /\ duplicate = 0 /\ out_of_order = 0
  BY DEF Verdict
<1>3. Cardinality(Messages) = Total /\ IsFiniteSet(Messages)
  <2>1. Cardinality(0..Total - 1) = IF 0 > Total - 1 THEN 0 ELSE Total - 1 - 0 + 1
    BY <1>0, FS_Interval
  <2>2. IsFiniteSet(0..Total - 1)
    BY <1>0, FS_Interval
  <2> QED BY <1>0, <2>1, <2>2 DEF Messages
<1>4. Len(taken) = Total
  <2>1. Len(taken) - Total = 0
    BY <1>2, <1>3 DEF duplicate
  <2>2. Len(taken) \in Nat /\ Total \in Nat
    BY <1>0, <1>1
  <2> QED BY ONLY <2>1, <2>2, SMT
<1>5. IsFiniteSet(1..Len(taken)) /\ Cardinality(1..Len(taken)) = Total
  BY <1>1, <1>4, CountTo
<1>6. \A i, j \in 1..Len(taken) : taken[i] = taken[j] => i = j
  <2>1. taken \in Surjection(1..Len(taken), Range(taken))
    BY <1>1 DEF Surjection, Range
  <2>2. taken \in Injection(1..Len(taken), Range(taken))
    BY <1>2, <1>3, <1>5, <2>1, FS_Surjection
  <2> QED BY <2>2 DEF Injection, IsInjective
<1>7. \A i \in 2..Len(taken) : ~(taken[i] < taken[i - 1])
  <2> DEFINE falls == { i \in 2..Len(taken) : taken[i] < taken[i - 1] }
  <2>1. IsFiniteSet(2..Len(taken))
    BY <1>1, FS_Interval
  <2>2. IsFiniteSet(falls)
    BY <2>1, FS_Subset
  <2>3. Cardinality(falls) = 0
    BY <1>2 DEF out_of_order
  <2> HIDE DEF falls
  <2>4. falls = {}
    BY <2>2, <2>3, FS_EmptySet
  <2> QED BY <2>4 DEF falls
<1> DEFINE Bad == { m \in 1..Len(taken) : taken[m] # m - 1 }
<1>8. Bad = {}
  <2> SUFFICES ASSUME Bad # {} PROVE FALSE
    OBVIOUS
  <2>1. Bad \in SUBSET Nat
    BY <1>1
  <2>2. PICK m \in Bad : \A y \in Bad : m <= y
    BY <2>1, LeastNatural
  <2>3. m \in 1..Len(taken) /\ taken[m] # m - 1 /\ taken[m] \in Nat
    BY <1>1
  <2>4. \A i \in 1..Len(taken) : i < m => taken[i] = i - 1
    BY <1>1, <2>2, <2>3
  <2>5. taken[m] > m - 1
    <3>1. CASE m = 1
      BY <2>3, <3>1
    <3>2. CASE m # 1
      <4>1. m - 1 \in 1..Len(taken) /\ m \in 2..Len(taken) /\ m - 1 # m
        BY <1>1, <2>3, <3>2
      <4>2. taken[m - 1] = m - 2 /\ ~(taken[m] < taken[m - 1]) /\ taken[m] # taken[m - 1]
        BY <1>6, <1>7, <2>3, <2>4, <4>1
      <4> QED BY SMTT(30), <2>3, <4>2
    <3> QED BY <3>1, <3>2
  <2>6. m - 1 \in Messages
    BY <1>0, <1>1, <1>4, <2>3 DEF Messages
  <2>7. PICK k \in 1..Len(taken) : taken[k] = m - 1
    BY <1>1, <1>2, <2>6 DEF Range
  <2>8. CASE k < m
    BY <1>1, <2>3, <2>4, <2>7, <2>8
  <2>9. CASE k >= m
    <3>1. k \in m..Len(taken)
      BY <1>1, <2>3, <2>9
    <3>2. taken[m] <= taken[k]
      BY <1>7, <2>3, <3>1, Ordered
    <3> QED BY <2>3, <2>5, <2>7, <3>2
  <2> QED BY <1>1, <2>3, <2>8, <2>9
<1>9. \A i \in 1..Total : taken[i] = i - 1
  BY <1>4, <1>8
<1> QED BY <1>1, <1>4, <1>9


(* A take takes the valid samples, which are all if none is invalid *)
LEMMA Takes ==
  ASSUME NEW S, NEW s \in Seq(S)
  PROVE  /\ ValidOf(s) \in Seq({ v \in S : IsValid(v) })
         /\ (\A i \in 1..Len(s) : IsValid(s[i])) => ValidOf(s) = s
<1> DEFINE kept == { i \in DOMAIN s : IsValid(s[i]) }
           Rank(i) == Cardinality({ j \in kept : j <= i })
           c == Cardinality(kept)
           rank == [i \in kept |-> Rank(i)]
           nth(n) == CHOOSE i \in kept : Rank(i) = n
<1>1. DOMAIN s = 1..Len(s) /\ Len(s) \in Nat /\ \A i \in 1..Len(s) : s[i] \in S
  BY LenProperties
<1>2. IsFiniteSet(1..Len(s))
  BY <1>1, FS_Interval
<1>3. kept \subseteq 1..Len(s) /\ IsFiniteSet(kept) /\ c \in Nat
  <2>1. kept \in SUBSET (1..Len(s))
    BY <1>1
  <2> QED BY <1>2, <2>1, FS_Subset, FS_CardinalityType
<1>4. IsFiniteSet(1..c) /\ Cardinality(1..c) = c
  BY <1>3, CountTo
<1>5. ASSUME NEW i \in kept PROVE Rank(i) \in 1..c
  <2> DEFINE below == { j \in kept : j <= i }
  <2>1. below \in SUBSET kept /\ i \in below
    BY <1>3
  <2>2. IsFiniteSet(below) /\ Cardinality(below) <= c /\ Cardinality(below) \in Nat
    BY <1>3, <2>1, FS_Subset, FS_CardinalityType
  <2>3. Cardinality(below) # 0
    BY <2>1, <2>2, FS_EmptySet
  <2> QED BY <1>3, <2>2, <2>3
<1>6. ASSUME NEW i \in kept, NEW k \in kept, i < k PROVE Rank(i) < Rank(k)
  <2> DEFINE a == { j \in kept : j <= i }
             b == { j \in kept : j <= k }
  <2>1. a \in SUBSET b /\ k \in b /\ k \notin a /\ b \in SUBSET kept
    BY <1>3, <1>6
  <2>2. IsFiniteSet(b)
    BY <1>3, <2>1, FS_Subset
  <2>3. Cardinality(a) <= Cardinality(b) /\ Cardinality(a) # Cardinality(b) /\ IsFiniteSet(a)
    BY <2>1, <2>2, FS_Subset
  <2>4. Cardinality(a) \in Nat /\ Cardinality(b) \in Nat
    BY <2>2, <2>3, FS_CardinalityType
  <2> QED BY <2>3, <2>4
<1> HIDE DEF Rank
<1>7. rank \in Injection(kept, 1..c)
  <2>1. rank \in [kept -> 1..c]
    BY <1>5
  <2>2. ASSUME NEW i \in kept, NEW k \in kept, rank[i] = rank[k] PROVE i = k
    <3>1. i \in Nat /\ k \in Nat
      BY <1>1, <1>3
    <3>2. Rank(i) = Rank(k)
      BY <2>2
    <3>3. Rank(i) \in 1..c /\ Rank(k) \in 1..c
      BY <1>5
    <3> HIDE DEF c, kept
    <3>4. ~(i < k) /\ ~(k < i)
      BY <1>6, <1>3, <3>2, <3>3
    <3> QED BY <3>1, <3>4
  <2> QED BY <2>1, <2>2 DEF Injection, IsInjective
<1>8. rank \in Surjection(kept, 1..c)
  BY <1>4, <1>7, FS_Injection
<1>9. ASSUME NEW n \in 1..c PROVE nth(n) \in kept /\ Rank(nth(n)) = n
  <2>1. \E i \in kept : Rank(i) = n
    BY <1>8 DEF Surjection
  <2> QED BY <2>1
<1>10. ValidOf(s) = [n \in 1..c |-> s[nth(n)]]
  BY DEF ValidOf, Rank
<1> HIDE DEF nth
<1>11. ASSUME NEW n \in 1..c PROVE s[nth(n)] \in { v \in S : IsValid(v) }
  <2>1. nth(n) \in kept
    BY <1>9
  <2> QED BY <1>1, <2>1
<1>12. ValidOf(s) \in Seq({ v \in S : IsValid(v) })
  BY <1>3, <1>10, <1>11, SeqDef
<1>13. ASSUME \A i \in 1..Len(s) : IsValid(s[i]) PROVE ValidOf(s) = s
  <2>1. kept = 1..Len(s)
    BY <1>1, <1>13
  <2>2. c = Len(s)
    <3>1. c = Cardinality(1..Len(s))
      BY <2>1
    <3> QED BY <1>1, <3>1, CountTo
  <2>3. ASSUME NEW i \in 1..Len(s) PROVE Rank(i) = i
    <3>1. { j \in kept : j <= i } = 1..i
      BY <1>1, <2>1
    <3>2. Rank(i) = Cardinality(1..i)
      BY <3>1 DEF Rank
    <3> QED BY <1>1, <3>2, CountTo
  <2>4. ASSUME NEW n \in 1..c PROVE nth(n) = n
    <3>1. nth(n) \in 1..Len(s) /\ Rank(nth(n)) = n
      BY <1>9, <2>1
    <3> QED BY <2>3, <3>1
  <2>5. ValidOf(s) = [n \in 1..Len(s) |-> s[n]]
    BY <1>10, <2>2, <2>4
  <2> QED BY <1>1, <2>5
<1> QED BY <1>12, <1>13

-----------------------------------------------------------------------------
(* What an "ok" is worth *)

(* What travels, and where a child may stand *)
Sample == (0..written - 1) \cup {Invalid}
Positions == {"create", "match", "start", "receive", "result", "write", "done", "stop",
             "leaving", "exit"}
Ending == { "dropPublisher", "dropSubscriber", "stopRoudi", "roudiEnds", "cleanup", "record",
            "done", "unrecorded", "killed" }
(* What the children say to the runner *)
Lines == {"READY", "MATCHED", "DONE", "ok", "error"}
Said(line, c) == \E i \in 1..Len(lines[c]) : lines[c][i] = line

(* Only what was written travels, and only that is taken                    *)
TakenInv ==
  /\ pos \in [Children -> Positions] /\ written \in 0..Total
  /\ \A c \in {"publisher"} : pos[c] \in {"create", "match", "start", "write"} => written < Total
  /\ network \in Seq(Sample) /\ cache \in Seq(Sample) /\ taken \in Seq(0..written - 1)

(* "ok" is said by a subscriber that is leaving; what it took stays         *)
SaidInv ==
  /\ lines \in [Children -> Seq(Lines)]
  /\ \A c \in {"subscriber"} : result = "ok" \/ Said("ok", c) =>
       Verdict = "ok" /\ pos[c] \in {"leaving", "exit"}

(* A status of "ok" is what the subscriber said, of children that ended well *)
StatusInv ==
  status = "ok" =>
    stage \in Ending /\ result = "ok" /\ \A c \in Children : proc[c] = "ok"

(* What was written before stays written. *)
LEMMA Grows ==
  ASSUME TakenInv, NEW w \in Nat, w >= written
  PROVE  /\ network \in Seq((0..w - 1) \cup {Invalid})
         /\ cache \in Seq((0..w - 1) \cup {Invalid})
         /\ taken \in Seq(0..w - 1)
<1>1. Sample \subseteq (0..w - 1) \cup {Invalid} /\ 0..written - 1 \subseteq 0..w - 1
  BY DEF TakenInv, Sample
<1> QED BY <1>1, WiderSeq DEF TakenInv

(* The three invariants hold when the runner begins. *)
LEMMA TruthInvInit == BenchInit => TakenInv /\ SaidInv /\ StatusInv
<1> SUFFICES ASSUME BenchInit PROVE TakenInv /\ SaidInv /\ StatusInv
  OBVIOUS
<1>1. pos \in [Children -> Positions] /\ written \in 0..Total /\ written < Total
  BY BenchAssumption DEF BenchInit, Positions
<1>2. \A S : << >> \in Seq(S)
  BY EmptySeq
<1>3. TakenInv
  BY <1>1, <1>2 DEF TakenInv, BenchInit
<1>4. \A c \in Children : lines[c] = << >> /\ Len(lines[c]) = 0
  BY DEF BenchInit
<1>5. ~ \E c \in {"subscriber"} : Said("ok", c)
  BY <1>4 DEF Said, Children
<1>6. lines \in [Children -> Seq(Lines)]
  BY <1>2 DEF BenchInit
<1> QED BY <1>3, <1>5, <1>6 DEF SaidInv, StatusInv, BenchInit

(* A child goes from one position to another *)
LEMMA PosTyped ==
  ASSUME TakenInv, NEW c \in Children, NEW from, NEW to \in Positions, ChildGoes(c, from, to)
  PROVE  /\ pos' \in [Children -> Positions]
         /\ \A d \in Children : d # c => pos'[d] = pos[d]
         /\ pos'[c] = to
BY DEF TakenInv, ChildGoes

(* What TakenInv speaks of is left alone. *)
LEMMA SameTaken ==
  ASSUME TakenInv, UNCHANGED << pos, written, network, cache, taken >>
  PROVE  TakenInv'
BY DEF TakenInv, Sample

(* Every step keeps TakenInv: *)
LEMMA TakenInvStep == TakenInv /\ [BenchNext]_benchVars => TakenInv'
<1> SUFFICES ASSUME TakenInv, [BenchNext]_benchVars PROVE TakenInv'
  OBVIOUS
<1>0. "subscriber" \in Children /\ "publisher" \in Children
  BY DEF Children
<1>1. CASE UNCHANGED << pos, ddsVars >>
  BY <1>1, SameTaken DEF ddsVars
<1>2. ASSUME NEW c \in Children, NEW from, NEW to \in Positions, ChildGoes(c, from, to),
             c = "publisher" /\ to \in {"create", "match", "start", "write"} => written < Total,
             UNCHANGED << written, network, cache, taken >>
      PROVE  TakenInv'
  <2>1. /\ pos' \in [Children -> Positions] /\ pos'[c] = to
        /\ \A d \in Children : d # c => pos'[d] = pos[d]
    BY <1>2, PosTyped
  <2>2. \A d \in {"publisher"} :
          pos'[d] \in {"create", "match", "start", "write"} => written < Total
    BY <1>0, <1>2, <2>1 DEF TakenInv
  <2> QED BY <1>2, <2>1, <2>2 DEF TakenInv, Sample
<1>3. ASSUME NEW c \in Children, NEW from, NEW how, ChildGoes(c, from, "exit"), Ends(c, how)
      PROVE  TakenInv'
  <2>1. "exit" \in Positions
    BY DEF Positions
  <2>2. network' \in Seq(Sample)
    <3>1. network' = network \/ network' = << Invalid >>
      BY <1>3 DEF Ends
    <3>2. << Invalid >> \in Seq(Sample)
      BY DEF Sample
    <3> QED BY <3>1, <3>2 DEF TakenInv
  <2>3. /\ pos' \in [Children -> Positions] /\ pos'[c] = "exit"
        /\ \A d \in Children : d # c => pos'[d] = pos[d]
    BY <1>3, <2>1, PosTyped
  <2>4. \A d \in {"publisher"} :
          pos'[d] \in {"create", "match", "start", "write"} => written < Total
    BY <1>0, <2>3 DEF TakenInv
  <2>5. UNCHANGED << written, cache, taken >>
    BY <1>3 DEF Ends
  <2> QED BY <2>2, <2>3, <2>4, <2>5 DEF TakenInv, Sample
<1>4. ASSUME NEW c \in Children, ChildGoes(c, "create", "match"), Stays PROVE TakenInv'
  <2>1. pos[c] = "create" /\ "match" \in Positions
    BY <1>4 DEF ChildGoes, Positions
  <2>2. c = "publisher" => written < Total
    BY <2>1 DEF TakenInv
  <2> QED BY <1>2, <1>4, <2>1, <2>2 DEF Stays, ddsVars
<1>5. ASSUME NEW c \in Children, ChildGoes(c, "match", "start"), Stays PROVE TakenInv'
  <2>1. pos[c] = "match" /\ "start" \in Positions
    BY <1>5 DEF ChildGoes, Positions
  <2>2. c = "publisher" => written < Total
    BY <2>1 DEF TakenInv
  <2> QED BY <1>2, <1>5, <2>1, <2>2 DEF Stays, ddsVars
<1>6. ASSUME NEW c \in Children, Start(c) PROVE TakenInv'
  <2> DEFINE to == IF c = "publisher" THEN "write" ELSE "receive"
  <2>1. pos[c] = "start" /\ to \in Positions /\ ChildGoes(c, "start", to) /\ Stays
    BY <1>6 DEF ChildGoes, Positions, Start, Hears
  <2>2. c = "publisher" => written < Total
    BY <2>1 DEF TakenInv
  <2> QED BY <1>2, <2>1, <2>2 DEF Stays, ddsVars
<1>7. CASE Write
  <2>1. /\ ChildGoes("publisher", "write", IF written + 1 = Total THEN "done" ELSE "write")
        /\ written' = written + 1 /\ UNCHANGED << cache, taken >>
        /\ network' = network \/ network' = Append(network, written)
    BY <1>7 DEF Write
  <2>2. written \in Nat /\ written < Total
    BY <1>0, <2>1 DEF TakenInv, ChildGoes
  <2>3. /\ network \in Seq((0..written' - 1) \cup {Invalid})
        /\ cache \in Seq((0..written' - 1) \cup {Invalid})
        /\ taken \in Seq(0..written' - 1)
    <3> DEFINE w == written + 1
    <3>1. w \in Nat /\ w >= written /\ written' = w
      BY <2>1, <2>2
    <3> HIDE DEF w
    <3>2. /\ network \in Seq((0..w - 1) \cup {Invalid})
          /\ cache \in Seq((0..w - 1) \cup {Invalid})
          /\ taken \in Seq(0..w - 1)
      BY <3>1, Grows
    <3> QED BY <3>1, <3>2
  <2>4. written \in (0..written' - 1) \cup {Invalid}
    BY <2>1, <2>2
  <2>5. network' \in Seq((0..written' - 1) \cup {Invalid})
    BY <2>1, <2>3, <2>4, AppendProperties
  <2>6. written' \in 0..Total /\ (written + 1 # Total => written' < Total)
    BY <2>1, <2>2, BenchAssumption
  <2>7. (IF written + 1 = Total THEN "done" ELSE "write") \in Positions
    BY DEF Positions
  <2>8. pos' \in [Children -> Positions]
        /\ pos'["publisher"] = IF written + 1 = Total THEN "done" ELSE "write"
    BY <1>0, <2>1, <2>7, PosTyped
  <2> QED BY <2>1, <2>3, <2>5, <2>6, <2>8 DEF TakenInv, Sample
<1>8. CASE Take
  <2> DEFINE valid == ValidOf(cache)
             all == IF IsValid(Head(cache)) THEN taken \o valid ELSE taken
             to == IF Range(all) = Messages THEN "result" ELSE "receive"
  <2>1. /\ ChildGoes("subscriber", "receive", to)
        /\ taken' = all /\ cache' = << >> /\ UNCHANGED << written, network >>
    BY <1>8 DEF Take
  <2>2. valid \in Seq({ v \in Sample : IsValid(v) })
    BY Takes DEF TakenInv
  <2>3. { v \in Sample : IsValid(v) } \subseteq 0..written - 1
    BY DEF Sample, IsValid
  <2>4. valid \in Seq(0..written - 1)
    BY <2>2, <2>3, WiderSeq
  <2>5. all \in Seq(0..written - 1)
    BY <2>4, ConcatProperties DEF TakenInv
  <2>6. to \in Positions
    BY DEF Positions
  <2> HIDE DEF all, to
  <2>7. pos' \in [Children -> Positions] /\ \A d \in Children : d # "subscriber" => pos'[d] = pos[d]
    BY <1>0, <2>1, <2>6, PosTyped
  <2>8. cache' \in Seq(Sample)
    BY <2>1, EmptySeq
  <2> QED BY <1>0, <2>1, <2>5, <2>7, <2>8 DEF TakenInv, Sample
<1>9. ASSUME NEW sample \in Sample, NEW rest \in Seq(Sample), network' = rest,
             Arrives(sample), UNCHANGED << pos, written, taken >>
      PROVE  TakenInv'
  <2>1. Append(cache, sample) \in Seq(Sample) /\ Append(cache, sample) # << >>
    <3>1. cache \in Seq(Sample)
      BY DEF TakenInv
    <3> QED BY <3>1, AppendProperties
  <2>2. Cached(sample) \in Seq(Sample)
    BY <2>1, HeadTailProperties DEF Cached
  <2>3. cache' \in Seq(Sample)
    BY <1>9, <2>2 DEF Arrives, TakenInv
  <2> QED BY <1>9, <2>3 DEF TakenInv, Sample
<1>10. network # << >> => Head(network) \in Sample /\ Tail(network) \in Seq(Sample)
  BY HeadTailProperties DEF TakenInv
<1>11. CASE Deliver
  BY <1>9, <1>10, <1>11 DEF Deliver, childVars
<1>12. CASE Disturb
  <2>1. CASE network' = Tail(network) /\ UNCHANGED cache
    BY <1>10, <1>12, <2>1 DEF Disturb, TakenInv, Sample, childVars
  <2>2. CASE UNCHANGED network /\ Arrives(Head(network))
    BY <1>9, <1>10, <1>12, <2>2 DEF Disturb, TakenInv, childVars
  <2>3. CASE /\ Len(network) > 1
             /\ network' = << network[1] >> \o SubSeq(network, 3, Len(network))
             /\ Arrives(network[2])
    <3>1. Len(network) \in Nat /\ \A i \in 1..Len(network) : network[i] \in Sample
      BY LenProperties DEF TakenInv
    <3>2. network[1] \in Sample /\ network[2] \in Sample
      BY <2>3, <3>1
    <3>3. SubSeq(network, 3, Len(network)) \in Seq(Sample)
      <4>1. \A i \in 3..Len(network) : network[i] \in Sample
        BY <3>1
      <4> QED BY <3>1, <4>1, SubSeqProperties
    <3>4. << network[1] >> \o SubSeq(network, 3, Len(network)) \in Seq(Sample)
      BY <3>2, <3>3, ConcatProperties
    <3> QED BY <1>9, <1>12, <2>3, <3>2, <3>4 DEF Disturb, childVars
  <2> QED BY <1>12, <2>1, <2>2, <2>3 DEF Disturb
<1>13. ASSUME NEW c \in Children, ChildStep(c) PROVE TakenInv'
  <2>1. CASE CreateEndpoint(c)
    BY <1>4, <2>1 DEF CreateEndpoint
  <2>2. CASE SeesMatch(c)
    BY <1>5, <2>2 DEF SeesMatch
  <2>3. CASE Start(c)
    BY <1>6, <2>3
  <2>4. CASE Orphaned(c)
    BY <1>3, <2>4 DEF Orphaned
  <2>5. CASE Done
    BY <1>0, <1>2, <2>5 DEF Done, Stays, ddsVars, Positions
  <2>6. CASE Stop
    BY <1>0, <1>2, <2>6 DEF Stop, Hears, Stays, ddsVars, Positions
  <2>7. CASE Report
    BY <1>0, <1>2, <2>7 DEF Report, Stays, ddsVars, Positions
  <2>8. CASE Leave(c)
    BY <1>3, <2>8 DEF Leave
  <2> QED BY <1>7, <1>8, <1>13, <2>1, <2>2, <2>3, <2>4, <2>5, <2>6, <2>7, <2>8 DEF ChildStep
<1>14. CASE ReceiveTimesOut
  BY <1>0, <1>2, <1>14 DEF ReceiveTimesOut, Stays, ddsVars, Positions
<1>15. ASSUME NEW c \in Children, MatchTimesOut(c) \/ Crash(c) PROVE TakenInv'
  BY <1>3, <1>15 DEF MatchTimesOut, Crash
<1>16. ASSUME NEW c \in Children, Pairs(c) PROVE TakenInv'
  BY <1>16, SameTaken DEF Pairs, childVars
<1>17. CASE RunnerStep \/ Runner(TRUE) \/ RoudiStopped(TRUE) \/ RoudiComplains \/ RoudiObeys
            \/ RoudiCrashes \/ RunnerKilled \/ UNCHANGED benchVars
  <2>1. UNCHANGED << pos, ddsVars >>
    BY <1>17 DEF RunnerStep, Runner, WriteConfig, StartRoudi, StartRoudiFails, RoudiStarted,
         RoudiStartupFails, Interrupt, RoudiStopped, Cleanup, WriteRecord, HandshakeRound,
         HandshakeBroken, TellStart, TellStop, Tells, ResultRound, WaitSubscriber,
         WaitPublisher, DropChildren, DropChild, Spawn, SpawnFails, RoudiComplains,
         RoudiObeys, RoudiCrashes, RunnerKilled, benchVars, childVars
  <2> QED BY <1>1, <2>1
<1> QED BY <1>11, <1>12, <1>13, <1>14, <1>15, <1>16, <1>17 DEF BenchNext

(* A line that is read or was said before; a line that is added *)
LEMMA ReadSaid ==
  ASSUME lines \in [Children -> Seq(Lines)], ReadBoth, NEW c \in Children
  PROVE  /\ lines' \in [Children -> Seq(Lines)]
         /\ Said("ok", c)' => Said("ok", c)
         /\ "ok" \in NewLine(c) => Said("ok", c)
<1>1. \A d \in Children : Read(d) \in Seq(Lines)
  BY HeadTailProperties, EmptySeq DEF Read
<1>2. lines' = [d \in Children |-> Read(d)]
  BY DEF ReadBoth
<1>3. lines[c] \in Seq(Lines) /\ DOMAIN lines[c] = 1..Len(lines[c]) /\ Len(lines[c]) \in Nat
  BY LenProperties
<1>4. ASSUME Said("ok", c)' PROVE Said("ok", c)
  <2>1. lines'[c] = Read(c)
    BY <1>2
  <2>2. PICK i \in 1..Len(Read(c)) : Read(c)[i] = "ok"
    BY <1>4, <2>1 DEF Said
  <2>3. lines[c] # << >>
    BY <2>2 DEF Read
  <2>4. /\ Read(c) = Tail(lines[c]) /\ Len(Tail(lines[c])) = Len(lines[c]) - 1
        /\ \A j \in 1..Len(Tail(lines[c])) : Tail(lines[c])[j] = lines[c][j + 1]
    BY <1>3, <2>3, HeadTailProperties DEF Read
  <2>5. i + 1 \in 1..Len(lines[c]) /\ lines[c][i + 1] = "ok"
    BY <1>3, <2>2, <2>4
  <2> QED BY <2>5 DEF Said
<1>5. "ok" \in NewLine(c) => Said("ok", c)
  BY <1>3 DEF NewLine, Said
<1> QED BY <1>1, <1>2, <1>4, <1>5

(* A line that is said is the last. *)
LEMMA EmitSaid ==
  ASSUME lines \in [Children -> Seq(Lines)], NEW c \in Children, NEW line \in Lines,
         Emits(c, line)
  PROVE  /\ lines' \in [Children -> Seq(Lines)]
         /\ \A d \in Children : Said("ok", d)' => Said("ok", d) \/ (d = c /\ line = "ok")
<1>1. /\ lines[c] \in Seq(Lines) /\ Len(lines[c]) \in Nat
      /\ lines' = [lines EXCEPT ![c] = Append(lines[c], line)]
  BY LenProperties DEF Emits
<1>2. /\ Append(lines[c], line) \in Seq(Lines)
      /\ Len(Append(lines[c], line)) = Len(lines[c]) + 1
      /\ \A i \in 1..Len(lines[c]) : Append(lines[c], line)[i] = lines[c][i]
      /\ Append(lines[c], line)[Len(lines[c]) + 1] = line
  <2> DEFINE old == lines[c]
  <2>1. old \in Seq(Lines) /\ line \in Lines
    BY <1>1
  <2> HIDE DEF old
  <2>2. /\ Append(old, line) \in Seq(Lines)
        /\ Len(Append(old, line)) = Len(old) + 1
        /\ \A i \in 1..Len(old) : Append(old, line)[i] = old[i]
        /\ Append(old, line)[Len(old) + 1] = line
    BY <2>1, AppendProperties
  <2> QED BY <2>2 DEF old
<1>3. ASSUME NEW d \in Children, Said("ok", d)' PROVE Said("ok", d) \/ (d = c /\ line = "ok")
  <2>1. CASE d # c
    <3>1. lines'[d] = lines[d]
      BY <1>1, <2>1
    <3> QED BY <1>3, <3>1 DEF Said
  <2>2. CASE d = c
    <3>1. lines'[d] = Append(lines[c], line)
      BY <1>1, <2>2
    <3>2. PICK i \in 1..Len(lines[c]) + 1 : Append(lines[c], line)[i] = "ok"
      BY <1>2, <1>3, <3>1 DEF Said
    <3>3. i \in 1..Len(lines[c]) \/ i = Len(lines[c]) + 1
      BY <1>1
    <3> QED BY <1>2, <2>2, <3>2, <3>3 DEF Said
  <2> QED BY <2>1, <2>2
<1> QED BY <1>1, <1>2, <1>3

(* The verdict is of what was taken. *)
LEMMA SameVerdict ==
  ASSUME UNCHANGED taken PROVE Verdict' = Verdict
BY DEF Verdict, duplicate, out_of_order

(* the lines read and said keep SaidInv, *)
LEMMA SaidInvStep == TakenInv /\ SaidInv /\ [BenchNext]_benchVars => SaidInv'
<1> SUFFICES ASSUME TakenInv, SaidInv, [BenchNext]_benchVars PROVE SaidInv'
  OBVIOUS
<1>0. "subscriber" \in Children /\ "publisher" \in Children
  BY DEF Children
<1>1. CASE UNCHANGED << lines, result, pos, taken >>
  BY <1>1, SameVerdict DEF SaidInv, Said
<1>2. ASSUME NEW c \in Children, NEW from, NEW to, ChildGoes(c, from, to),
             c = "subscriber" /\ from \in {"leaving", "exit"} => to \in {"leaving", "exit"},
             UNCHANGED << lines, result, taken >>
      PROVE  SaidInv'
  <2>1. pos[c] = from /\ pos' = [pos EXCEPT ![c] = to]
    BY <1>2 DEF ChildGoes
  <2>2. pos["subscriber"] \in {"leaving", "exit"} => pos'["subscriber"] \in {"leaving", "exit"}
    BY <1>0, <1>2, <2>1 DEF TakenInv
  <2>3. Verdict' = Verdict
    BY <1>2, SameVerdict
  <2> QED BY <1>2, <2>2, <2>3 DEF SaidInv, Said
<1>3. ASSUME NEW c \in Children, NEW from, NEW to, NEW line \in Lines, line # "ok",
             ChildGoes(c, from, to), from \notin {"leaving", "exit"}, Emits(c, line),
             UNCHANGED << result, taken >>
      PROVE  SaidInv'
  <2>1. pos[c] = from /\ pos' = [pos EXCEPT ![c] = to]
    BY <1>3 DEF ChildGoes
  <2>2. pos["subscriber"] \in {"leaving", "exit"} => pos'["subscriber"] \in {"leaving", "exit"}
    BY <1>0, <1>3, <2>1 DEF TakenInv
  <2>3. Verdict' = Verdict
    BY <1>3, SameVerdict
  <2>4. lines' \in [Children -> Seq(Lines)] /\ \A d \in Children : Said("ok", d)' => Said("ok", d)
    BY <1>3, EmitSaid DEF SaidInv
  <2> QED BY <1>0, <1>3, <2>2, <2>3, <2>4 DEF SaidInv
<1>4. ASSUME ReadBoth, UNCHANGED << pos, taken >>,
             result' = "ok" => result = "ok" \/ "ok" \in NewLine("subscriber")
      PROVE  SaidInv'
  <2>1. /\ lines' \in [Children -> Seq(Lines)]
        /\ Said("ok", "subscriber")' => Said("ok", "subscriber")
        /\ "ok" \in NewLine("subscriber") => Said("ok", "subscriber")
    BY <1>0, <1>4, ReadSaid DEF SaidInv
  <2>2. Verdict' = Verdict
    BY <1>4, SameVerdict
  <2> QED BY <1>4, <2>1, <2>2 DEF SaidInv
<1>5. ASSUME NEW expired \in BOOLEAN, HandshakeRound(expired) PROVE SaidInv'
  BY <1>4, <1>5 DEF HandshakeRound, ddsVars
<1>6. ASSUME NEW expired \in BOOLEAN, ResultRound(expired) PROVE SaidInv'
  <2> DEFINE results == { l \in NewLine("subscriber") : l \in {"ok", "error"} }
  <2>1. /\ ReadBoth /\ UNCHANGED << pos, taken >>
        /\ result' = IF results = {} THEN result ELSE CHOOSE l \in results : TRUE
    BY <1>6 DEF ResultRound, ddsVars
  <2>2. results # {} => (CHOOSE l \in results : TRUE) \in results
    OBVIOUS
  <2> QED BY <1>4, <2>1, <2>2
<1>7. ASSUME NEW c \in Children, CreateEndpoint(c) \/ SeesMatch(c) PROVE SaidInv'
  <2>1. CASE CreateEndpoint(c)
    <3>1. /\ ChildGoes(c, "create", "match") /\ Emits(c, "READY")
          /\ UNCHANGED << result, taken >>
      BY <2>1 DEF CreateEndpoint, Stays, ddsVars, runnerVars
    <3>2. "READY" \in Lines
      BY DEF Lines
    <3> QED BY <1>3, <3>1, <3>2
  <2>2. CASE SeesMatch(c)
    <3>1. /\ ChildGoes(c, "match", "start") /\ Emits(c, "MATCHED")
          /\ UNCHANGED << result, taken >>
      BY <2>2 DEF SeesMatch, Stays, ddsVars, runnerVars
    <3>2. "MATCHED" \in Lines
      BY DEF Lines
    <3> QED BY <1>3, <3>1, <3>2
  <2> QED BY <1>7, <2>1, <2>2
<1>8. CASE Done
  <2>1. /\ ChildGoes("publisher", "done", "stop") /\ Emits("publisher", "DONE")
        /\ UNCHANGED << result, taken >>
    BY <1>8 DEF Done, Stays, ddsVars, runnerVars
  <2>2. "DONE" \in Lines
    BY DEF Lines
  <2> QED BY <1>0, <1>3, <2>1, <2>2
<1>9. CASE Report
  <2>1. /\ ChildGoes("subscriber", "result", "leaving") /\ Emits("subscriber", Verdict)
        /\ UNCHANGED << result, taken >>
    BY <1>9 DEF Report, Stays, ddsVars, runnerVars
  <2>2. pos["subscriber"] = "result" /\ pos'["subscriber"] = "leaving"
    BY <1>0, <2>1 DEF ChildGoes, TakenInv
  <2>3. result # "ok" /\ ~Said("ok", "subscriber")
    BY <2>2 DEF SaidInv
  <2>4. Verdict \in Lines /\ Verdict' = Verdict
    <3>1. Verdict' = Verdict
      BY <2>1, SameVerdict
    <3>2. Verdict = "ok" \/ Verdict = "error"
      BY DEF Verdict
    <3> QED BY <3>1, <3>2 DEF Lines
  <2>5. /\ lines' \in [Children -> Seq(Lines)]
        /\ Said("ok", "subscriber")' => Said("ok", "subscriber") \/ Verdict = "ok"
    BY <1>0, <2>1, <2>4, EmitSaid DEF SaidInv
  <2> QED BY <2>1, <2>2, <2>3, <2>4, <2>5 DEF SaidInv
<1>10. CASE Take
  <2>1. /\ pos["subscriber"] = "receive" /\ UNCHANGED << lines, result >>
    BY <1>10 DEF Take, ChildGoes, runnerVars
  <2>2. result # "ok" /\ ~Said("ok", "subscriber")
    BY <2>1 DEF SaidInv
  <2> QED BY <2>1, <2>2 DEF SaidInv, Said
<1>11. ASSUME NEW c \in Children, ChildStep(c) PROVE SaidInv'
  <2>1. CASE Start(c)
    BY <1>2, <2>1 DEF Start, Hears, Stays, ddsVars, runnerVars
  <2>2. CASE Orphaned(c)
    BY <1>2, <2>2 DEF Orphaned, Ends, runnerVars
  <2>3. CASE Write
    BY <1>0, <1>2, <2>3 DEF Write, runnerVars
  <2>4. CASE Stop
    BY <1>0, <1>2, <2>4 DEF Stop, Hears, Stays, ddsVars, runnerVars
  <2>5. CASE Leave(c)
    BY <1>2, <2>5 DEF Leave, Ends, runnerVars
  <2> QED BY <1>7, <1>8, <1>9, <1>10, <1>11, <2>1, <2>2, <2>3, <2>4, <2>5 DEF ChildStep
<1>12. CASE ReceiveTimesOut
  BY <1>0, <1>2, <1>12 DEF ReceiveTimesOut, Stays, ddsVars, runnerVars
<1>13. ASSUME NEW c \in Children, MatchTimesOut(c) \/ Crash(c) PROVE SaidInv'
  BY <1>2, <1>13 DEF MatchTimesOut, Crash, Ends, runnerVars
<1>14. CASE Deliver \/ Disturb \/ (\E c \in Children : Pairs(c)) \/ UNCHANGED benchVars
  BY <1>1, <1>14 DEF Deliver, Disturb, Pairs, benchVars, childVars, runnerVars, ddsVars
<1>15. CASE WriteConfig \/ StartRoudi \/ StartRoudiFails \/ RoudiStarted
            \/ RoudiStartupFails \/ Interrupt \/ Cleanup
            \/ WriteRecord \/ HandshakeBroken \/ TellStart
            \/ TellStop \/ WaitSubscriber \/ WaitPublisher \/ DropChildren
            \/ (\E c \in Children : Spawn(c) \/ SpawnFails(c))
            \/ RoudiStopped(TRUE) \/ RoudiStopped(FALSE) \/ RoudiComplains \/ RoudiObeys
            \/ RoudiCrashes \/ RunnerKilled
  <2>1. UNCHANGED << lines, result, pos, taken >>
    BY <1>15 DEF WriteConfig, StartRoudi, StartRoudiFails, RoudiStarted,
         RoudiStartupFails, Interrupt, RoudiStopped, Cleanup, WriteRecord,
         HandshakeBroken, TellStart, TellStop, Tells, WaitSubscriber,
         WaitPublisher, DropChildren, DropChild, Spawn, SpawnFails, RoudiComplains,
         RoudiObeys, RoudiCrashes, RunnerKilled, childVars, ddsVars, runnerVars
  <2> QED BY <1>1, <2>1
<1> QED BY <1>5, <1>6, <1>11, <1>12, <1>13, <1>14, <1>15 DEF BenchNext, RunnerStep, Runner

(* and only a run of children that ended well gets the status "ok". *)
LEMMA StatusInvStep ==
  BehindInv /\ StatusInv /\ [BenchNext]_benchVars => StatusInv'
<1> SUFFICES ASSUME BehindInv, StatusInv, [BenchNext]_benchVars PROVE StatusInv'
  OBVIOUS
<1>0. /\ "subscriber" \in Children /\ "publisher" \in Children /\ "roudi" \notin Children
      /\ Children \subseteq Processes
  BY DEF Children, Processes
<1>1. ASSUME status' # "ok" PROVE StatusInv'
  BY <1>1 DEF StatusInv
<1>2. ASSUME stage \notin Ending, UNCHANGED status PROVE StatusInv'
  BY <1>2 DEF StatusInv
<1>3. ASSUME stage' \in Ending, UNCHANGED << status, result >>,
             \A c \in Children : proc[c] = "ok" => proc'[c] = "ok"
      PROVE  StatusInv'
  BY <1>3 DEF StatusInv
<1>4. ASSUME UNCHANGED << status, stage, result >>,
             \A c \in Children : proc[c] = "ok" => proc'[c] = "ok"
      PROVE  StatusInv'
  BY <1>4 DEF StatusInv
<1>5. CASE WriteConfig \/ StartRoudiFails \/ StartRoudi \/ RoudiStarted \/ RoudiStartupFails
            \/ (\E c \in Children : Spawn(c) \/ SpawnFails(c))
            \/ (\E e \in BOOLEAN : HandshakeRound(e) \/ ResultRound(e))
            \/ HandshakeBroken \/ TellStart \/ TellStop \/ WaitSubscriber
  <2>1. status' = "error" \/ (stage \notin Ending /\ status' = status)
    BY <1>5 DEF WriteConfig, StartRoudiFails, StartRoudi, RoudiStarted, RoudiStartupFails,
         Spawn, SpawnFails, SpawnAt, HandshakeRound, ResultRound, HandshakeBroken, TellStart, TellStop,
         Tells, WaitSubscriber, RunnerGoes, Returns, Ending
  <2> QED BY <1>1, <1>2, <2>1
<1>6. CASE WaitPublisher
  <2>1. /\ stage' \in Ending /\ UNCHANGED << proc, result >>
        /\ status' = IF \A c \in Children : proc[c] = "ok" THEN result ELSE "error"
    BY <1>6 DEF WaitPublisher, Returns, RunnerGoes, Ending
  <2> QED BY <2>1 DEF StatusInv
<1>7. ASSUME NEW p \in Processes, Terminates(p)
      PROVE  \A c \in Children : proc[c] = "ok" => proc'[c] = "ok"
  BY <1>0, <1>7 DEF Terminates, Running, BehindInv
<1>8. CASE Interrupt \/ Cleanup \/ WriteRecord \/ DropChildren \/ RunnerKilled
            \/ (\E e \in BOOLEAN : RoudiStopped(e))
  <2>1. stage' \in Ending /\ UNCHANGED << status, result >>
    BY <1>8 DEF Interrupt, Cleanup, WriteRecord, DropChildren, DropChild, RunnerKilled,
         RoudiStopped, RunnerGoes, Ending
  <2>2. UNCHANGED proc \/ \E p \in Processes : Terminates(p)
    BY <1>0, <1>8 DEF Interrupt, Cleanup, WriteRecord, DropChildren, DropChild, RunnerKilled,
         RoudiStopped, processVars, Processes
  <2> QED BY <1>3, <1>7, <2>1, <2>2
<1>9. CASE RoudiObeys \/ RoudiCrashes
  <2>1. UNCHANGED << status, stage, result >> /\ \A c \in Children : proc'[c] = proc[c]
    BY <1>0, <1>9 DEF RoudiObeys, RoudiCrashes, runnerVars, BehindInv
  <2> QED BY <1>4, <2>1
<1>10. ASSUME NEW c \in Children, ChildStep(c) \/ MatchTimesOut(c) \/ Crash(c) PROVE StatusInv'
  <2>1. /\ UNCHANGED << status, stage, result >> /\ Running(c)
        /\ proc' = proc \/ \E how \in {"ok", "fail"} : proc' = [proc EXCEPT ![c] = how]
    BY <1>10 DEF ChildStep, CreateEndpoint, SeesMatch, Start, Orphaned, Write, Done, Stop,
         Take, Report, Leave, MatchTimesOut, Crash, ChildGoes, Hears, Ends, Stays, processVars,
         runnerVars
  <2>2. \A d \in Children : proc[d] = "ok" => proc'[d] = "ok"
    BY <1>0, <2>1 DEF BehindInv, Running
  <2> QED BY <1>4, <2>1, <2>2
<1>11. CASE RoudiComplains \/ ReceiveTimesOut \/ Deliver \/ Disturb
            \/ (\E c \in Children : Pairs(c)) \/ UNCHANGED benchVars
  <2>1. UNCHANGED << status, stage, result, proc >>
    BY <1>11 DEF RoudiComplains, ReceiveTimesOut, Deliver, Disturb, Pairs, benchVars,
       runnerVars, processVars, Stays
  <2> QED BY <1>4, <2>1
<1> QED BY <1>5, <1>6, <1>8, <1>9, <1>10, <1>11 DEF BenchNext, RunnerStep, Runner

(* What a record that says "ok" says *)
OkIsTrue ==
  stage = "done" /\ status = "ok" =>
    /\ taken = [i \in 1..Total |-> i - 1] /\ written = Total
    /\ \A c \in Children : proc[c] = "ok"

(* So a record that says "ok" is true. *)
LEMMA OkHolds == TakenInv /\ SaidInv /\ StatusInv => OkIsTrue
<1> SUFFICES ASSUME TakenInv, SaidInv, StatusInv, status = "ok"
             PROVE  /\ taken = [i \in 1..Total |-> i - 1] /\ written = Total
                    /\ \A c \in Children : proc[c] = "ok"
  BY DEF OkIsTrue
<1>1. result = "ok" /\ \A c \in Children : proc[c] = "ok"
  BY DEF StatusInv
<1>2. Verdict = "ok"
  BY <1>1 DEF SaidInv
<1>3. Total \in Nat /\ Total > 0 /\ written \in 0..Total
  BY BenchAssumption DEF TakenInv
<1>4. taken \in Seq(0..written - 1) /\ 0..written - 1 \subseteq Nat
  BY <1>3 DEF TakenInv
<1>5. taken \in Seq(Nat)
  BY <1>4, WiderSeq
<1>6. taken = [i \in 1..Total |-> i - 1]
  BY <1>2, <1>5, VerdictOrders
<1>7. taken[Total] \in 0..written - 1
  <2>1. Total \in DOMAIN taken
    BY <1>3, <1>6
  <2> QED BY <1>4, <2>1, LenProperties
<1>8. taken[Total] = Total - 1
  BY <1>3, <1>6
<1>9. written = Total
  BY <1>3, <1>7, <1>8
<1> QED BY <1>1, <1>6, <1>9

-----------------------------------------------------------------------------
(* A run in which nothing fails *)

(* Nothing failed and no deadline passed, but for that of RouDi's end       *)
Calm == faults = 0 /\ late \subseteq {"roudi"}

(* Stages before the first child is started, while it is, and after the     *)
(* last has ended                                                           *)
Early == { "config", "roudi", "startup", "spawnSubscriber", "spawnPublisher", "handshake" }
Starting == { "startSubscriber", "startPublisher", "results" }
Finished == Ending \ {"unrecorded", "killed"}

CalmProcesses ==
  /\ stage \notin {"unrecorded", "killed"} /\ ~startup_failed
  /\ \A p \in {"roudi"} : stage = "startup" => proc[p] = "run"
  /\ \A c \in Children :
       /\ pos[c] \notin {"create", "match"} => c \in met
       /\ IF stage \in NotYet(c) THEN pos[c] = "create"
          ELSE proc[c] = IF pos[c] = "exit" THEN "ok" ELSE "run"

(* What a child said is still on its way or has been noted                  *)
Agrees(c) ==
  LET ready == << "READY", c >> \in handshake
      matched == << "MATCHED", c >> \in handshake
  IN \/ pos[c] = "create" /\ lines[c] = << >> /\ ~ready /\ ~matched
     \/ pos[c] = "match" /\ lines[c] = << "READY" >> /\ ~ready /\ ~matched
     \/ pos[c] = "match" /\ lines[c] = << >> /\ ready /\ ~matched
     \/ pos[c] = "start" /\ lines[c] = << "READY", "MATCHED" >> /\ ~ready /\ ~matched
     \/ pos[c] = "start" /\ lines[c] = << "MATCHED" >> /\ ready /\ ~matched
     \/ pos[c] = "start" /\ lines[c] = << >> /\ ready /\ matched

CalmHandshake ==
  stage \in Early =>
    /\ result = "none" /\ ~messages_sent
    /\ handshake \subseteq {"READY", "MATCHED"} \X Children
    /\ \A c \in Children : stdin[c] = << >> /\ Agrees(c)

(* A child that was told something hears it, or has gone on                 *)
Waits(c, at) == pos[c] = at /\ stdin[c] = << >>
Told(c, line, at, after) ==
  \/ pos[c] = at /\ stdin[c] = << line >>
  \/ pos[c] \in after /\ stdin[c] = << >>

CalmSubscriber(c) ==
  /\ stage = "startSubscriber" => Waits(c, "start")
  /\ stage \in {"startPublisher", "results"} =>
       Told(c, "START", "start", {"receive", "result", "leaving", "exit"})
  /\ stage \notin Early \cup Starting => pos[c] \in {"leaving", "exit"} /\ result = "ok"
  /\ stage \in {"waitPublisher"} \cup Finished => pos[c] = "exit"
  /\ stage \in Starting =>
       IF pos[c] \in {"leaving", "exit"}
       THEN (lines[c] = << "ok" >> /\ result = "none") \/ (lines[c] = << >> /\ result = "ok")
       ELSE lines[c] = << >> /\ result = "none"

CalmPublisher(c) ==
  /\ stage \in {"startSubscriber", "startPublisher"} => Waits(c, "start")
  /\ stage = "results" => Told(c, "START", "start", {"write", "done", "stop"})
  /\ stage = "stop" => Waits(c, "stop")
  /\ stage \in {"waitSubscriber", "waitPublisher"} => Told(c, "STOP", "stop", {"leaving", "exit"})
  /\ stage \in Finished => pos[c] = "exit" /\ status = "ok"
  /\ stage \in Starting =>
       IF pos[c] = "stop"
       THEN (lines[c] = << "DONE" >> /\ ~messages_sent) \/ (lines[c] = << >> /\ messages_sent)
       ELSE lines[c] = << >> /\ ~messages_sent

(* What was written is taken, in the cache or on its way, in this order     *)
InOrder ==
  /\ Len(taken) + Len(cache) + Len(network) = written
  /\ \A i \in 1..Len(taken) : taken[i] = i - 1
  /\ \A i \in 1..Len(cache) : cache[i] = Len(taken) + i - 1
  /\ \A i \in 1..Len(network) : network[i] = Len(taken) + Len(cache) + i - 1

CalmFlow ==
  /\ \A c \in {"publisher"} : pos[c] \in {"create", "match", "start"} => written = 0
  /\ \A c \in {"subscriber"} :
       /\ pos[c] \notin {"leaving", "exit"} => InOrder
       /\ pos[c] = "result" => Len(taken) = Total

CalmState ==
  /\ CalmProcesses /\ CalmHandshake /\ CalmFlow
  /\ \A c \in {"subscriber"} : CalmSubscriber(c)
  /\ \A c \in {"publisher"} : CalmPublisher(c)

(* What the runner tells the children *)
OrdersInv == faults \in Nat /\ stdin \in [Children -> Seq({"START", "STOP"})]

CalmInv == Calm => CalmState

(* What holds of every run, calm or not *)
BaseInv == BehindInv /\ TakenInv /\ OrdersInv /\ lines \in [Children -> Seq(Lines)]

(* A step after which all is calm is no fault and passes no deadline but RouDi's *)
LEMMA StaysCalm ==
  ASSUME faults \in Nat, Calm'
  PROVE  /\ ~Fault /\ \A d : Passes(d) => d = "roudi"
         /\ UNCHANGED faults /\ late \subseteq late' => Calm
<1>1. ~Fault
  BY DEF Calm, Fault
<1>2. ASSUME NEW d, Passes(d) PROVE d = "roudi"
  BY <1>2 DEF Calm, Passes
<1>3. ASSUME UNCHANGED faults, late \subseteq late' PROVE Calm
  BY <1>3 DEF Calm
<1> QED BY <1>1, <1>2, <1>3

(* Nothing flows. *)
LEMMA SameFlow ==
  ASSUME CalmFlow, UNCHANGED << pos, ddsVars >> PROVE CalmFlow'
BY DEF CalmFlow, InOrder, ddsVars

(* The order of the messages is that of the three queues. *)
LEMMA InOrderSame ==
  ASSUME UNCHANGED << taken, cache, network, written >> PROVE InOrder' <=> InOrder
BY DEF InOrder

(* Steps that the runner alone takes, except those that talk to the children *)
LEMMA RunnerCalm ==
  ASSUME BaseInv, CalmState, NEW from \in Stages, NEW to \in Stages \ {"startup", "unrecorded", "killed"},
         RunnerGoes(from, to),
         UNCHANGED << pos, stdin, lines, ddsVars, handshake, result, messages_sent,
                      startup_failed >>,
         \A c \in Children : /\ from \in NotYet(c) <=> to \in NotYet(c)
                             /\ proc'[c] = proc[c],
         to \in Early => from \in Early,
         to \in Starting => from = to,
         to \notin Early \cup Starting => from \notin Early \cup Starting,
         to = "stop" => from = "stop",
         to \in {"waitSubscriber", "waitPublisher"} => from \in {"waitSubscriber", "waitPublisher"},
         to \in Finished => from \in Finished /\ status' = status,
         to = "waitPublisher" => \A c \in {"subscriber"} : pos[c] = "exit"
  PROVE  CalmState'
<1>1. CalmProcesses'
  BY DEF CalmState, CalmProcesses, RunnerGoes, ddsVars, Early, Starting
<1>2. CalmHandshake'
  BY DEF CalmState, CalmHandshake, Agrees, RunnerGoes
<1>3. CalmFlow'
  BY SameFlow DEF CalmState
<1>4. \A c \in {"subscriber"} : CalmSubscriber(c)'
  BY DEF CalmState, CalmSubscriber, Told, Waits, RunnerGoes, Starting
<1>5. \A c \in {"publisher"} : CalmPublisher(c)'
  BY DEF CalmState, CalmPublisher, Told, Waits, RunnerGoes, Starting, Finished
<1> QED BY <1>1, <1>2, <1>3, <1>4, <1>5 DEF CalmState

(* A child that ended well is not killed. *)
LEMMA TerminatesCalm ==
  ASSUME BehindInv, NEW p \in Processes, Terminates(p), NEW c \in Children, proc[c] = "ok"
  PROVE  proc'[c] = "ok"
BY DEF BehindInv, Terminates, Running, Processes

(* The runner prepares and cleans up, *)
LEMMA SetupCalm ==
  ASSUME BaseInv, CalmState, faults \in Nat, Calm',
         \/ WriteConfig \/ StartRoudi \/ StartRoudiFails \/ RoudiStarted
         \/ RoudiStartupFails \/ Interrupt \/ Cleanup \/ WriteRecord
  PROVE  CalmState'
<1>0. ~Fault
  BY StaysCalm
<1>1. CASE WriteConfig
  <2>1. /\ RunnerGoes("config", IF shm THEN "roudi" ELSE "spawnSubscriber")
        /\ UNCHANGED << pos, stdin, lines, ddsVars, handshake, result, messages_sent, proc,
                        startup_failed >>
    BY <1>0, <1>1 DEF WriteConfig, processVars, childVars
  <2> QED BY <2>1, RunnerCalm DEF Stages, NotYet, Children, Early, Starting, Finished, Ending
<1>2. CASE StartRoudi
  <2>1. /\ stage = "roudi" /\ stage' = "startup" /\ proc' = [proc EXCEPT !["roudi"] = "run"]
        /\ UNCHANGED << pos, stdin, lines, ddsVars, handshake, result, messages_sent,
                        startup_failed >>
    BY <1>2 DEF StartRoudi, RunnerGoes, childVars
  <2>2. CalmProcesses'
    BY <2>1 DEF CalmState, CalmProcesses, BaseInv, BehindInv, ddsVars, NotYet, Processes, Children
  <2>3. CalmHandshake'
    BY <2>1 DEF CalmState, CalmHandshake, Agrees, Early
  <2>4. CalmFlow'
    BY <2>1, SameFlow DEF CalmState
  <2> QED BY <2>1, <2>2, <2>3, <2>4 DEF CalmState, CalmSubscriber, CalmPublisher, Early,
                                         Starting, Finished, Ending
<1>3. CASE StartRoudiFails
  BY <1>0, <1>3 DEF StartRoudiFails
<1>4. CASE RoudiStarted
  <2>1. /\ RunnerGoes("startup", "spawnSubscriber")
        /\ UNCHANGED << pos, stdin, lines, ddsVars, handshake, result, messages_sent, proc,
                        startup_failed >>
    BY <1>4 DEF RoudiStarted, processVars, childVars
  <2> QED BY <2>1, RunnerCalm DEF Stages, NotYet, Children, Early, Starting, Finished, Ending
<1>5. CASE RoudiStartupFails
  BY <1>5 DEF RoudiStartupFails, CalmState, CalmProcesses, RunnerGoes, Running
<1>6. CASE Interrupt \/ Cleanup \/ WriteRecord
  <2>1. /\ UNCHANGED << pos, stdin, lines, ddsVars, handshake, result, messages_sent, proc,
                        startup_failed, status >>
        /\ \E from, to \in {"stopRoudi", "roudiEnds", "cleanup", "record", "done"} :
             RunnerGoes(from, to)
    BY <1>0, <1>6 DEF Interrupt, Cleanup, WriteRecord, processVars, childVars, RunnerGoes
  <2> QED BY <2>1, RunnerCalm DEF Stages, NotYet, Children, Early, Starting, Finished, Ending
<1> QED BY <1>1, <1>2, <1>3, <1>4, <1>5, <1>6

(* ends what is left *)
LEMMA EndingCalm ==
  ASSUME BaseInv, CalmState,
         WaitSubscriber \/ DropChildren \/ (\E e \in BOOLEAN : RoudiStopped(e))
  PROVE  CalmState'
<1>0. "roudi" \in Processes /\ Children \subseteq Processes /\ "roudi" \notin Children
      /\ "publisher" \in Children /\ "subscriber" \in Children
  BY DEF Processes, Children
<1>1. CASE WaitSubscriber
  <2>1. /\ RunnerGoes("waitSubscriber", "waitPublisher")
        /\ UNCHANGED << pos, stdin, lines, ddsVars, handshake, result, messages_sent, proc,
                        startup_failed >>
    BY <1>1 DEF WaitSubscriber, childVars
  <2>2. \A c \in {"subscriber"} : pos[c] = "exit"
    BY <1>0, <1>1, <2>1 DEF WaitSubscriber, Running, RunnerGoes, CalmState, CalmProcesses, NotYet
  <2> QED BY <2>1, <2>2, RunnerCalm DEF Stages, NotYet, Children, Early, Starting, Finished, Ending
<1>2. ASSUME stage \in Finished PROVE \A c \in Children : proc[c] = "ok"
  <2>1. \A c \in Children : pos[c] = "exit"
    BY <1>2 DEF CalmState, CalmSubscriber, CalmPublisher, Children, Finished, Ending, Early,
                Starting
  <2> QED BY <1>2, <2>1 DEF CalmState, CalmProcesses, NotYet, Finished, Ending
<1>3. ASSUME NEW p \in Processes, Terminates(p), stage \in Finished
      PROVE  \A c \in Children : proc'[c] = proc[c]
  BY <1>2, <1>3, TerminatesCalm DEF BaseInv
<1>4. CASE DropChildren
  <2>1. /\ UNCHANGED << pos, stdin, lines, ddsVars, handshake, result, messages_sent,
                        startup_failed, status >>
        /\ \E from \in {"dropPublisher", "dropSubscriber"} :
             \E to \in {"dropSubscriber", "stopRoudi"} : RunnerGoes(from, to)
        /\ \E p \in Processes : Terminates(p)
    BY <1>0, <1>4 DEF DropChildren, DropChild, childVars
  <2>2. stage \in Finished
    BY <2>1 DEF RunnerGoes, Finished, Ending
  <2>3. \A c \in Children : proc'[c] = proc[c]
    BY <1>3, <2>1, <2>2
  <2> QED BY <2>1, <2>3, RunnerCalm DEF Stages, NotYet, Children, Early, Starting, Finished, Ending
<1>5. ASSUME NEW e \in BOOLEAN, RoudiStopped(e) PROVE CalmState'
  <2>1. /\ UNCHANGED << pos, stdin, lines, ddsVars, handshake, result, messages_sent,
                        startup_failed, status >>
        /\ RunnerGoes("roudiEnds", "cleanup")
        /\ Terminates("roudi")
    BY <1>5 DEF RoudiStopped, childVars
  <2>2. stage \in Finished
    BY <2>1 DEF RunnerGoes, Finished, Ending
  <2>3. \A c \in Children : proc'[c] = proc[c]
    BY <1>0, <1>3, <2>1, <2>2
  <2> QED BY <2>1, <2>3, RunnerCalm DEF Stages, NotYet, Children, Early, Starting, Finished, Ending
<1> QED BY <1>1, <1>4, <1>5

(* and spawns a child. *)
LEMMA SpawnCalm ==
  ASSUME BaseInv, CalmState, NEW c \in Children, Spawn(c)
  PROVE  CalmState'
<1>1. /\ stage = SpawnAt(c) /\ proc' = [proc EXCEPT ![c] = "run"]
      /\ stage' = IF c = "subscriber" THEN "spawnPublisher" ELSE "handshake"
      /\ UNCHANGED << pos, stdin, lines, ddsVars, handshake, result, messages_sent,
                      startup_failed >>
  BY DEF Spawn, RunnerGoes, childVars
<1>2. CalmProcesses'
  BY <1>1 DEF CalmState, CalmProcesses, BaseInv, BehindInv, ddsVars, NotYet, Processes, Children,
              SpawnAt
<1>3. CalmHandshake'
  BY <1>1 DEF CalmState, CalmHandshake, Agrees, Early, SpawnAt, Children
<1>4. CalmFlow'
  BY <1>1, SameFlow DEF CalmState
<1> QED BY <1>1, <1>2, <1>3, <1>4 DEF CalmState, CalmSubscriber, CalmPublisher, Early,
                                       Starting, Finished, Ending

-----------------------------------------------------------------------------
(* The runner of a calm run *)

(* What the runner reads of a child: the first of its lines *)
LEMMA FirstRead ==
  ASSUME NEW c \in Children, ReadBoth
  PROVE  /\ lines[c] = << >> => NewLine(c) = {} /\ lines'[c] = << >>
         /\ \A a : lines[c] = << a >> => NewLine(c) = {a} /\ lines'[c] = << >>
         /\ \A a, b : lines[c] = << a, b >> => NewLine(c) = {a} /\ lines'[c] = << b >>
<1>0. lines'[c] = Read(c)
  BY DEF ReadBoth
<1>1. ASSUME lines[c] = << >> PROVE NewLine(c) = {} /\ Read(c) = << >>
  BY <1>1 DEF NewLine, Read
<1>2. ASSUME NEW a, lines[c] = << a >> PROVE NewLine(c) = {a} /\ Read(c) = << >>
  BY <1>2 DEF NewLine, Read
<1>3. ASSUME NEW a, NEW b, lines[c] = << a, b >> PROVE NewLine(c) = {a} /\ Read(c) = << b >>
  BY <1>3 DEF NewLine, Read
<1> QED BY <1>0, <1>1, <1>2, <1>3

(* The children run while the runner waits for them *)
LEMMA RunningCalm ==
  ASSUME CalmState
  PROVE  /\ stage \in {"handshake", "startSubscriber"} => \A c \in Children : Running(c)
         /\ stage \in {"startPublisher", "stop"} => \A c \in {"publisher"} : Running(c)
<1>1. ASSUME stage = "handshake" PROVE \A c \in Children : pos[c] # "exit"
  BY <1>1 DEF CalmState, CalmHandshake, Agrees, Early
<1>2. ASSUME stage = "startSubscriber" PROVE \A c \in Children : pos[c] # "exit"
  BY <1>2 DEF CalmState, CalmSubscriber, CalmPublisher, Waits, Children
<1>3. ASSUME stage \in {"startPublisher", "stop"} PROVE \A c \in {"publisher"} : pos[c] # "exit"
  BY <1>3 DEF CalmState, CalmPublisher, Waits
<1>4. ASSUME NEW c \in Children, pos[c] # "exit",
             stage \in {"handshake", "startSubscriber", "startPublisher", "stop"}
      PROVE  Running(c)
  BY <1>4 DEF CalmState, CalmProcesses, NotYet, Running
<1> QED BY <1>1, <1>2, <1>3, <1>4 DEF Children

(* The four lines of the handshake *)
LEMMA FourLines ==
  ASSUME NEW said, said \subseteq {"READY", "MATCHED"} \X Children, Cardinality(said) = 4
  PROVE  said = {"READY", "MATCHED"} \X Children
<1> DEFINE a == << "READY", "subscriber" >>  b == << "READY", "publisher" >>
           d == << "MATCHED", "subscriber" >>  e == << "MATCHED", "publisher" >>
<1>1. {"READY", "MATCHED"} \X Children = (({a} \cup {b}) \cup {d}) \cup {e}
  BY DEF Children
<1>2. a # b /\ a # d /\ a # e /\ b # d /\ b # e /\ d # e
  OBVIOUS
<1> HIDE DEF a, b, d, e
<1>3. IsFiniteSet({a}) /\ Cardinality({a}) = 1
  BY FS_Singleton
<1>4. IsFiniteSet({a} \cup {b}) /\ Cardinality({a} \cup {b}) = 1 + 1
  <2>1. b \notin {a}
    BY <1>2
  <2> QED BY <1>3, <2>1, OneMore
<1>5. IsFiniteSet({a} \cup {b} \cup {d}) /\ Cardinality({a} \cup {b} \cup {d}) = 2 + 1
  <2>1. d \notin {a} \cup {b} /\ 1 + 1 = 2
    BY <1>2
  <2>2. Cardinality({a} \cup {b}) = 2
    BY <1>4, <2>1
  <2> QED BY <1>4, <2>1, <2>2, OneMore
<1>6. IsFiniteSet({a} \cup {b} \cup {d} \cup {e})
      /\ Cardinality({a} \cup {b} \cup {d} \cup {e}) = 3 + 1
  <2>1. e \notin {a} \cup {b} \cup {d} /\ 2 + 1 = 3
    BY <1>2
  <2>2. Cardinality({a} \cup {b} \cup {d}) = 3
    BY <1>5, <2>1
  <2> DEFINE A == {a} \cup {b} \cup {d}
  <2>3. IsFiniteSet(A) /\ Cardinality(A) = 3 /\ e \notin A
    BY <1>5, <2>1, <2>2
  <2> HIDE DEF A
  <2>4. IsFiniteSet(A \cup {e}) /\ Cardinality(A \cup {e}) = 3 + 1
    BY <2>3, OneMore
  <2> QED BY <2>4 DEF A
<1> QED BY <1>1, <1>6, FS_Subset

(* The handshake reads a line of each child, and ends with both at the      *)
(* start.                                                                   *)
LEMMA HandshakeCalm ==
  ASSUME BaseInv, CalmState, HandshakeRound(FALSE) PROVE CalmState'
<1> DEFINE agreed == handshake \cup UNION { NewLine(c) \X {c} : c \in Children }
<1>1. /\ stage = "handshake" /\ ReadBoth /\ handshake' = agreed
      /\ stage' = IF Cardinality(agreed) = 4 THEN "startSubscriber" ELSE "handshake"
      /\ UNCHANGED << status, result, messages_sent, proc, reaped, startup_failed, pos, stdin,
                      ddsVars >>
  BY DEF HandshakeRound, RunnerGoes, processVars
<1>2. \A line, c : c \in Children =>
        (<< line, c >> \in agreed <=> << line, c >> \in handshake \/ line \in NewLine(c))
  OBVIOUS
<1>3. ASSUME NEW c \in Children PROVE Agrees(c)'
  <2>1. Agrees(c)
    BY <1>1 DEF CalmState, CalmHandshake, Early
  <2>2. /\ lines[c] = << >> => NewLine(c) = {} /\ lines'[c] = << >>
        /\ \A a : lines[c] = << a >> => NewLine(c) = {a} /\ lines'[c] = << >>
        /\ \A a, b : lines[c] = << a, b >> => NewLine(c) = {a} /\ lines'[c] = << b >>
    BY <1>1, FirstRead
  <2> HIDE DEF agreed
  <2>3. /\ << "READY", c >> \in handshake' <=> << "READY", c >> \in handshake \/ "READY" \in NewLine(c)
        /\ << "MATCHED", c >> \in handshake' <=> << "MATCHED", c >> \in handshake \/ "MATCHED" \in NewLine(c)
    BY <1>1, <1>2
  <2>4. /\ lines[c] = << "READY" >> => NewLine(c) = {"READY"} /\ lines'[c] = << >>
        /\ lines[c] = << "MATCHED" >> => NewLine(c) = {"MATCHED"} /\ lines'[c] = << >>
        /\ lines[c] = << "READY", "MATCHED" >> => NewLine(c) = {"READY"} /\ lines'[c] = << "MATCHED" >>
    BY <2>2
  <2>5. UNCHANGED pos
    BY <1>1
  <2> QED BY <2>1, <2>2, <2>3, <2>4, <2>5 DEF Agrees
<1>4. agreed \subseteq {"READY", "MATCHED"} \X Children
  <2>1. ASSUME NEW c \in Children PROVE NewLine(c) \subseteq {"READY", "MATCHED"}
    <3>1. Agrees(c)
      BY <1>1 DEF CalmState, CalmHandshake, Early
    <3>2. lines[c] \in {<< >>, << "READY" >>, << "MATCHED" >>, << "READY", "MATCHED" >>}
      BY <3>1 DEF Agrees
    <3> QED BY <1>1, <3>2, FirstRead
  <2>2. handshake \subseteq {"READY", "MATCHED"} \X Children
    BY <1>1 DEF CalmState, CalmHandshake, Early
  <2> QED BY <2>1, <2>2
<1>5. CalmProcesses'
  BY <1>1 DEF CalmState, CalmProcesses, ddsVars, NotYet
<1>6. CalmHandshake'
  BY <1>1, <1>3, <1>4 DEF CalmState, CalmHandshake, Early
<1>7. CalmFlow'
  BY <1>1, SameFlow DEF CalmState
<1>8. ASSUME stage' = "startSubscriber"
      PROVE  \A c \in Children : Waits(c, "start")' /\ lines'[c] = << >>
  <2>1. agreed = {"READY", "MATCHED"} \X Children
    BY <1>1, <1>4, <1>8, FourLines
  <2>2. \A c \in Children : stdin[c] = << >>
    BY <1>1 DEF CalmState, CalmHandshake, Early
  <2>3. \A c \in Children : << "READY", c >> \in handshake' /\ << "MATCHED", c >> \in handshake'
    BY <1>1, <2>1
  <2>4. \A c \in Children : pos'[c] = "start" /\ lines'[c] = << >>
    BY <1>3, <2>3 DEF Agrees
  <2> QED BY <1>1, <2>2, <2>4 DEF Waits
<1>9. result = "none" /\ ~messages_sent
  BY <1>1 DEF CalmState, CalmHandshake, Early
<1>10. stage' \in {"startSubscriber", "handshake"}
  BY <1>1
<1>11. \A c \in {"subscriber"} : CalmSubscriber(c)'
  BY <1>1, <1>8, <1>9, <1>10 DEF CalmSubscriber, Early, Starting, Finished, Ending, Children, Waits
<1>12. \A c \in {"publisher"} : CalmPublisher(c)'
  BY <1>1, <1>8, <1>9, <1>10 DEF CalmPublisher, Early, Starting, Children, Waits, Finished, Ending
<1> QED BY <1>5, <1>6, <1>7, <1>11, <1>12 DEF CalmState

(* OrdersInv holds when the runner begins, *)
LEMMA OrdersInvInit == BenchInit => OrdersInv
BY EmptySeq DEF BenchInit, OrdersInv

(* when a child is told, *)
LEMMA TellsTyped ==
  ASSUME OrdersInv, NEW c \in Children, NEW line \in {"START", "STOP"}, NEW from, NEW to,
         Tells(c, line, from, to)
  PROVE  OrdersInv'
<1>1. stdin[c] \in Seq({"START", "STOP"})
  BY DEF OrdersInv
<1>2. Append(stdin[c], line) \in Seq({"START", "STOP"})
  BY <1>1, AppendProperties
<1> QED BY <1>2 DEF Tells, OrdersInv, faultVars

(* when it hears *)
LEMMA HearsTyped ==
  ASSUME OrdersInv, NEW c \in Children, NEW line, NEW from, NEW to, Hears(c, line, from, to)
  PROVE  OrdersInv'
<1>1. stdin[c] \in Seq({"START", "STOP"}) /\ stdin[c] # << >>
  BY DEF OrdersInv, Hears
<1>2. Tail(stdin[c]) \in Seq({"START", "STOP"})
  BY <1>1, HeadTailProperties
<1> QED BY <1>2 DEF Hears, OrdersInv, faultVars

(* and after every step. *)
LEMMA OrdersInvStep == OrdersInv /\ [BenchNext]_benchVars => OrdersInv'
<1> SUFFICES ASSUME OrdersInv, [BenchNext]_benchVars PROVE OrdersInv'
  OBVIOUS
<1>0. "subscriber" \in Children /\ "publisher" \in Children
  BY DEF Children
<1>1. CASE TellStart \/ TellStop
  BY <1>0, <1>1, TellsTyped DEF TellStart, TellStop
<1>2. CASE Stop \/ (\E c \in Children : Start(c))
  BY <1>0, <1>2, HearsTyped DEF Stop, Start
<1>3. ASSUME UNCHANGED stdin, UNCHANGED faults \/ Fault PROVE OrdersInv'
  BY <1>3 DEF OrdersInv, Fault
<1>4. ASSUME NEW c \in Children, ChildStep(c) \/ MatchTimesOut(c) \/ Crash(c) \/ Pairs(c)
      PROVE  OrdersInv'
  BY <1>2, <1>3, <1>4 DEF ChildStep, CreateEndpoint, SeesMatch, Orphaned, Write, Done,
     Take, Report, Leave, MatchTimesOut, Crash, Pairs, childVars, faultVars, Passes
<1>5. CASE WriteConfig \/ StartRoudi \/ StartRoudiFails \/ RoudiStarted
            \/ RoudiStartupFails \/ Interrupt \/ Cleanup
            \/ WriteRecord \/ HandshakeBroken
            \/ WaitSubscriber \/ WaitPublisher \/ DropChildren
            \/ (\E c \in Children : Spawn(c) \/ SpawnFails(c))
            \/ (\E e \in BOOLEAN : HandshakeRound(e) \/ ResultRound(e) \/ RoudiStopped(e))
            \/ RoudiComplains \/ RoudiObeys \/ RoudiCrashes \/ RunnerKilled
            \/ ReceiveTimesOut \/ Deliver \/ Disturb \/ UNCHANGED benchVars
  <2>1. UNCHANGED stdin /\ (UNCHANGED faults \/ Fault)
    BY <1>5 DEF WriteConfig, StartRoudi, StartRoudiFails, RoudiStarted,
         RoudiStartupFails, Interrupt, RoudiStopped, Cleanup, WriteRecord,
         HandshakeBroken, WaitSubscriber, HandshakeRound, ResultRound,
         WaitPublisher, DropChildren, DropChild, Spawn, SpawnFails, RoudiComplains,
         RoudiObeys, RoudiCrashes, RunnerKilled, ReceiveTimesOut, Deliver, Disturb,
         childVars, faultVars, benchVars, Passes, NoFault
  <2> QED BY <1>3, <2>1
<1> QED BY <1>1, <1>2, <1>4, <1>5 DEF BenchNext, RunnerStep, Runner

(* A child is told: it runs, and nothing it was told before is unread *)
LEMMA TellCalm ==
  ASSUME BaseInv, CalmState, TellStart \/ TellStop PROVE CalmState'
<1>0. "subscriber" \in Children /\ "publisher" \in Children
  BY DEF Children
<1>1. ASSUME NEW c \in Children, NEW line, NEW from, NEW to, Tells(c, line, from, to),
             stdin[c] = << >>, Running(c)
      PROVE  /\ stage = from /\ stage' = to /\ stdin'[c] = << line >>
             /\ \A d \in Children : d # c => stdin'[d] = stdin[d]
             /\ UNCHANGED << status, handshake, result, messages_sent, proc, startup_failed,
                             pos, lines, ddsVars >>
  BY <1>1 DEF Tells, RunnerGoes, processVars, BaseInv, OrdersInv
<1>2. CASE Tells("subscriber", "START", "startSubscriber", "startPublisher")
  <2>1. stage = "startSubscriber"
    BY <1>2 DEF Tells, RunnerGoes, Returns
  <2>2. Running("subscriber") /\ stdin["subscriber"] = << >>
    BY <1>0, <2>1, RunningCalm DEF CalmState, CalmSubscriber, Waits
  <2>3. /\ stage' = "startPublisher" /\ stdin'["subscriber"] = << "START" >>
        /\ stdin'["publisher"] = stdin["publisher"]
        /\ UNCHANGED << status, handshake, result, messages_sent, proc, startup_failed,
                        pos, lines, ddsVars >>
    BY <1>0, <1>1, <1>2, <2>2
  <2>4. CalmProcesses'
    BY <2>1, <2>3 DEF CalmState, CalmProcesses, ddsVars, NotYet
  <2>5. CalmHandshake'
    BY <2>3 DEF CalmHandshake, Early
  <2>6. CalmFlow'
    BY <2>3, SameFlow DEF CalmState
  <2>7. \A c \in {"subscriber"} : CalmSubscriber(c)'
    BY <2>1, <2>3 DEF CalmState, CalmSubscriber, Early, Starting, Finished, Ending, Waits, Told
  <2>8. \A c \in {"publisher"} : CalmPublisher(c)'
    BY <2>1, <2>3 DEF CalmState, CalmPublisher, Early, Starting, Waits, Told, Finished, Ending
  <2> QED BY <2>4, <2>5, <2>6, <2>7, <2>8 DEF CalmState
<1>3. ASSUME NEW line, NEW from, NEW to, Tells("publisher", line, from, to),
             << line, from, to >> \in { << "START", "startPublisher", "results" >>,
                                        << "STOP", "stop", "waitSubscriber" >> }
      PROVE  CalmState'
  <2>1. stage = from
    BY <1>3 DEF Tells, RunnerGoes, Returns
  <2>2. Running("publisher") /\ stdin["publisher"] = << >>
    BY <1>0, <1>3, <2>1, RunningCalm DEF CalmState, CalmPublisher, Waits
  <2>3. /\ stage' = to /\ stdin'["publisher"] = << line >>
        /\ stdin'["subscriber"] = stdin["subscriber"]
        /\ UNCHANGED << status, handshake, result, messages_sent, proc, startup_failed,
                        pos, lines, ddsVars >>
    BY <1>0, <1>1, <1>3, <2>2
  <2>4. CalmProcesses'
    BY <1>3, <2>1, <2>3 DEF CalmState, CalmProcesses, ddsVars, NotYet
  <2>5. CalmHandshake'
    BY <1>3, <2>3 DEF CalmHandshake, Early
  <2>6. CalmFlow'
    BY <2>3, SameFlow DEF CalmState
  <2>7. \A c \in {"subscriber"} : CalmSubscriber(c)'
    BY <1>3, <2>1, <2>3 DEF CalmState, CalmSubscriber, Early, Starting, Finished, Ending, Waits, Told
  <2>8. \A c \in {"publisher"} : CalmPublisher(c)'
    BY <1>3, <2>1, <2>3 DEF CalmState, CalmPublisher, Early, Starting, Waits, Told, Finished, Ending
  <2> QED BY <2>4, <2>5, <2>6, <2>7, <2>8 DEF CalmState
<1> QED BY <1>2, <1>3 DEF TellStart, TellStop

(* The result loop notes what both have said, in any order. *)
LEMMA ResultCalm ==
  ASSUME BaseInv, CalmState, ResultRound(FALSE) PROVE CalmState'
<1> DEFINE results == { l \in NewLine("subscriber") : l \in {"ok", "error"} }
<1>0. "subscriber" \in Children /\ "publisher" \in Children
  BY DEF Children
<1>1. /\ stage = "results" /\ ReadBoth
      /\ result' = IF results = {} THEN result ELSE CHOOSE l \in results : TRUE
      /\ messages_sent' = (messages_sent \/ "DONE" \in NewLine("publisher"))
      /\ stage' = IF result' # "none" /\ messages_sent' THEN "stop" ELSE "results"
      /\ UNCHANGED << status, handshake, proc, startup_failed, pos, stdin, ddsVars >>
  BY DEF ResultRound, RunnerGoes, processVars
<1>2. \A c \in {"subscriber"} :
        /\ Told(c, "START", "start", {"receive", "result", "leaving", "exit"})
        /\ pos[c] \in {"leaving", "exit"} => result' = "ok" /\ lines'[c] = << >>
        /\ pos[c] \notin {"leaving", "exit"} => result' = "none" /\ lines'[c] = << >>
  <2>1. /\ lines["subscriber"] = << >> => NewLine("subscriber") = {} /\ lines'["subscriber"] = << >>
        /\ lines["subscriber"] = << "ok" >> =>
             NewLine("subscriber") = {"ok"} /\ lines'["subscriber"] = << >>
    BY <1>0, <1>1, FirstRead
  <2>2. /\ lines["subscriber"] = << >> => result' = result
        /\ lines["subscriber"] = << "ok" >> => result' = "ok"
    <3>1. lines["subscriber"] = << >> => results = {}
      BY <2>1
    <3>2. lines["subscriber"] = << "ok" >> => results = {"ok"}
      BY <2>1
    <3> QED BY <1>1, <3>1, <3>2
  <2>3. \A c \in {"subscriber"} : CalmSubscriber(c)
    BY DEF CalmState
  <2> HIDE DEF results
  <2> QED BY <1>1, <2>1, <2>2, <2>3 DEF CalmSubscriber, Starting
<1>3. \A c \in {"publisher"} :
        /\ Told(c, "START", "start", {"write", "done", "stop"})
        /\ pos[c] = "stop" => messages_sent' /\ lines'[c] = << >>
        /\ pos[c] # "stop" => ~messages_sent' /\ lines'[c] = << >>
  <2>1. /\ lines["publisher"] = << >> => NewLine("publisher") = {} /\ lines'["publisher"] = << >>
        /\ lines["publisher"] = << "DONE" >> =>
             NewLine("publisher") = {"DONE"} /\ lines'["publisher"] = << >>
    BY <1>0, <1>1, FirstRead
  <2>2. /\ lines["publisher"] = << >> => (messages_sent' <=> messages_sent)
        /\ lines["publisher"] = << "DONE" >> => messages_sent'
    BY <1>1, <2>1
  <2>3. \A c \in {"publisher"} : CalmPublisher(c)
    BY DEF CalmState
  <2> QED BY <1>1, <2>1, <2>2, <2>3 DEF CalmPublisher, Starting
<1> HIDE DEF results
<1>4. CalmProcesses'
  BY <1>1 DEF CalmState, CalmProcesses, ddsVars, NotYet
<1>5. CalmHandshake'
  BY <1>1 DEF CalmHandshake, Early
<1>6. CalmFlow'
  BY <1>1, SameFlow DEF CalmState
<1>7. \A c \in {"subscriber"} : CalmSubscriber(c)'
  BY <1>1, <1>2 DEF CalmSubscriber, Early, Starting, Finished, Ending, Told
<1>8. \A c \in {"publisher"} : CalmPublisher(c)'
  BY <1>1, <1>3 DEF CalmPublisher, Early, Starting, Told, Waits, Finished, Ending
<1> QED BY <1>4, <1>5, <1>6, <1>7, <1>8 DEF CalmState

(* Both children have ended well: the result becomes the status. *)
LEMMA WaitPublisherCalm ==
  ASSUME BaseInv, CalmState, WaitPublisher PROVE CalmState'
<1>1. /\ stage = "waitPublisher" /\ stage' = "dropPublisher" /\ ~Running("publisher")
      /\ status' = IF \A c \in Children : proc[c] = "ok" THEN result ELSE "error"
      /\ UNCHANGED << handshake, result, messages_sent, proc, startup_failed, pos, stdin,
                      lines, ddsVars >>
  BY DEF WaitPublisher, Returns, RunnerGoes, childVars
<1>2. \A c \in Children : pos[c] = "exit" /\ proc[c] = "ok"
  <2>1. \A c \in {"subscriber"} : pos[c] = "exit"
    BY <1>1 DEF CalmState, CalmSubscriber, Early, Starting
  <2>2. \A c \in {"publisher"} : pos[c] = "exit"
    BY <1>1 DEF CalmState, CalmProcesses, NotYet, Running, Children
  <2> QED BY <1>1, <2>1, <2>2 DEF CalmState, CalmProcesses, NotYet, Children
<1>3. result = "ok"
  BY <1>1 DEF CalmState, CalmSubscriber, Early, Starting
<1>4. CalmProcesses'
  BY <1>1 DEF CalmState, CalmProcesses, ddsVars, NotYet
<1>5. CalmHandshake'
  BY <1>1 DEF CalmHandshake, Early
<1>6. CalmFlow'
  BY <1>1, SameFlow DEF CalmState
<1>7. \A c \in {"subscriber"} : CalmSubscriber(c)'
  BY <1>1, <1>2, <1>3 DEF CalmSubscriber, Early, Starting, Children
<1>8. \A c \in {"publisher"} : CalmPublisher(c)'
  BY <1>1, <1>2, <1>3 DEF CalmPublisher, Early, Starting, Children, Finished
<1> QED BY <1>4, <1>5, <1>6, <1>7, <1>8 DEF CalmState

-----------------------------------------------------------------------------
(* The children of a calm run *)

(* The stage tells where a child may stand *)
LEMMA WhereCalm ==
  ASSUME BaseInv, CalmState
  PROVE  /\ \A c \in Children : pos[c] \in {"create", "match"} => stage \in Early
         /\ \A c \in {"subscriber"} :
              /\ stdin[c] # << >> /\ pos[c] = "start" =>
                   stage \in {"startPublisher", "results"} /\ stdin[c] = << "START" >>
              /\ pos[c] \in {"receive", "result"} => stage \in {"startPublisher", "results"}
              /\ stage = "results" => pos[c] \in {"start", "receive", "result", "leaving", "exit"}
              /\ pos[c] = "leaving" => stage \in {"startPublisher", "results", "stop", "waitSubscriber"}
         /\ \A c \in {"publisher"} :
              /\ stdin[c] # << >> /\ pos[c] = "start" => stage = "results" /\ stdin[c] = << "START" >>
              /\ stdin[c] # << >> /\ pos[c] = "stop" =>
                   stage \in {"waitSubscriber", "waitPublisher"} /\ stdin[c] = << "STOP" >>
              /\ pos[c] \in {"write", "done"} => stage = "results" /\ stdin[c] = << >>
              /\ pos[c] \notin {"create", "match", "start"} => stage \notin Early
                                          /\ stage \notin {"startSubscriber", "startPublisher"}
              /\ pos[c] = "leaving" => stage \in {"waitSubscriber", "waitPublisher"} /\ stdin[c] = << >>
<1>0. stage \in Stages /\ stage \notin {"unrecorded", "killed"}
  BY DEF BaseInv, BehindInv, CalmState, CalmProcesses
<1>1. \A c \in Children : stage \in Early => pos[c] \in {"create", "match", "start"} /\ stdin[c] = << >>
  BY DEF CalmState, CalmHandshake, Agrees
<1>2. \A c \in {"subscriber"} : CalmSubscriber(c)
  BY DEF CalmState
<1>3. \A c \in {"publisher"} : CalmPublisher(c)
  BY DEF CalmState
<1>4. \A c \in Children : pos[c] \in {"create", "match"} => stage \in Early
  <2>1. \A c \in {"subscriber"} : pos[c] \in {"create", "match"} => stage \in Early
    BY <1>0, <1>2 DEF CalmSubscriber, Waits, Told, Early, Starting
  <2>2. \A c \in {"publisher"} : pos[c] \in {"create", "match"} => stage \in Early
    BY <1>0, <1>3 DEF CalmPublisher, Waits, Told, Early, Finished, Ending, Stages
  <2> QED BY <2>1, <2>2 DEF Children
<1>5. \A c \in {"subscriber"} :
              /\ stdin[c] # << >> /\ pos[c] = "start" =>
                   stage \in {"startPublisher", "results"} /\ stdin[c] = << "START" >>
              /\ pos[c] \in {"receive", "result"} => stage \in {"startPublisher", "results"}
              /\ stage = "results" => pos[c] \in {"start", "receive", "result", "leaving", "exit"}
              /\ pos[c] = "leaving" => stage \in {"startPublisher", "results", "stop", "waitSubscriber"}
  BY <1>0, <1>1, <1>2 DEF CalmSubscriber, Waits, Told, Early, Starting, Finished, Ending, Stages,
                          Children
<1>6. \A c \in {"publisher"} :
              /\ stdin[c] # << >> /\ pos[c] = "start" => stage = "results" /\ stdin[c] = << "START" >>
              /\ stdin[c] # << >> /\ pos[c] = "stop" =>
                   stage \in {"waitSubscriber", "waitPublisher"} /\ stdin[c] = << "STOP" >>
              /\ pos[c] \in {"write", "done"} => stage = "results" /\ stdin[c] = << >>
              /\ pos[c] \notin {"create", "match", "start"} => stage \notin Early
                                          /\ stage \notin {"startSubscriber", "startPublisher"}
              /\ pos[c] = "leaving" => stage \in {"waitSubscriber", "waitPublisher"} /\ stdin[c] = << >>
  BY <1>0, <1>1, <1>3 DEF CalmPublisher, Waits, Told, Early, Finished, Ending, Stages, Children
<1> QED BY <1>4, <1>5, <1>6

(* A child goes on, saying nothing, or saying where it stands *)
LEMMA SpokeCalm ==
  ASSUME BaseInv, NEW c \in Children, NEW line \in Lines, Emits(c, line)
  PROVE  /\ lines[c] = << >> => lines'[c] = << line >>
         /\ lines[c] = << "READY" >> /\ line = "MATCHED" => lines'[c] = << "READY", "MATCHED" >>
         /\ \A d \in Children : d # c => lines'[d] = lines[d]
<1>1. lines \in [Children -> Seq(Lines)] /\ lines' = [lines EXCEPT ![c] = Append(lines[c], line)]
  BY DEF BaseInv, Emits
<1>2. lines'[c] = Append(lines[c], line) /\ \A d \in Children : d # c => lines'[d] = lines[d]
  BY <1>1
<1>3. lines[c] = << >> => Append(lines[c], line) = << line >>
  OBVIOUS
<1>4. lines[c] = << "READY" >> /\ line = "MATCHED" => Append(lines[c], line) = << "READY", "MATCHED" >>
  <2>0. "READY" \in Lines /\ "MATCHED" \in Lines
    BY DEF Lines
  <2>1. Append(<< "READY" >>, "MATCHED") = << "READY", "MATCHED" >>
    BY <2>0, Second
  <2> QED BY <2>1
<1> QED BY <1>2, <1>3, <1>4

(* A child says that it is ready, or that it is matched. *)
LEMMA AppearsCalm ==
  ASSUME BaseInv, CalmState, NEW c \in Children, CreateEndpoint(c) \/ SeesMatch(c)
  PROVE  CalmState'
<1> DEFINE from == pos[c]
           line == IF from = "create" THEN "READY" ELSE "MATCHED"
<1>0. /\ "subscriber" \in Children /\ "publisher" \in Children /\ line \in Lines
      /\ pos \in [Children -> Positions]
  BY DEF Children, Lines, BaseInv, TakenInv
<1>1. /\ Running(c) /\ from \in {"create", "match"} /\ (from = "match" => c \in met)
      /\ pos' = [pos EXCEPT ![c] = IF from = "create" THEN "match" ELSE "start"]
      /\ Emits(c, line)
      /\ UNCHANGED << stage, status, handshake, result, messages_sent, proc, startup_failed,
                      stdin, ddsVars >>
  BY DEF CreateEndpoint, SeesMatch, ChildGoes, Stays, processVars, runnerVars
<1>2. stage \in Early /\ \A d \in Children : Agrees(d)
  BY <1>1, WhereCalm DEF CalmState, CalmHandshake
<1>3. /\ lines[c] = << >> => lines'[c] = << line >>
      /\ lines[c] = << "READY" >> /\ line = "MATCHED" => lines'[c] = << "READY", "MATCHED" >>
      /\ \A d \in Children : d # c => lines'[d] = lines[d]
  BY <1>0, <1>1, SpokeCalm
<1>4. /\ pos'[c] = IF from = "create" THEN "match" ELSE "start"
      /\ \A d \in Children : d # c => pos'[d] = pos[d]
  BY <1>0, <1>1
<1>5. Agrees(c)'
  BY <1>1, <1>2, <1>3, <1>4 DEF Agrees
<1>6. \A d \in Children : d # c => Agrees(d)'
  BY <1>1, <1>2, <1>3, <1>4 DEF Agrees
<1>7. CalmHandshake'
  BY <1>1, <1>2, <1>5, <1>6 DEF CalmState, CalmHandshake
<1> HIDE DEF from, line
<1>8. CalmProcesses'
  <2>1. stage \notin NotYet(c)
    BY <1>1 DEF BaseInv, BehindInv, Processes, Running
  <2> QED BY <1>1, <1>4, <2>1 DEF CalmState, CalmProcesses, ddsVars, NotYet, Running, from
<1>9. CalmFlow'
  <2>1. UNCHANGED << taken, cache, network, written >>
    BY <1>1 DEF ddsVars
  <2>2. InOrder' <=> InOrder
    BY <2>1, InOrderSame
  <2> QED BY <1>0, <1>1, <1>4, <2>1, <2>2 DEF CalmState, CalmFlow, from
<1>10. \A d \in {"subscriber"} : CalmSubscriber(d)'
  BY <1>1, <1>2 DEF CalmSubscriber, Early, Starting, Finished, Ending
<1>11. \A d \in {"publisher"} : CalmPublisher(d)'
  BY <1>1, <1>2 DEF CalmPublisher, Early, Starting, Finished, Ending
<1> QED BY <1>7, <1>8, <1>9, <1>10, <1>11 DEF CalmState

(* A child takes up its work, or the publisher goes on with it *)
LEMMA StartCalm ==
  ASSUME BaseInv, CalmState, NEW c \in Children, Start(c) PROVE CalmState'
<1> DEFINE to == IF c = "publisher" THEN "write" ELSE "receive"
<1>0. "subscriber" \in Children /\ "publisher" \in Children /\ pos \in [Children -> Positions]
  BY DEF Children, BaseInv, TakenInv
<1>1. /\ Running(c) /\ pos[c] = "start" /\ stdin[c] # << >>
      /\ pos' = [pos EXCEPT ![c] = to] /\ stdin' = [stdin EXCEPT ![c] = Tail(@)]
      /\ UNCHANGED << stage, status, handshake, result, messages_sent, proc, startup_failed,
                      lines, ddsVars >>
  BY DEF Start, Hears, ChildGoes, Stays, processVars, runnerVars
<1>2. /\ stdin[c] = << "START" >> /\ stage \in {"startPublisher", "results"}
      /\ c = "publisher" => stage = "results"
  BY <1>1, WhereCalm DEF Children
<1>3. /\ stdin'[c] = << >> /\ pos'[c] = to
      /\ \A d \in Children : d # c => stdin'[d] = stdin[d] /\ pos'[d] = pos[d]
  BY <1>0, <1>1, <1>2 DEF BaseInv, OrdersInv
<1>4. CalmProcesses'
  BY <1>1, <1>2, <1>3 DEF CalmState, CalmProcesses, ddsVars, NotYet, Running
<1>5. CalmHandshake'
  BY <1>1, <1>2 DEF CalmHandshake, Early
<1>6. CalmFlow'
  <2>1. UNCHANGED << taken, cache, network, written >>
    BY <1>1 DEF ddsVars
  <2>2. InOrder' <=> InOrder
    BY <2>1, InOrderSame
  <2> QED BY <1>0, <1>1, <1>3, <2>1, <2>2 DEF CalmState, CalmFlow
<1>7. \A d \in {"subscriber"} : CalmSubscriber(d)'
  BY <1>0, <1>1, <1>2, <1>3 DEF CalmState, CalmSubscriber, Early, Starting, Told, Waits
<1>8. \A d \in {"publisher"} : CalmPublisher(d)'
  <2>1. CASE c = "publisher"
    BY <1>0, <1>1, <1>2, <1>3, <2>1 DEF CalmState, CalmPublisher, Early, Starting, Told, Waits,
                                        Finished, Ending
  <2>2. CASE c # "publisher"
    BY <1>0, <1>1, <1>2, <1>3, <2>2 DEF CalmState, CalmPublisher, Early, Starting, Told, Waits,
                                        Finished, Ending
  <2> QED BY <2>1, <2>2
<1> QED BY <1>4, <1>5, <1>6, <1>7, <1>8 DEF CalmState

(* The publisher has written everything and says so. *)
LEMMA DoneCalm == ASSUME BaseInv, CalmState, Done PROVE CalmState'
<1>0. /\ "subscriber" \in Children /\ "publisher" \in Children /\ "DONE" \in Lines
      /\ pos \in [Children -> Positions]
  BY DEF Children, Lines, BaseInv, TakenInv
<1>1. /\ Running("publisher") /\ pos["publisher"] = "done"
      /\ pos' = [pos EXCEPT !["publisher"] = "stop"] /\ Emits("publisher", "DONE")
      /\ UNCHANGED << stage, status, handshake, result, messages_sent, proc, startup_failed,
                      stdin, ddsVars >>
  BY DEF Done, ChildGoes, Stays, processVars, runnerVars
<1>2. stage = "results" /\ stdin["publisher"] = << >>
  BY <1>1, WhereCalm
<1>3. lines["publisher"] = << >> /\ ~messages_sent
  BY <1>1, <1>2 DEF CalmState, CalmPublisher, Starting
<1>4. /\ lines'["publisher"] = << "DONE" >> /\ pos'["publisher"] = "stop"
      /\ \A d \in Children : d # "publisher" => lines'[d] = lines[d] /\ pos'[d] = pos[d]
  BY <1>0, <1>1, <1>3, SpokeCalm
<1>5. CalmProcesses'
  BY <1>0, <1>1, <1>2, <1>4 DEF CalmState, CalmProcesses, ddsVars, NotYet, Running
<1>6. CalmHandshake'
  BY <1>1, <1>2 DEF CalmHandshake, Early
<1>7. CalmFlow'
  <2>1. UNCHANGED << taken, cache, network, written >>
    BY <1>1 DEF ddsVars
  <2>2. InOrder' <=> InOrder
    BY <2>1, InOrderSame
  <2> QED BY <1>0, <1>1, <1>4, <2>1, <2>2 DEF CalmState, CalmFlow
<1>8. \A d \in {"subscriber"} : CalmSubscriber(d)'
  BY <1>0, <1>1, <1>2, <1>4 DEF CalmState, CalmSubscriber, Early, Starting, Told, Waits
<1>9. \A d \in {"publisher"} : CalmPublisher(d)'
  BY <1>0, <1>1, <1>2, <1>3, <1>4 DEF CalmState, CalmPublisher, Early, Starting, Told, Waits,
                                      Finished, Ending
<1> QED BY <1>5, <1>6, <1>7, <1>8, <1>9 DEF CalmState

(* Told to stop, the publisher is leaving *)
LEMMA StopCalm == ASSUME BaseInv, CalmState, Stop PROVE CalmState'
<1>0. /\ "subscriber" \in Children /\ "publisher" \in Children
      /\ pos \in [Children -> Positions]
  BY DEF Children, BaseInv, TakenInv
<1>1. /\ Running("publisher") /\ pos["publisher"] = "stop" /\ stdin["publisher"] # << >>
      /\ pos' = [pos EXCEPT !["publisher"] = "leaving"]
      /\ stdin' = [stdin EXCEPT !["publisher"] = Tail(@)]
      /\ UNCHANGED << stage, status, handshake, result, messages_sent, proc, startup_failed, lines,
                      ddsVars >>
  BY DEF Stop, Hears, Stays, ChildGoes, processVars, runnerVars
<1>2. stage \in {"waitSubscriber", "waitPublisher"} /\ stdin["publisher"] = << "STOP" >>
  BY <1>1, WhereCalm
<1>3. /\ stdin'["publisher"] = << >> /\ pos'["publisher"] = "leaving"
      /\ \A d \in Children : d # "publisher" => stdin'[d] = stdin[d] /\ pos'[d] = pos[d]
  BY <1>0, <1>1, <1>2 DEF BaseInv, OrdersInv
<1>4. CalmProcesses'
  BY <1>0, <1>1, <1>2, <1>3 DEF CalmState, CalmProcesses, NotYet, Running, ddsVars
<1>5. CalmHandshake'
  BY <1>1, <1>2 DEF CalmHandshake, Early
<1>6. CalmFlow'
  <2>1. InOrder' <=> InOrder
    BY <1>1, InOrderSame DEF ddsVars
  <2> QED BY <1>0, <1>1, <1>3, <2>1 DEF CalmState, CalmFlow, ddsVars
<1>7. \A d \in {"subscriber"} : CalmSubscriber(d)'
  BY <1>0, <1>1, <1>2, <1>3 DEF CalmState, CalmSubscriber, Early, Starting, Told, Waits
<1>8. \A d \in {"publisher"} : CalmPublisher(d)'
  BY <1>0, <1>1, <1>2, <1>3 DEF CalmState, CalmPublisher, Early, Starting, Told, Waits,
                                Finished, Ending
<1> QED BY <1>4, <1>5, <1>6, <1>7, <1>8 DEF CalmState

(* A child that has said its last word ends well; of a publisher that ends, *)
(* no message is missed, for the subscriber has reported.                   *)
LEMMA LeaveCalm == ASSUME BaseInv, CalmState, NEW c \in Children, Leave(c) PROVE CalmState'
<1>0. /\ "subscriber" \in Children /\ "publisher" \in Children
      /\ pos \in [Children -> Positions] /\ proc \in [Processes -> {"none", "run", "ok", "fail"}]
      /\ Children \subseteq Processes
  BY DEF Children, Processes, BaseInv, TakenInv, BehindInv
<1>1. /\ Running(c) /\ pos[c] = "leaving"
      /\ pos' = [pos EXCEPT ![c] = "exit"] /\ proc' = [proc EXCEPT ![c] = "ok"]
      /\ network' = network \/ c = "publisher"
      /\ UNCHANGED << stage, status, handshake, result, messages_sent, startup_failed, stdin, lines,
                      met, written, cache, taken >>
  BY DEF Leave, Ends, ChildGoes, runnerVars
<1>2. /\ c = "subscriber" => stage \in {"startPublisher", "results", "stop", "waitSubscriber"}
      /\ c = "publisher" => stage \in {"waitSubscriber", "waitPublisher"} /\ stdin[c] = << >>
  BY <1>1, WhereCalm
<1>3. /\ pos'[c] = "exit" /\ proc'[c] = "ok"
      /\ \A d \in Children : d # c => pos'[d] = pos[d] /\ proc'[d] = proc[d]
      /\ UNCHANGED << stage, stdin, lines >>
  BY <1>0, <1>1
<1>4. stage \notin Early /\ stage # "startup"
  BY <1>2 DEF Early, Children
<1>5. CalmProcesses'
  <2>1. UNCHANGED << stage, met, startup_failed >>
    BY <1>1
  <2>2. \A d \in Children : stage \notin NotYet(d)
    BY <1>4 DEF Early, NotYet, Children
  <2> QED BY <1>1, <1>3, <1>4, <2>1, <2>2 DEF CalmState, CalmProcesses, NotYet, Children
<1>6. CalmHandshake'
  BY <1>3, <1>4 DEF CalmHandshake, Early
<1>7. CalmFlow'
  <2>1. CASE c = "subscriber"
    BY <1>0, <1>1, <1>3, <2>1 DEF CalmState, CalmFlow
  <2>2. CASE c = "publisher"
    <3>1. pos["subscriber"] \in {"leaving", "exit"}
      BY <1>2, <2>2 DEF CalmState, CalmSubscriber, Early, Starting
    <3> QED BY <1>0, <1>3, <2>2, <3>1 DEF CalmFlow
  <2> QED BY <2>1, <2>2 DEF Children
<1>8. \A d \in {"subscriber"} : CalmSubscriber(d)'
  BY <1>0, <1>1, <1>2, <1>3, <1>4 DEF CalmState, CalmSubscriber, Starting, Told, Waits, Children
<1>9. \A d \in {"publisher"} : CalmPublisher(d)'
  BY <1>0, <1>1, <1>2, <1>3, <1>4 DEF CalmState, CalmPublisher, Starting, Told, Waits,
                                      Finished, Ending, Children
<1> QED BY <1>5, <1>6, <1>7, <1>8, <1>9 DEF CalmState

(* A message is sent: the subscriber is there to receive it *)
LEMMA WriteCalm == ASSUME BaseInv, CalmState, Write PROVE CalmState'
<1>0. /\ "subscriber" \in Children /\ "publisher" \in Children
      /\ pos \in [Children -> Positions] /\ written \in Nat
      /\ network \in Seq(Sample) /\ cache \in Seq(Sample) /\ taken \in Seq(0..written - 1)
  BY BenchAssumption DEF Children, BaseInv, TakenInv
<1> DEFINE to == IF written + 1 = Total THEN "done" ELSE "write"
<1>1. /\ Running("publisher") /\ pos["publisher"] = "write"
      /\ pos' = [pos EXCEPT !["publisher"] = to]
      /\ written' = written + 1
      /\ network' = IF "publisher" \in met THEN Append(network, written) ELSE network
      /\ UNCHANGED << stage, status, handshake, result, messages_sent, proc, startup_failed,
                      lines, stdin, met, cache, taken >>
  BY DEF Write, ChildGoes, processVars, runnerVars
<1>2. stage = "results" /\ stdin["publisher"] = << >>
  BY <1>1, WhereCalm
<1>3. /\ pos'["publisher"] \in {"done", "write"}
      /\ \A d \in Children : d # "publisher" => pos'[d] = pos[d]
  BY <1>0, <1>1
<1>4. "publisher" \in met
  BY <1>0, <1>1 DEF CalmState, CalmProcesses
<1>5. CalmProcesses'
  BY <1>0, <1>1, <1>2, <1>3 DEF CalmState, CalmProcesses, NotYet, Running
<1>6. CalmHandshake'
  BY <1>1, <1>2 DEF CalmHandshake, Early
<1>7. InOrder => InOrder'
  <2> SUFFICES ASSUME InOrder PROVE InOrder'
    OBVIOUS
  <2> DEFINE w == written  S == Sample \cup {w}  sent == Append(network, w)
             t == Len(taken)  k == Len(cache)  n == Len(network)
  <2>1. network \in Seq(S) /\ w \in S
    BY <1>0, WiderSeq
  <2>2. t \in Nat /\ k \in Nat /\ n \in Nat /\ w \in Nat
    BY <1>0, LenProperties
  <2>3. /\ network' = sent /\ w' = w + 1 /\ UNCHANGED << taken, cache >>
    BY <1>1, <1>4
  <2>4. /\ t + k + n = w
        /\ \A i \in 1..t : taken[i] = i - 1
        /\ \A i \in 1..k : cache[i] = t + i - 1
        /\ \A i \in 1..n : network[i] = t + k + i - 1
    BY DEF InOrder
  <2> HIDE DEF w, S
  <2>5. Len(sent) = n + 1 /\ (\A i \in 1..n : sent[i] = network[i]) /\ sent[n + 1] = w
    BY <2>1, AppendProperties
  <2> HIDE DEF t, k, n, sent
  <2>6. \A i \in 1..Len(sent) : sent[i] = t + k + i - 1
    <3> SUFFICES ASSUME NEW i \in 1..n + 1 PROVE sent[i] = t + k + i - 1
      BY <2>5
    <3>1. CASE i \in 1..n
      BY <2>4, <2>5, <3>1
    <3>2. CASE i = n + 1
      BY SMTT(30), <2>2, <2>4, <2>5, <3>2
    <3> QED BY <2>2, <3>1, <3>2
  <2>7. t + k + Len(sent) = w + 1
    BY <2>2, <2>4, <2>5
  <2> QED BY <2>3, <2>4, <2>6, <2>7 DEF InOrder, t, k, w
<1>8. CalmFlow'
  BY <1>0, <1>1, <1>3, <1>7 DEF CalmState, CalmFlow
<1>9. \A d \in {"subscriber"} : CalmSubscriber(d)'
  BY <1>0, <1>1, <1>2, <1>3 DEF CalmState, CalmSubscriber, Early, Starting, Told, Waits
<1>10. \A d \in {"publisher"} : CalmPublisher(d)'
  BY <1>0, <1>1, <1>2, <1>3 DEF CalmState, CalmPublisher, Early, Starting, Told, Waits,
                                Finished, Ending
<1> QED BY <1>5, <1>6, <1>8, <1>9, <1>10 DEF CalmState

(* What is in order is the messages *)
LEMMA OrderedRange ==
  ASSUME NEW n \in Nat, taken \in Seq(Nat), Len(taken) = n, \A i \in 1..n : taken[i] = i - 1
  PROVE  Range(taken) = 0..n - 1
<1>1. DOMAIN taken = 1..n
  BY LenProperties
<1>2. ASSUME NEW m \in 0..n - 1 PROVE m \in Range(taken)
  <2>1. m + 1 \in 1..n /\ taken[m + 1] = m
    BY <1>2
  <2> QED BY <1>1, <2>1 DEF Range
<1> QED BY <1>1, <1>2 DEF Range

(* A take empties the cache, and the last one completes the messages. *)
LEMMA TakeCalm == ASSUME BaseInv, CalmState, Take PROVE CalmState'
<1> DEFINE valid == ValidOf(cache)
           all == IF IsValid(Head(cache)) THEN taken \o valid ELSE taken
           t == Len(taken)  k == Len(cache)  n == Len(network)
<1>0. /\ "subscriber" \in Children /\ "publisher" \in Children
      /\ pos \in [Children -> Positions] /\ written \in 0..Total /\ Total \in Nat /\ Total > 0
      /\ network \in Seq(Sample) /\ cache \in Seq(Sample) /\ taken \in Seq(0..written - 1)
      /\ t \in Nat /\ k \in Nat /\ n \in Nat
  BY BenchAssumption, LenProperties DEF Children, BaseInv, TakenInv
<1>1. /\ Running("subscriber") /\ pos["subscriber"] = "receive" /\ cache # << >>
      /\ pos' = [pos EXCEPT !["subscriber"] = IF Range(all) = Messages THEN "result" ELSE "receive"]
      /\ taken' = all /\ cache' = << >>
      /\ UNCHANGED << stage, status, handshake, result, messages_sent, proc, startup_failed,
                      lines, stdin, met, written, network >>
  BY DEF Take, ChildGoes, processVars, runnerVars
<1>2. stage \in {"startPublisher", "results"}
  BY <1>1, WhereCalm
<1>3. InOrder
  BY <1>1 DEF CalmState, CalmFlow
<1>4. /\ t + k + n = written
      /\ \A i \in 1..t : taken[i] = i - 1
      /\ \A i \in 1..k : cache[i] = t + i - 1
      /\ \A i \in 1..n : network[i] = t + k + i - 1
  BY <1>3 DEF InOrder
<1>5. \A i \in 1..k : cache[i] \in Nat /\ IsValid(cache[i])
  BY <1>0, <1>4, BenchAssumption DEF IsValid
<1>6. valid = cache
  <2>1. (\A i \in 1..Len(cache) : IsValid(cache[i])) => ValidOf(cache) = cache
    BY <1>0, Takes
  <2> QED BY <1>5, <2>1
<1>7. IsValid(Head(cache))
  <2>1. k # 0
    BY <1>0, <1>1, EmptySeq
  <2>2. Head(cache) = cache[1] /\ 1 \in 1..k
    BY <1>0, <2>1
  <2> QED BY <1>5, <2>2
<1>8. all = taken \o cache
  BY <1>6, <1>7
<1>9. /\ Len(all) = t + k /\ all \in Seq(Nat)
      /\ \A i \in 1..t + k : all[i] = i - 1
  <2>1. taken \in Seq(Nat)
    <3>1. 0..written - 1 \subseteq Nat
      BY <1>0
    <3> QED BY <1>0, <3>1, WiderSeq
  <2>2. cache \in Seq(Nat)
    BY <1>0, <1>5, OfSeq
  <2>3. /\ taken \o cache \in Seq(Nat) /\ Len(taken \o cache) = t + k
        /\ \A i \in 1..t + k : (taken \o cache)[i] = IF i <= t THEN taken[i] ELSE cache[i - t]
    BY <2>1, <2>2, ConcatProperties
  <2> HIDE DEF all, t, k
  <2>4. \A i \in 1..t + k : (taken \o cache)[i] = i - 1
    <3> SUFFICES ASSUME NEW i \in 1..t + k PROVE (taken \o cache)[i] = i - 1
      OBVIOUS
    <3>1. CASE i <= t
      BY <1>0, <1>4, <2>3, <3>1
    <3>2. CASE ~(i <= t)
      <4>1. i - t \in 1..k
        BY <1>0, <3>2
      <4>2. cache[i - t] = t + (i - t) - 1
        BY <1>4, <4>1
      <4> QED BY <1>0, <2>3, <3>2, <4>2
    <3> QED BY <3>1, <3>2
  <2> QED BY <1>8, <2>3, <2>4
<1> HIDE DEF all, valid
<1>10. /\ pos'["subscriber"] \in {"result", "receive"}
       /\ pos'["subscriber"] = "result" => Range(all) = Messages
       /\ \A d \in Children : d # "subscriber" => pos'[d] = pos[d]
  BY <1>0, <1>1
<1>11. Range(all) = Messages => Len(all) = Total
  <2> SUFFICES ASSUME Range(all) = Messages, Len(all) # Total PROVE FALSE
    OBVIOUS
  <2>1. Total - 1 \in Range(all)
    BY <1>0 DEF Messages
  <2>2. DOMAIN all = 1..t + k
    BY <1>9, LenProperties
  <2>3. PICK i \in 1..t + k : all[i] = Total - 1
    BY <2>1, <2>2 DEF Range
  <2> HIDE DEF t, k, n
  <2>4. i - 1 = Total - 1
    BY <1>9, <2>3
  <2>5. t + k <= Total
    BY <1>0, <1>4
  <2> QED BY <1>0, <1>9, <2>3, <2>4, <2>5
<1>12. InOrder'
  <2>1. Len(cache') = 0 /\ Len(taken') = t + k /\ UNCHANGED << network, written >>
    BY <1>1, <1>9
  <2> HIDE DEF t, k, n
  <2>2. t + k + 0 + n = written
    BY <1>0, <1>4
  <2> QED BY <1>0, <1>1, <1>4, <1>9, <2>1, <2>2 DEF InOrder, n
<1>13. CalmProcesses'
  BY <1>0, <1>1, <1>2, <1>10 DEF CalmState, CalmProcesses, NotYet, Running
<1>14. CalmHandshake'
  BY <1>1, <1>2 DEF CalmHandshake, Early
<1>15. CalmFlow'
  BY <1>0, <1>1, <1>8, <1>10, <1>11, <1>12 DEF CalmState, CalmFlow
<1>16. \A d \in {"subscriber"} : CalmSubscriber(d)'
  BY <1>0, <1>1, <1>2, <1>10 DEF CalmState, CalmSubscriber, Early, Starting, Told, Waits
<1>17. \A d \in {"publisher"} : CalmPublisher(d)'
  BY <1>0, <1>1, <1>2, <1>10 DEF CalmState, CalmPublisher, Early, Starting, Told, Waits,
                                Finished, Ending
<1> QED BY <1>13, <1>14, <1>15, <1>16, <1>17 DEF CalmState

(* All taken in order: the verdict is "ok" *)
LEMMA OrderedVerdict ==
  ASSUME taken \in Seq(Nat), Len(taken) = Total,
         \A i \in 1..Len(taken) : taken[i] = i - 1
  PROVE  Verdict = "ok"
<1>0. Total \in Nat /\ Total > 0
  BY BenchAssumption
<1>1. Range(taken) = 0..Total - 1
  BY <1>0, OrderedRange
<1>2. Cardinality(0..Total - 1) = Total
  <2>1. Cardinality(0..Total - 1) = IF 0 > Total - 1 THEN 0 ELSE Total - 1 - 0 + 1
    BY <1>0, FS_Interval
  <2> QED BY <1>0, <2>1
<1>3. duplicate = 0
  BY <1>0, <1>1, <1>2 DEF duplicate
<1>4. { i \in 2..Len(taken) : taken[i] < taken[i - 1] } = {}
  <2> SUFFICES ASSUME NEW i \in 2..Len(taken), taken[i] < taken[i - 1] PROVE FALSE
    OBVIOUS
  <2>1. i \in 1..Len(taken) /\ i - 1 \in 1..Len(taken)
    BY <1>0
  <2>2. taken[i] = i - 1 /\ taken[i - 1] = (i - 1) - 1
    BY <2>1
  <2> QED BY <2>1, <2>2
<1>5. out_of_order = 0
  BY <1>4, FS_EmptySet DEF out_of_order
<1> QED BY <1>1, <1>3, <1>5 DEF Verdict, Messages

(* The subscriber reports: in order and complete, so "ok". *)
LEMMA ReportCalm == ASSUME BaseInv, CalmState, Report PROVE CalmState'
<1>0. /\ "subscriber" \in Children /\ "publisher" \in Children /\ "ok" \in Lines
      /\ pos \in [Children -> Positions]
  BY DEF Children, Lines, BaseInv, TakenInv
<1>1. /\ Running("subscriber") /\ pos["subscriber"] = "result"
      /\ pos' = [pos EXCEPT !["subscriber"] = "leaving"]
      /\ Emits("subscriber", Verdict)
      /\ UNCHANGED << stage, status, handshake, result, messages_sent, proc, startup_failed, stdin,
                      ddsVars >>
  BY DEF Report, Stays, ChildGoes, processVars, runnerVars
<1>2. stage \in {"startPublisher", "results"}
  BY <1>1, WhereCalm
<1>3. Verdict = "ok"
  <2>1. InOrder /\ Len(taken) = Total
    BY <1>1 DEF CalmState, CalmFlow
  <2>2. taken \in Seq(Nat)
    <3>1. 0..written - 1 \subseteq Nat
      OBVIOUS
    <3> QED BY <3>1, WiderSeq DEF BaseInv, TakenInv
  <2> QED BY <2>1, <2>2, OrderedVerdict DEF InOrder
<1>4. lines["subscriber"] = << >> /\ result = "none" /\ stdin["subscriber"] = << >>
  BY <1>1, <1>2 DEF CalmState, CalmSubscriber, Starting, Told
<1>5. /\ lines'["subscriber"] = << "ok" >> /\ pos'["subscriber"] = "leaving"
      /\ \A d \in Children : d # "subscriber" =>
           lines'[d] = lines[d] /\ pos'[d] = pos[d]
  BY <1>0, <1>1, <1>3, <1>4, SpokeCalm
<1>6. CalmProcesses'
  BY <1>0, <1>1, <1>2, <1>5 DEF CalmState, CalmProcesses, NotYet, Running, ddsVars
<1>7. CalmHandshake'
  BY <1>1, <1>2 DEF CalmHandshake, Early
<1>8. CalmFlow'
  BY <1>0, <1>1, <1>5 DEF CalmState, CalmFlow, ddsVars
<1>9. \A d \in {"subscriber"} : CalmSubscriber(d)'
  BY <1>0, <1>1, <1>2, <1>4, <1>5 DEF CalmSubscriber, Early, Starting, Finished, Ending, Told, Waits
<1>10. \A d \in {"publisher"} : CalmPublisher(d)'
  BY <1>0, <1>1, <1>2, <1>5 DEF CalmState, CalmPublisher, Early, Starting, Told, Waits,
                                Finished, Ending
<1> QED BY <1>6, <1>7, <1>8, <1>9, <1>10 DEF CalmState

(* Discovery changes nothing but who is met. *)
LEMMA PairsCalm == ASSUME BaseInv, CalmState, NEW c \in Children, Pairs(c) PROVE CalmState'
<1>1. /\ met' = met \cup {c}
      /\ UNCHANGED << stage, status, handshake, result, messages_sent, proc, startup_failed, pos,
                      stdin, lines, written, network, cache, taken >>
  BY DEF Pairs, runnerVars, processVars, childVars
<1>2. CalmProcesses'
  BY <1>1 DEF CalmState, CalmProcesses, NotYet
<1>3. CalmHandshake'
  BY <1>1 DEF CalmState, CalmHandshake, Agrees
<1>4. CalmFlow'
  BY <1>1, InOrderSame DEF CalmState, CalmFlow
<1>5. \A d \in {"subscriber"} : CalmSubscriber(d)'
  BY <1>1 DEF CalmState, CalmSubscriber, Told, Waits
<1>6. \A d \in {"publisher"} : CalmPublisher(d)'
  BY <1>1 DEF CalmState, CalmPublisher, Told, Waits
<1> QED BY <1>2, <1>3, <1>4, <1>5, <1>6 DEF CalmState

(* RouDi ends when it is told. *)
LEMMA RoudiObeysCalm == ASSUME BaseInv, CalmState, RoudiObeys PROVE CalmState'
<1>1. /\ stage = "roudiEnds" /\ proc' = [proc EXCEPT !["roudi"] = "ok"]
      /\ UNCHANGED << stage, status, handshake, result, messages_sent, startup_failed, pos,
                      stdin, lines, ddsVars >>
  BY DEF RoudiObeys, runnerVars, childVars
<1>2. \A c \in Children : proc'[c] = proc[c]
  BY <1>1 DEF BaseInv, BehindInv, Children
<1>3. CalmProcesses'
  BY <1>1, <1>2 DEF CalmState, CalmProcesses, NotYet, ddsVars
<1>4. CalmHandshake'
  BY <1>1 DEF CalmHandshake, Early
<1>5. CalmFlow'
  BY <1>1, SameFlow DEF CalmState
<1>6. \A d \in {"subscriber"} : CalmSubscriber(d)'
  BY <1>1 DEF CalmState, CalmSubscriber, Told, Waits
<1>7. \A d \in {"publisher"} : CalmPublisher(d)'
  BY <1>1 DEF CalmState, CalmPublisher, Told, Waits
<1> QED BY <1>3, <1>4, <1>5, <1>6, <1>7 DEF CalmState

(* A message arrives: the subscriber is there, and its cache has room. *)
LEMMA DeliverCalm == ASSUME BaseInv, CalmState, Deliver PROVE CalmState'
<1> DEFINE t == Len(taken)  k == Len(cache)  n == Len(network)  h == Head(network)
           all == Append(cache, h)
<1>0. /\ "subscriber" \in Children /\ "publisher" \in Children
      /\ written \in 0..Total /\ Total \in Nat
      /\ network \in Seq(Sample) /\ cache \in Seq(Sample)
      /\ t \in Nat /\ k \in Nat /\ n \in Nat
  BY BenchAssumption, LenProperties DEF Children, BaseInv, TakenInv
<1>1. /\ network # << >> /\ network' = Tail(network) /\ Arrives(h)
      /\ UNCHANGED << stage, status, handshake, result, messages_sent, proc, startup_failed, pos,
                      stdin, lines, met, written, taken >>
  BY DEF Deliver, runnerVars, processVars, childVars
<1>2. /\ n > 0 /\ h \in Sample /\ h = network[1] /\ Len(Tail(network)) = n - 1
      /\ \A i \in 1..n - 1 : Tail(network)[i] = network[i + 1]
  <2>1. n # 0
    BY <1>0, <1>1, EmptySeq
  <2>2. /\ h \in Sample /\ h = network[1] /\ Len(Tail(network)) = n - 1
        /\ \A i \in 1..Len(Tail(network)) : Tail(network)[i] = network[i + 1]
    BY <1>0, <1>1, HeadTailProperties
  <2> QED BY <1>0, <2>1, <2>2
<1>3. ASSUME pos["subscriber"] \notin {"leaving", "exit"} PROVE InOrder'
  <2>1. InOrder
    BY <1>3 DEF CalmState, CalmFlow
  <2>2. /\ t + k + n = written
        /\ \A i \in 1..t : taken[i] = i - 1
        /\ \A i \in 1..k : cache[i] = t + i - 1
        /\ \A i \in 1..n : network[i] = t + k + i - 1
    BY <2>1 DEF InOrder
  <2>3. written > 0
    <3> HIDE DEF t, k, n
    <3> QED BY <1>0, <1>2, <2>2
  <2>4. pos["publisher"] \notin {"create", "match", "start"}
    BY <2>3 DEF CalmState, CalmFlow
  <2>5. pos["subscriber"] \notin {"create", "match"} /\ stage \notin Early
    BY <1>0, <2>4, WhereCalm
  <2>6. "subscriber" \in met /\ Running("subscriber")
    BY <1>0, <1>3, <2>5 DEF CalmState, CalmProcesses, NotYet, Early, Running
  <2>7. Len(all) = k + 1 /\ (\A i \in 1..k : all[i] = cache[i]) /\ all[k + 1] = h
    <3> HIDE DEF h
    <3> QED BY <1>0, <1>2, AppendProperties
  <2> HIDE DEF all, t, k, n, h
  <2>8. ~(Len(all) > Total)
    BY <1>0, <1>2, <2>2, <2>7
  <2>9. cache' = all
    BY <1>1, <2>6, <2>8 DEF Arrives, Cached, all, h
  <2>10. \A i \in 1..Len(all) : all[i] = t + i - 1
    <3> SUFFICES ASSUME NEW i \in 1..k + 1 PROVE all[i] = t + i - 1
      BY <2>7
    <3>1. CASE i \in 1..k
      BY <2>2, <2>7, <3>1
    <3>2. CASE i = k + 1
      <4>1. network[1] = t + k + 1 - 1
        BY <1>0, <1>2, <2>2
      <4> QED BY <1>0, <1>2, <2>7, <3>2, <4>1
    <3> QED BY <1>0, <3>1, <3>2
  <2>11. \A i \in 1..Len(network') : network'[i] = t + Len(all) + i - 1
    <3> SUFFICES ASSUME NEW i \in 1..n - 1 PROVE network'[i] = t + k + 1 + i - 1
      BY <1>0, <1>1, <1>2, <2>7
    <3>1. i + 1 \in 1..n
      BY <1>0
    <3>2. network[i + 1] = t + k + (i + 1) - 1
      BY <2>2, <3>1
    <3> QED BY <1>0, <1>1, <1>2, <3>2
  <2>12. t + Len(all) + Len(network') = written
    BY <1>0, <1>1, <1>2, <2>2, <2>7
  <2>13. \A i \in 1..t : taken[i] = i - 1
    BY <2>2
  <2> QED BY <1>1, <2>9, <2>10, <2>11, <2>12, <2>13 DEF InOrder, t
<1> HIDE DEF t, k, n, h, all
<1>4. CalmProcesses'
  BY <1>1 DEF CalmState, CalmProcesses, NotYet
<1>5. CalmHandshake'
  BY <1>1 DEF CalmState, CalmHandshake, Agrees
<1>6. CalmFlow'
  BY <1>1, <1>3 DEF CalmState, CalmFlow
<1>7. \A d \in {"subscriber"} : CalmSubscriber(d)'
  BY <1>1 DEF CalmState, CalmSubscriber, Told, Waits
<1>8. \A d \in {"publisher"} : CalmPublisher(d)'
  BY <1>1 DEF CalmState, CalmPublisher, Told, Waits
<1> QED BY <1>4, <1>5, <1>6, <1>7, <1>8 DEF CalmState

-----------------------------------------------------------------------------
(* The record *)

(* CalmInv holds when the runner begins, *)
LEMMA CalmInvInit == BenchInit => CalmInv
<1> SUFFICES ASSUME BenchInit PROVE CalmState
  BY DEF CalmInv
<1>1. CalmProcesses
  BY DEF BenchInit, CalmProcesses, NotYet
<1>2. CalmHandshake
  BY DEF BenchInit, CalmHandshake, Agrees, Early
<1>3. CalmFlow
  <2>1. Len(taken) = 0 /\ Len(cache) = 0 /\ Len(network) = 0 /\ written = 0
    BY EmptySeq DEF BenchInit
  <2>2. InOrder
    BY <2>1 DEF InOrder
  <2> QED BY <2>1, <2>2 DEF BenchInit, CalmFlow, Children
<1> QED BY <1>1, <1>2, <1>3 DEF CalmState, CalmSubscriber, CalmPublisher, Early, Starting,
                                Finished, Ending, BenchInit

(* and every step that is no fault keeps it. *)
LEMMA CalmInvStep == BaseInv /\ CalmInv /\ [BenchNext]_benchVars => CalmInv'
<1> SUFFICES ASSUME BaseInv, CalmInv, [BenchNext]_benchVars, Calm' PROVE CalmState'
  BY DEF CalmInv
<1>0. faults \in Nat
  BY DEF BaseInv, OrdersInv
<1>1. ~Fault /\ \A d : Passes(d) => d = "roudi"
  BY <1>0, StaysCalm
<1>2. ASSUME ~Fault, \A d : Passes(d) => d = "roudi" PROVE CalmState
  <2>1. UNCHANGED faults /\ late \subseteq late'
    <3>1. CASE \E c \in Children : ChildStep(c) \/ MatchTimesOut(c) \/ Crash(c) \/ Pairs(c)
      BY <1>2, <3>1 DEF ChildStep, CreateEndpoint, SeesMatch, Start, Orphaned, Write, Done, Stop,
         Hears, Take, Report, Leave, MatchTimesOut, Crash, Pairs, faultVars, Passes
    <3>2. CASE ~ \E c \in Children : ChildStep(c) \/ MatchTimesOut(c) \/ Crash(c) \/ Pairs(c)
      BY <1>2, <3>2 DEF BenchNext, RunnerStep, Runner,
         WriteConfig, StartRoudi, StartRoudiFails, RoudiStarted,
         RoudiStartupFails, Interrupt, RoudiStopped, Cleanup, WriteRecord,
         HandshakeBroken, WaitSubscriber, HandshakeRound, ResultRound, TellStart, TellStop, Tells,
         WaitPublisher, DropChildren, DropChild, Spawn, SpawnFails, RoudiComplains,
         RoudiObeys, RoudiCrashes, RunnerKilled, ReceiveTimesOut, Deliver, Disturb,
         faultVars, benchVars, Passes, NoFault
    <3> QED BY <3>1, <3>2
  <2> QED BY <1>0, <2>1, StaysCalm DEF CalmInv
<1>3. CalmState
  BY <1>1, <1>2
<1>4. CASE WriteConfig \/ StartRoudi \/ StartRoudiFails \/ RoudiStarted
            \/ RoudiStartupFails \/ Interrupt \/ Cleanup \/ WriteRecord
  BY <1>0, <1>3, <1>4, SetupCalm
<1>5. CASE WaitSubscriber \/ DropChildren \/ RoudiStopped(TRUE) \/ RoudiStopped(FALSE)
  BY <1>3, <1>5, EndingCalm
<1>6. CASE TellStart \/ TellStop \/ WaitPublisher \/ RoudiObeys \/ Deliver
  BY <1>3, <1>6, TellCalm, WaitPublisherCalm, RoudiObeysCalm, DeliverCalm
<1>7. CASE HandshakeRound(FALSE) \/ ResultRound(FALSE)
  BY <1>3, <1>7, HandshakeCalm, ResultCalm
<1>8. ASSUME NEW c \in Children,
             Spawn(c) \/ Pairs(c) \/ CreateEndpoint(c) \/ SeesMatch(c) \/ Start(c) \/ Leave(c)
      PROVE  CalmState'
  BY <1>3, <1>8, SpawnCalm, PairsCalm, AppearsCalm, StartCalm, LeaveCalm
<1>9. CASE Write \/ Done \/ Stop \/ Take \/ Report
  BY <1>3, <1>9, WriteCalm, DoneCalm, StopCalm, TakeCalm, ReportCalm
<1>10. CASE UNCHANGED benchVars
  <2>1. UNCHANGED << stage, status, handshake, result, messages_sent, startup_failed, proc, pos,
                     stdin, lines, met, written, network, cache, taken >>
    BY <1>10 DEF benchVars, runnerVars, processVars, childVars, ddsVars
  <2>2. CalmProcesses'
    BY <1>3, <2>1 DEF CalmState, CalmProcesses, NotYet
  <2>3. CalmHandshake'
    BY <1>3, <2>1 DEF CalmState, CalmHandshake, Agrees
  <2>4. CalmFlow'
    BY <1>3, <2>1, InOrderSame DEF CalmState, CalmFlow
  <2>5. \A c \in {"subscriber"} : CalmSubscriber(c)'
    BY <1>3, <2>1 DEF CalmState, CalmSubscriber, Told, Waits
  <2>6. \A c \in {"publisher"} : CalmPublisher(c)'
    BY <1>3, <2>1 DEF CalmState, CalmPublisher, Told, Waits
  <2> QED BY <2>2, <2>3, <2>4, <2>5, <2>6 DEF CalmState
<1>11. ~HandshakeRound(TRUE) /\ ~ResultRound(TRUE) /\ ~ReceiveTimesOut
  BY <1>1 DEF HandshakeRound, ResultRound, ReceiveTimesOut
<1>12. ~HandshakeBroken
  BY <1>3, RunningCalm DEF HandshakeBroken, Gone, Returns, RunnerGoes
<1>13. ~RoudiComplains /\ ~RoudiCrashes /\ ~RunnerKilled /\ ~Disturb
  BY <1>1 DEF RoudiComplains, RoudiCrashes, RunnerKilled, Disturb
<1>14. \A c \in Children : ~SpawnFails(c) /\ ~MatchTimesOut(c) /\ ~Crash(c) /\ ~Orphaned(c)
  <2> SUFFICES ASSUME NEW c \in Children PROVE ~SpawnFails(c) /\ ~MatchTimesOut(c) /\ ~Crash(c)
                                               /\ ~Orphaned(c)
    OBVIOUS
  <2>1. ~SpawnFails(c) /\ ~Crash(c)
    BY <1>1 DEF SpawnFails, Crash
  <2>2. ~MatchTimesOut(c)
    BY <1>1 DEF MatchTimesOut, Children
  <2>3. ~Orphaned(c)
    BY <1>3 DEF Orphaned, CalmState, CalmProcesses
  <2> QED BY <2>1, <2>2, <2>3
<1> QED BY <1>4, <1>5, <1>6, <1>7, <1>8, <1>9, <1>10, <1>11, <1>12, <1>13, <1>14
        DEF BenchNext, RunnerStep, Runner, ChildStep

(* All of it together *)
TruthInv == BaseInv /\ SaidInv /\ StatusInv /\ CalmInv

(* A record says "ok" exactly when it should: only of a run in which every  *)
(* message arrived once and in order and both children ended well, and of   *)
(* every run in which nothing failed.                                       *)
THEOREM RecordsAreTruthful == BenchSpec => []RecordTruthful
<1>1. BenchInit => TruthInv
  BY BehindInvInit, TruthInvInit, OrdersInvInit, CalmInvInit DEF TruthInv, BaseInv, SaidInv
<1>2. TruthInv /\ [BenchNext]_benchVars => TruthInv'
  <2> SUFFICES ASSUME TruthInv, [BenchNext]_benchVars PROVE TruthInv'
    OBVIOUS
  <2>1. BehindInv' /\ TakenInv' /\ SaidInv' /\ StatusInv' /\ OrdersInv' /\ CalmInv'
    BY BehindInvStep, TakenInvStep, SaidInvStep, StatusInvStep, OrdersInvStep, CalmInvStep
       DEF TruthInv, BaseInv
  <2> QED BY <2>1 DEF TruthInv, BaseInv, SaidInv
<1>3. TruthInv => RecordTruthful
  <2> SUFFICES ASSUME TruthInv, stage = "done"
               PROVE  /\ status = "ok" =>
                           /\ taken = [i \in 1..Total |-> i - 1] /\ written = Total
                           /\ \A c \in Children : proc[c] = "ok"
                      /\ faults = 0 /\ late \subseteq {"roudi"} => status = "ok"
    BY DEF RecordTruthful
  <2>1. /\ status = "ok" =>
             /\ taken = [i \in 1..Total |-> i - 1] /\ written = Total
             /\ \A c \in Children : proc[c] = "ok"
    BY OkHolds DEF TruthInv, BaseInv, OkIsTrue
  <2>2. ASSUME Calm PROVE status = "ok"
    BY <2>2 DEF TruthInv, CalmInv, CalmState, CalmPublisher, Finished, Ending
  <2> QED BY <2>1, <2>2 DEF Calm
<1> QED BY <1>1, <1>2, <1>3, PTL DEF BenchSpec

-----------------------------------------------------------------------------
(* BenchSite *)

SiteTypes ==
  /\ next_write \in {"done", "primary", "run", "index", "html"} /\ writing \in BOOLEAN
  /\ next_write # "done" => build \in Documents /\ PathOf \in Paths
  /\ run_files \in [Paths -> Documents \cup Unreadable]
  /\ recorded \in [Paths -> Documents \cup {Missing}]

(* A run file holds what was recorded for it, if anything was; the build    *)
(* under way has opened its file before it fills it and has one afterwards  *)
StoredInv ==
  /\ \A p \in Paths : recorded[p] = Missing <=> run_files[p] \in Unreadable
  /\ \A p \in Paths : recorded[p] # Missing => run_files[p] = recorded[p]
  /\ next_write = "run" /\ writing => run_files[PathOf] = Broken
  /\ next_write \in {"index", "html"} => run_files[PathOf] # Missing

(* A run file cut off, and nobody is there who would fill it                *)
CutOff(p) == run_files[p] \in CutFiles /\ ~(next_write = "run" /\ writing /\ PathOf = p)

Clean == \A p \in Paths : ~CutOff(p)

EntryRight(e) ==
  /\ e \in Entries /\ e.path \in Paths /\ recorded[e.path] \in Documents
  /\ e = index_entry(e.path, recorded[e.path])

IndexRight ==
  /\ index \in Seq(Entries) /\ \A i \in 1..Len(index) : EntryRight(index[i])
  /\ listed \subseteq Listed(index)

(* As long as no file is cut off for good, what was listed can be read, and *)
(* the index shows it all, as it was recorded                               *)
IndexInv ==
  Clean => /\ listed \subseteq Readable(run_files)
           /\ index \notin Unreadable => IndexRight
           /\ next_write = "html" => index \notin Unreadable /\ PathOf \in Listed(index)

SiteInv == SiteTypes /\ StoredInv /\ IndexInv

LEMMA PathsAreFinite == IsFiniteSet(Paths) /\ \A p \in Paths : p \in Int \X Int
<1>1. ASSUME NEW ids, IsFiniteSet(ids), ids \subseteq CommitIds \cup RunIds
      PROVE  IsFiniteSet(FileNames(ids)) /\ FileNames(ids) \subseteq Int
  <2>1. IsFiniteSet({ PathComponent[id] : id \in ids })
    BY <1>1, ImageFinite
  <2>2. FileNames(ids) \in SUBSET { PathComponent[id] : id \in ids }
    BY DEF FileNames
  <2>3. IsFiniteSet(FileNames(ids))
    BY <2>1, <2>2, FS_Subset
  <2>4. FileNames(ids) \subseteq Int
    BY <1>1, SiteAssumption DEF FileNames
  <2> QED BY <2>3, <2>4
<1>2. /\ IsFiniteSet(FileNames(CommitIds)) /\ FileNames(CommitIds) \subseteq Int
      /\ IsFiniteSet(FileNames(RunIds)) /\ FileNames(RunIds) \subseteq Int
  BY <1>1, SiteAssumption
<1>3. IsFiniteSet(FileNames(CommitIds) \X FileNames(RunIds))
  BY <1>2, FS_Product
<1> QED BY <1>2, <1>3 DEF Paths

LEMMA RunEntry ==
  ASSUME NEW p \in Paths, NEW d \in Documents
  PROVE  index_entry(p, d) \in Entries /\ index_entry(p, d).path = p
<1>1. p \in Int \X Int
  BY PathsAreFinite
<1>2. d.results \in Results /\ d.run_id \in RunIds /\ d.commit \in CommitIds /\ d.at \in SiteTimes
  BY DEF Documents
<1>3. d.results \in Seq([transport : Transports, value : Int \cup {NoMetric}])
  BY <1>2, SiteAssumption
<1>4. \A i \in DOMAIN d.results : d.results[i].transport \in Transports
  <2> DEFINE M == [transport : Transports, value : Int \cup {NoMetric}]
  <2>1. DOMAIN d.results = 1..Len(d.results) /\ d.results \in [1..Len(d.results) -> M]
    <3> HIDE DEF M
    <3> QED BY <1>3, LenProperties DEF M
  <2> QED BY <2>1
<1> QED BY <1>1, <1>2, <1>4 DEF index_entry, Entries

(* The index that is built lists the runs that can be read                  *)
LEMMA BuiltIs ==
  ASSUME SiteTypes, StoredInv, Clean, next_write = "index"
  PROVE  /\ build_index \in Seq(Entries) /\ build_index \notin Unreadable
         /\ \A i \in 1..Len(build_index) : EntryRight(build_index[i])
         /\ Listed(build_index) = Readable(run_files)
<1> DEFINE E == { index_entry(p, run_files[p]) : p \in Readable(run_files) }
           n == Cardinality(E)
<1>1. \A p \in Readable(run_files) :
        /\ p \in Paths /\ run_files[p] \in Documents /\ recorded[p] = run_files[p]
  BY DEF Readable, SiteTypes, StoredInv
<1>2. \A e \in E : EntryRight(e)
  BY <1>1, RunEntry DEF EntryRight
<1>3. IsFiniteSet(E)
  <2> DEFINE f == [p \in Paths |-> index_entry(p, run_files[p])]
  <2>1. Readable(run_files) \in SUBSET Paths
    BY <1>1
  <2>2. IsFiniteSet(Readable(run_files))
    BY <2>1, PathsAreFinite, FS_Subset
  <2>3. IsFiniteSet({ f[p] : p \in Readable(run_files) })
    BY <2>2, ImageFinite
  <2>4. { f[p] : p \in Readable(run_files) } = E
    BY <2>1
  <2> QED BY <2>3, <2>4
<1>4. discover_runs = E
  <2>1. PathOf \in Paths /\ run_files[PathOf] \notin Unreadable
    BY DEF SiteTypes, StoredInv, Clean, CutOff, Unreadable, CutFiles
  <2>2. PathOf \in Readable(run_files)
    BY <2>1 DEF Readable, SiteTypes
  <2> QED BY <2>2 DEF discover_runs
<1>5. \A e \in E : /\ e.at \in Int /\ e.run_id \in Int
                   /\ e.path \in Int \X Int
                   /\ e \in Entries /\ e.path \in Readable(run_files)
                   /\ e = index_entry(e.path, run_files[e.path])
  <2>1. \A e \in Entries : e.at \in Int /\ e.run_id \in Int /\ e.path \in Int \X Int
    BY SiteAssumption DEF Entries
  <2> QED BY <1>1, <1>2, <2>1, RunEntry DEF EntryRight
<1> HIDE DEF E
<1>6. \A x, y \in E : x # y => << x, y >> \in NewestFirst(E) \/ << y, x >> \in NewestFirst(E)
  <2> SUFFICES ASSUME NEW x \in E, NEW y \in E, x # y PROVE Newer(x, y) \/ Newer(y, x)
    BY DEF NewestFirst
  <2>1. x.path # y.path
    BY <1>5
  <2>2. x.path[1] \in Int /\ x.path[2] \in Int /\ y.path[1] \in Int /\ y.path[2] \in Int
        /\ (x.path[1] # y.path[1] \/ x.path[2] # y.path[2])
    BY <1>5, <2>1
  <2>3. x.at \in Int /\ x.run_id \in Int /\ y.at \in Int /\ y.run_id \in Int
    BY <1>5
  <2> QED BY <2>2, <2>3 DEF Newer, PathBefore
<1>7. \A x \in E : << x, x >> \notin NewestFirst(E)
  <2> SUFFICES ASSUME NEW x \in E PROVE ~Newer(x, x)
    BY DEF NewestFirst
  <2>1. x.at \in Int /\ x.run_id \in Int /\ x.path[1] \in Int /\ x.path[2] \in Int
    BY <1>5
  <2> QED BY <2>1 DEF Newer, PathBefore
<1>8. \A x, y, z \in E : << x, y >> \in NewestFirst(E) /\ << y, z >> \in NewestFirst(E)
                           => << x, z >> \in NewestFirst(E)
  <2> SUFFICES ASSUME NEW x \in E, NEW y \in E, NEW z \in E, Newer(x, y), Newer(y, z)
               PROVE  Newer(x, z)
    BY DEF NewestFirst
  <2>1. x.at \in Int /\ x.run_id \in Int /\ x.path[1] \in Int /\ x.path[2] \in Int
    BY <1>5
  <2>2. y.at \in Int /\ y.run_id \in Int /\ y.path[1] \in Int /\ y.path[2] \in Int
    BY <1>5
  <2>3. z.at \in Int /\ z.run_id \in Int /\ z.path[1] \in Int /\ z.path[2] \in Int
    BY <1>5
  <2> QED BY <2>1, <2>2, <2>3 DEF Newer, PathBefore
<1>9. /\ build_index \in [1..n -> E] /\ n \in Nat
      /\ \A x \in E : \E i \in 1..n : build_index[i] = x
  <2> HIDE DEF n
  <2>1. build_index = Arranged(E, NewestFirst(E))
    BY <1>4 DEF build_index
  <2> QED BY <1>3, <1>6, <1>7, <1>8, <2>1, ArrangedIs DEF n
<1> HIDE DEF n
<1>10. build_index \in Seq(E) /\ Len(build_index) = n /\ DOMAIN build_index = 1..n
  BY <1>9, FunctionSeq
<1>11. build_index \in Seq(Entries)
  BY <1>5, <1>10, WiderSeq
<1>12. \A i \in 1..n : build_index[i] \in E
  BY <1>9
<1>13. Listed(build_index) = Readable(run_files)
  <2>1. \A x \in Listed(build_index) : x \in Readable(run_files)
    BY <1>5, <1>10, <1>12 DEF Listed
  <2>2. ASSUME NEW p \in Readable(run_files) PROVE p \in Listed(build_index)
    <3>1. PICK e \in E : e.path = p
      BY <1>1, RunEntry DEF E
    <3>2. PICK i \in 1..n : build_index[i] = e
      BY <1>9
    <3> QED BY <1>10, <3>1, <3>2 DEF Listed
  <2> QED BY <2>1, <2>2
<1> QED BY <1>2, <1>10, <1>11, <1>12, <1>13, UnreadableAssumption

(* What is drawn are runs of the index that have a matching record, with    *)
(* its value, none older than the one before it                             *)
LEMMA ChartIs ==
  ASSUME FetchedRuns \in Seq(Entries), NEW commits, NEW filter
  PROVE  LET points == chartPoints(commits, filter) IN
         \E n \in Nat :
           /\ Len(points) = n /\ DOMAIN points = 1..n
           /\ \A i \in 1..n :
                /\ \E k \in 1..Len(FetchedRuns) : points[i].run = FetchedRuns[k]
                /\ metricRecord(points[i].run, filter) # << >>
                /\ points[i].value = numeric(metricRecord(points[i].run, filter)[1].value)
           /\ \A i, j \in 1..n : i < j => points[i].run.at <= points[j].run.at
<1> DEFINE runs == filteredRuns(commits, filter)
           drawn == Kept(runs, { run \in ToSet(runs) : metricRecord(run, filter) # << >> })
           Point(i) == [ run |-> drawn[i], order |-> i,
                         value |-> numeric(metricRecord(drawn[i], filter)[1].value) ]
           points == { Point(i) : i \in DOMAIN drawn }
           n == Cardinality(points)
<1>1. /\ runs \in Seq(Entries)
      /\ \A i \in 1..Len(runs) : \E k \in 1..Len(FetchedRuns) : runs[i] = FetchedRuns[k]
  <2> DEFINE F == { run \in ToSet(FetchedRuns) :
                      /\ commits # {} => run.commit \in commits
                      /\ filter # {} => run.transports \cap filter # {} }
  <2>1. runs = Kept(FetchedRuns, F)
    BY DEF filteredRuns
  <2> HIDE DEF runs, F
  <2> QED BY <2>1, KeptIn
<1>2. /\ drawn \in Seq(Entries)
      /\ \A i \in 1..Len(drawn) : \E k \in 1..Len(runs) :
           drawn[i] = runs[k] /\ metricRecord(runs[k], filter) # << >>
  <2> HIDE DEF runs
  <2>1. /\ drawn \in Seq(Entries)
        /\ \A i \in 1..Len(drawn) : \E k \in 1..Len(runs) :
             drawn[i] = runs[k]
             /\ runs[k] \in { run \in ToSet(runs) : metricRecord(run, filter) # << >> }
    BY <1>1, KeptIn
  <2> QED BY <2>1
<1> HIDE DEF runs, drawn
<1>3. DOMAIN drawn = 1..Len(drawn) /\ Len(drawn) \in Nat /\ \A i \in 1..Len(drawn) : drawn[i] \in Entries
  BY <1>2, LenProperties
<1>4. IsFiniteSet(points)
  <2> DEFINE f == [i \in DOMAIN drawn |-> Point(i)]
  <2>1. IsFiniteSet(DOMAIN drawn)
    BY <1>3, CountTo
  <2>2. IsFiniteSet({ f[i] : i \in DOMAIN drawn })
    BY <2>1, ImageFinite
  <2>3. { f[i] : i \in DOMAIN drawn } = points
    OBVIOUS
  <2> QED BY <2>2, <2>3
<1>5. \A p \in points : /\ p.order \in Int /\ p = Point(p.order) /\ p.order \in 1..Len(drawn)
                        /\ p.run.at \in Int /\ p.run.run_id \in Int /\ p.run = drawn[p.order]
                        /\ p.value = numeric(metricRecord(p.run, filter)[1].value)
  <2> SUFFICES ASSUME NEW i \in DOMAIN drawn
               PROVE  /\ Point(i).order = i /\ i \in Int /\ i \in 1..Len(drawn)
                      /\ drawn[i].at \in Int /\ drawn[i].run_id \in Int
    OBVIOUS
  <2>1. drawn[i] \in Entries /\ i \in Int
    BY <1>3
  <2> QED BY <1>3, <2>1, SiteAssumption DEF Entries
<1> HIDE DEF Point, points
<1>6. \A x, y \in points : x # y => << x, y >> \in OldestFirst(points) \/ << y, x >> \in OldestFirst(points)
  <2> SUFFICES ASSUME NEW x \in points, NEW y \in points, x # y
               PROVE  \/ Older(x, y) \/ (~Older(y, x) /\ x.order < y.order)
                      \/ Older(y, x) \/ (~Older(x, y) /\ y.order < x.order)
    BY DEF OldestFirst
  <2>1. x.order # y.order /\ x.order \in Int /\ y.order \in Int
    BY <1>5
  <2> QED BY <2>1
<1>7. \A x \in points : << x, x >> \notin OldestFirst(points)
  <2> SUFFICES ASSUME NEW x \in points PROVE ~(Older(x, x) \/ (~Older(x, x) /\ x.order < x.order))
    BY DEF OldestFirst
  <2> QED BY <1>5 DEF Older
<1>8. \A x, y, z \in points : << x, y >> \in OldestFirst(points) /\ << y, z >> \in OldestFirst(points)
                                => << x, z >> \in OldestFirst(points)
  <2> DEFINE Ahead(x, y) == Older(x, y) \/ (~Older(y, x) /\ x.order < y.order)
  <2> SUFFICES ASSUME NEW x \in points, NEW y \in points, NEW z \in points, Ahead(x, y), Ahead(y, z)
               PROVE  Ahead(x, z)
    BY DEF OldestFirst
  <2>1. x.order \in Int /\ x.run.at \in Int /\ x.run.run_id \in Int
    BY <1>5
  <2>2. y.order \in Int /\ y.run.at \in Int /\ y.run.run_id \in Int
    BY <1>5
  <2>3. z.order \in Int /\ z.run.at \in Int /\ z.run.run_id \in Int
    BY <1>5
  <2> DEFINE Lex(u, v) == \/ u.run.at < v.run.at
                          \/ /\ u.run.at = v.run.at
                             /\ \/ u.run.run_id < v.run.run_id
                                \/ u.run.run_id = v.run.run_id /\ u.order < v.order
  <2>4. Lex(x, y)
    BY <2>1, <2>2 DEF Older
  <2>5. Lex(y, z)
    BY <2>2, <2>3 DEF Older
  <2> HIDE DEF Ahead
  <2>6. Lex(x, z)
    BY <2>1, <2>2, <2>3, <2>4, <2>5
  <2>7. Older(x, z) \/ (~Older(z, x) /\ x.order < z.order)
    BY <2>1, <2>3, <2>6 DEF Older
  <2> QED BY <2>7 DEF Ahead
<1> DEFINE list == Arranged(points, OldestFirst(points))
<1>9. /\ list \in [1..n -> points] /\ n \in Nat
      /\ \A i, j \in 1..n : i < j => << list[i], list[j] >> \in OldestFirst(points)
  BY <1>4, <1>6, <1>7, <1>8, ArrangedIs
<1>10. chartPoints(commits, filter) = list
  BY DEF chartPoints, points, Point, drawn, runs
<1> HIDE DEF list, n
<1>11. Len(list) = n /\ DOMAIN list = 1..n
  BY <1>9, FunctionSeq
<1>12. ASSUME NEW i \in 1..n
       PROVE  /\ \E k \in 1..Len(FetchedRuns) : list[i].run = FetchedRuns[k]
              /\ metricRecord(list[i].run, filter) # << >>
              /\ list[i].value = numeric(metricRecord(list[i].run, filter)[1].value)
  <2>1. list[i] \in points
    BY <1>9
  <2>2. /\ list[i].run = drawn[list[i].order] /\ list[i].order \in 1..Len(drawn)
        /\ list[i].value = numeric(metricRecord(list[i].run, filter)[1].value)
    BY <1>5, <2>1
  <2>3. PICK k \in 1..Len(runs) :
          drawn[list[i].order] = runs[k] /\ metricRecord(runs[k], filter) # << >>
    BY <1>2, <2>2
  <2>4. PICK m \in 1..Len(FetchedRuns) : runs[k] = FetchedRuns[m]
    BY <1>1, <2>3
  <2> QED BY <2>2, <2>3, <2>4
<1>13. \A i, j \in 1..n : i < j => list[i].run.at <= list[j].run.at
  <2> SUFFICES ASSUME NEW i \in 1..n, NEW j \in 1..n, i < j PROVE list[i].run.at <= list[j].run.at
    OBVIOUS
  <2>1. list[i] \in points /\ list[j] \in points /\ << list[i], list[j] >> \in OldestFirst(points)
    BY <1>9
  <2>2. list[i].run.at \in Int /\ list[j].run.at \in Int
    BY <1>5, <2>1
  <2>3. Older(list[i], list[j]) \/ ~Older(list[j], list[i])
    BY <2>1 DEF OldestFirst
  <2> QED BY <2>2, <2>3 DEF Older
<1> QED BY <1>9, <1>10, <1>11, <1>12, <1>13

LEMMA SiteStart == SiteInit => SiteInv
<1> SUFFICES ASSUME SiteInit PROVE SiteInv
  OBVIOUS
<1>1. SiteTypes /\ StoredInv
  BY DEF SiteInit, SiteTypes, StoredInv, Unreadable, CutFiles
<1>2. IndexInv
  BY DEF SiteInit, IndexInv, Unreadable, CutFiles
<1> QED BY <1>1, <1>2 DEF SiteInv

(* A step that writes no run file keeps what the index says, if no file was *)
(* cut off for good that now is none                                        *)
LEMMA FilesKept ==
  ASSUME SiteInv, UNCHANGED << run_files, recorded, index, listed >>,
         next_write' # "html", Clean' => Clean
  PROVE  IndexInv'
<1>1. SUFFICES ASSUME Clean' PROVE /\ (listed \subseteq Readable(run_files))'
                                   /\ index' \notin Unreadable => IndexRight'
  BY DEF IndexInv
<1>2. Readable(run_files)' = Readable(run_files)
  BY DEF Readable
<1>3. IndexRight => IndexRight'
  BY DEF IndexRight, EntryRight, Listed
<1> QED BY <1>1, <1>2, <1>3 DEF SiteInv, IndexInv

LEMMA StartStep == ASSUME SiteInv, StartBuild PROVE SiteInv'
<1>1. PICK c \in CommitIds, r \in RunIds, when \in SiteTimes, results \in Results :
        /\ NoName \notin {PathComponent[c], PathComponent[r]}
        /\ build' = run_document(c, r, when, results)
  BY DEF StartBuild
<1>2. /\ next_write = "done" /\ next_write' = "primary"
      /\ UNCHANGED << run_files, recorded, index, listed, writing >>
  BY DEF StartBuild, fileVars
<1>3. build' \in Documents /\ PathOf' \in Paths
  <2>1. build'.commit = c /\ build'.run_id = r /\ build' \in Documents
    BY <1>1 DEF run_document, Documents
  <2>2. PathOf' = << PathComponent[c], PathComponent[r] >>
    BY <2>1 DEF PathOf, CommitOf
  <2> QED BY <1>1, <2>1, <2>2 DEF Paths, FileNames
<1>4. SiteTypes' /\ StoredInv'
  BY <1>2, <1>3 DEF SiteInv, SiteTypes, StoredInv
<1>5. Clean' => Clean
  BY <1>2 DEF Clean, CutOff
<1>6. IndexInv'
  BY <1>2, <1>5, FilesKept
<1> QED BY <1>4, <1>6 DEF SiteInv

LEMMA CommitStep == ASSUME SiteInv, WriteCommit PROVE SiteInv'
<1>1. /\ next_write = "primary" /\ next_write' \in {"primary", "run"} /\ writing' \in BOOLEAN
      /\ next_write' = "run" => ~writing'
      /\ UNCHANGED << run_files, recorded, index, listed, build >>
  <2>1. next_write = "primary" /\ UNCHANGED << run_files, recorded, index, listed, build >>
    BY DEF WriteCommit
  <2>2. \/ writing' = TRUE /\ UNCHANGED next_write
        \/ writing' = FALSE /\ next_write' = "run"
        \/ ~writing /\ next_write' = "run" /\ UNCHANGED writing
    BY DEF WriteCommit
  <2>3. writing \in BOOLEAN
    BY DEF SiteInv, SiteTypes
  <2>4. CASE writing' = TRUE /\ UNCHANGED next_write
    BY <2>1, <2>4
  <2>5. CASE writing' = FALSE /\ next_write' = "run"
    BY <2>1, <2>5
  <2>6. CASE ~writing /\ next_write' = "run" /\ UNCHANGED writing
    BY <2>1, <2>3, <2>6
  <2> QED BY <2>2, <2>4, <2>5, <2>6
<1>2. PathOf' = PathOf
  BY <1>1 DEF PathOf, CommitOf
<1>3. SiteTypes' /\ StoredInv'
  BY <1>1, <1>2 DEF SiteInv, SiteTypes, StoredInv
<1>4. Clean' => Clean
  BY <1>1, <1>2 DEF Clean, CutOff
<1>5. IndexInv'
  BY <1>1, <1>4, FilesKept
<1> QED BY <1>3, <1>5 DEF SiteInv

LEMMA WriteRunStep == ASSUME SiteInv, WriteRun PROVE SiteInv'
<1>1. /\ next_write = "run" /\ UNCHANGED << index, build, listed >> /\ PathOf' = PathOf
      /\ PathOf \in Paths /\ build \in Documents
  BY DEF WriteRun, SiteInv, SiteTypes, PathOf, CommitOf
<1>2. CASE OpenRun
  <2>1. /\ ~writing /\ writing' /\ next_write' = "run" /\ recorded' = recorded
        /\ run_files[PathOf] = Missing /\ recorded[PathOf] = Missing
        /\ run_files' = [run_files EXCEPT ![PathOf] = Broken]
    BY <1>1, <1>2 DEF OpenRun, SiteInv, StoredInv, Unreadable, CutFiles
  <2>2. SiteTypes'
    BY <1>1, <2>1 DEF SiteInv, SiteTypes, Unreadable, CutFiles, OpenRun
  <2>3. StoredInv'
    BY <1>1, <2>1 DEF SiteInv, SiteTypes, StoredInv, Unreadable, CutFiles
  <2>4. Clean' => Clean
    <3> SUFFICES ASSUME NEW p \in Paths, CutOff(p) PROVE CutOff(p)'
      BY DEF Clean
    <3>1. p # PathOf
      <4>1. Missing \notin CutFiles
        BY UnreadableAssumption
      <4> QED BY <1>1, <2>1, <4>1 DEF CutOff
    <3> QED BY <1>1, <2>1, <3>1 DEF CutOff, SiteInv, SiteTypes
  <2>5. Readable(run_files) \subseteq Readable(run_files)'
    BY <1>1, <2>1 DEF Readable, SiteInv, SiteTypes, Unreadable, CutFiles
  <2>6. IndexRight => IndexRight'
    BY <1>1, <2>1 DEF IndexRight, EntryRight, Listed
  <2>7. IndexInv'
    BY <1>1, <2>1, <2>4, <2>5, <2>6 DEF SiteInv, IndexInv
  <2> QED BY <2>2, <2>3, <2>7 DEF SiteInv
<1>3. CASE FillRun
  <2>1. /\ writing /\ ~writing' /\ next_write' = "index"
        /\ run_files[PathOf] = Broken /\ recorded[PathOf] = Missing
        /\ run_files' = [run_files EXCEPT ![PathOf] = build]
        /\ recorded' = [recorded EXCEPT ![PathOf] = build]
        /\ build \notin Unreadable
    BY <1>1, <1>3, UnreadableAssumption DEF FillRun, SiteInv, SiteTypes, StoredInv, Unreadable, CutFiles
  <2>2. SiteTypes'
    <3>1. run_files \in [Paths -> Documents \cup Unreadable] /\ recorded \in [Paths -> Documents \cup {Missing}]
      BY DEF SiteInv, SiteTypes
    <3>2. run_files' \in [Paths -> Documents \cup Unreadable] /\ recorded' \in [Paths -> Documents \cup {Missing}]
      BY <1>1, <2>1, <3>1
    <3>3. writing' = FALSE
      BY <1>3 DEF FillRun
    <3> QED BY <1>1, <2>1, <3>2, <3>3 DEF SiteTypes
  <2>3. StoredInv'
    BY <1>1, <2>1 DEF SiteInv, SiteTypes, StoredInv, Unreadable, CutFiles
  <2>4. Clean' => Clean
    <3> SUFFICES ASSUME NEW p \in Paths, CutOff(p) PROVE CutOff(p)'
      BY DEF Clean
    <3>1. p # PathOf
      BY <1>1, <2>1 DEF CutOff
    <3> QED BY <1>1, <2>1, <3>1 DEF CutOff, SiteInv, SiteTypes
  <2>5. Readable(run_files) \subseteq Readable(run_files)'
    BY <1>1, <2>1 DEF Readable, SiteInv, SiteTypes, Unreadable, CutFiles
  <2>6. IndexRight => IndexRight'
    <3>1. \A p \in Paths : recorded[p] \in Documents => recorded'[p] = recorded[p]
      BY <1>1, <2>1, UnreadableAssumption DEF SiteInv, SiteTypes, Unreadable, CutFiles
    <3> QED BY <1>1, <3>1 DEF IndexRight, EntryRight, Listed
  <2>7. IndexInv'
    BY <1>1, <2>1, <2>4, <2>5, <2>6 DEF SiteInv, IndexInv
  <2> QED BY <2>2, <2>3, <2>7 DEF SiteInv
<1>4. CASE KeepRun
  <2>1. /\ ~writing /\ next_write' = "index" /\ run_files[PathOf] # Missing
        /\ UNCHANGED << run_files, writing, recorded >>
    BY <1>4 DEF KeepRun
  <2>2. SiteTypes' /\ StoredInv'
    BY <1>1, <2>1 DEF SiteInv, SiteTypes, StoredInv
  <2>3. Clean' => Clean
    BY <1>1, <2>1 DEF Clean, CutOff
  <2>4. IndexInv'
    BY <1>1, <2>1, <2>3, FilesKept
  <2> QED BY <2>2, <2>4 DEF SiteInv
<1> QED BY <1>2, <1>3, <1>4 DEF WriteRun

LEMMA IndexStep == ASSUME SiteInv, WriteIndex PROVE SiteInv'
<1>1. /\ next_write = "index" /\ UNCHANGED << run_files, build, recorded >> /\ PathOf' = PathOf
      /\ next_write' \in {"index", "html"} /\ writing' \in BOOLEAN
  BY DEF WriteIndex, SiteInv, SiteTypes, PathOf, CommitOf
<1>2. SiteTypes' /\ StoredInv'
  BY <1>1 DEF SiteInv, SiteTypes, StoredInv
<1>3. Clean' => Clean
  BY <1>1 DEF Clean, CutOff
<1>4. Readable(run_files)' = Readable(run_files)
  BY <1>1 DEF Readable
<1>5. IndexInv'
  <2> SUFFICES ASSUME Clean'
               PROVE  /\ listed' \subseteq Readable(run_files)
                      /\ index' \notin Unreadable => IndexRight'
                      /\ next_write' = "html" => index' \notin Unreadable /\ PathOf \in Listed(index')
    BY <1>1, <1>4 DEF IndexInv, Listed
  <2>0. Clean /\ listed \subseteq Readable(run_files)
    BY <1>3 DEF SiteInv, IndexInv
  <2>1. CASE index' = Broken /\ UNCHANGED << next_write, listed >>
    BY <1>1, <2>0, <2>1 DEF Unreadable, CutFiles
  <2>2. CASE /\ index' = build_index /\ next_write' = "html"
             /\ listed' = listed \cup Listed(build_index)
    <3>1. /\ build_index \in Seq(Entries) /\ build_index \notin Unreadable
          /\ \A i \in 1..Len(build_index) : EntryRight(build_index[i])
          /\ Listed(build_index) = Readable(run_files)
      BY <1>1, <2>0, BuiltIs DEF SiteInv
    <3>2. PathOf \in Readable(run_files)
      BY <1>1, <2>0 DEF SiteInv, SiteTypes, StoredInv, Clean, CutOff, Unreadable, CutFiles, Readable
    <3> DEFINE b == build_index
    <3>3. index' = b /\ listed' = Readable(run_files)
      BY <2>0, <2>2, <3>1
    <3> HIDE DEF b
    <3>4. \A i \in 1..Len(index') : EntryRight(index[i])'
      <4>1. \A e : EntryRight(e) => /\ e \in Entries /\ e.path \in Paths /\ recorded'[e.path] \in Documents
                                    /\ e = index_entry(e.path, recorded'[e.path])
        BY <1>1 DEF EntryRight
      <4>2. \A i \in 1..Len(index') : EntryRight(b[i])
        BY <3>1, <3>3 DEF b
      <4> QED BY <3>3, <4>1, <4>2 DEF EntryRight
    <3>5. b \in Seq(Entries) /\ b \notin Unreadable /\ Listed(b) = Readable(run_files)
      BY <3>1 DEF b
    <3>6. IndexRight'
      <4>1. Listed(index)' = Listed(b)
        BY <3>3 DEF Listed
      <4> QED BY <3>3, <3>4, <3>5, <4>1 DEF IndexRight
    <3> QED BY <3>2, <3>3, <3>5, <3>6
  <2> QED BY <2>1, <2>2 DEF WriteIndex
<1> QED BY <1>2, <1>5 DEF SiteInv

LEMMA HtmlStep == ASSUME SiteInv, WriteIndexHtml PROVE SiteInv'
<1>1. /\ next_write = "html" /\ next_write' = "done"
      /\ UNCHANGED << run_files, recorded, index, listed, writing >>
  BY DEF WriteIndexHtml
<1>2. SiteTypes' /\ StoredInv'
  BY <1>1 DEF SiteInv, SiteTypes, StoredInv
<1>3. Clean' => Clean
  BY <1>1 DEF Clean, CutOff
<1>4. IndexInv'
  BY <1>1, <1>3, FilesKept
<1> QED BY <1>2, <1>4 DEF SiteInv

(* A build that cannot read what is there leaves it as it is                *)
LEMMA FailsStep == ASSUME SiteInv, BuildFails PROVE SiteInv'
<1>1. /\ next_write = "index" /\ next_write' = "done" /\ ~writing /\ writing' = writing
      /\ UNCHANGED << run_files, recorded, index, listed >>
  BY DEF BuildFails, fileVars
<1>2. SiteTypes' /\ StoredInv'
  BY <1>1 DEF SiteInv, SiteTypes, StoredInv
<1>3. Clean' => Clean
  BY <1>1 DEF Clean, CutOff
<1>4. IndexInv'
  BY <1>1, <1>3, FilesKept
<1> QED BY <1>2, <1>4 DEF SiteInv

(* A build that dies may cut a file off, which could not be read before     *)
(* either; what is cut off stays so                                         *)
LEMMA DiesStep == ASSUME SiteInv, BuildDies PROVE SiteInv'
<1>1. /\ next_write # "done" /\ next_write' = "done" /\ ~writing' /\ writing' \in BOOLEAN
      /\ UNCHANGED << recorded, index, listed >>
  BY DEF BuildDies
<1>2. \/ run_files' = run_files
      \/ /\ next_write = "run" /\ writing
         /\ run_files' = [run_files EXCEPT ![PathOf] = Mangled]
  BY DEF BuildDies, CutShort
<1>3. CASE run_files' = run_files
  <2>1. SiteTypes' /\ StoredInv'
    BY <1>1, <1>3 DEF SiteInv, SiteTypes, StoredInv
  <2>2. Clean' => Clean
    BY <1>1, <1>3 DEF Clean, CutOff
  <2>3. IndexInv'
    BY <1>1, <1>3, <2>2, FilesKept
  <2> QED BY <2>1, <2>3 DEF SiteInv
<1>4. CASE /\ next_write = "run" /\ writing
           /\ run_files' = [run_files EXCEPT ![PathOf] = Mangled]
  <2>1. /\ PathOf \in Paths /\ run_files[PathOf] = Broken
        /\ run_files \in [Paths -> Documents \cup Unreadable]
    BY <1>4 DEF SiteInv, SiteTypes, StoredInv
  <2>2. Broken \in Unreadable /\ Mangled \in Unreadable /\ Mangled \in CutFiles
    BY DEF Unreadable, CutFiles
  <2>3. SiteTypes' /\ StoredInv'
    BY <1>1, <1>4, <2>1, <2>2 DEF SiteInv, SiteTypes, StoredInv
  <2>4. ~Clean'
    BY <1>1, <1>4, <2>1, <2>2 DEF Clean, CutOff
  <2>5. IndexInv'
    BY <2>4 DEF IndexInv
  <2> QED BY <2>3, <2>5 DEF SiteInv
<1> QED BY <1>2, <1>3, <1>4

LEMMA SiteStep == SiteInv /\ [SiteNext]_siteVars => SiteInv'
<1> SUFFICES ASSUME SiteInv, [SiteNext]_siteVars PROVE SiteInv'
  OBVIOUS
<1>1. CASE UNCHANGED siteVars
  <2>1. UNCHANGED << run_files, recorded, index, listed, writing, next_write, build >>
    BY <1>1 DEF siteVars, fileVars
  <2>2. SiteTypes' /\ StoredInv'
    BY <2>1 DEF SiteInv, SiteTypes, StoredInv, PathOf, CommitOf
  <2>3. IndexInv'
    BY <2>1 DEF SiteInv, IndexInv, IndexRight, EntryRight, Clean, CutOff, Listed, Readable,
                PathOf, CommitOf
  <2> QED BY <2>2, <2>3 DEF SiteInv
<1> QED BY <1>1, StartStep, CommitStep, WriteRunStep, IndexStep, HtmlStep, FailsStep, DiesStep DEF SiteNext

LEMMA SiteImplies == SiteInv => SiteSound
<1> SUFFICES ASSUME SiteInv PROVE SiteSound
  OBVIOUS
<1>1. \A p \in Paths : run_files[p] \in Unreadable \cup {recorded[p]}
  BY DEF SiteInv, StoredInv
<1>2. Whole => Clean
  BY DEF Whole, Clean, CutOff
<1>3. Whole /\ index \notin Unreadable => listed \subseteq Listed(FetchedRuns)
  BY <1>2 DEF SiteInv, IndexInv, IndexRight, FetchedRuns
<1>4. Whole /\ next_write = "html" => PathOf \in Listed(FetchedRuns)
  BY <1>2 DEF SiteInv, IndexInv, IndexRight, FetchedRuns
<1>5. ASSUME Whole, NEW commits, NEW filter
      PROVE  DrawnRight(chartPoints(commits, filter), pointsForDisplay(commits, filter),
                        filter)
  <2> DEFINE all == chartPoints(commits, filter)
             points == pointsForDisplay(commits, filter)
             n == Len(all)
             first == IF n > CHART_LIMIT THEN n - CHART_LIMIT + 1 ELSE 1
  <2>1. /\ FetchedRuns \in Seq(Entries)
        /\ \A k \in 1..Len(FetchedRuns) : EntryRight(FetchedRuns[k])
    <3>1. CASE index \in Unreadable
      BY <3>1, EmptySeq, LenProperties DEF FetchedRuns
    <3>2. CASE index \notin Unreadable
      BY <1>2, <1>5, <3>2 DEF SiteInv, IndexInv, IndexRight, FetchedRuns
    <3> QED BY <3>1, <3>2
  <2>2. /\ n \in Nat /\ DOMAIN all = 1..n
        /\ \A i \in 1..n :
             /\ \E k \in 1..Len(FetchedRuns) : all[i].run = FetchedRuns[k]
             /\ metricRecord(all[i].run, filter) # << >>
             /\ all[i].value = numeric(metricRecord(all[i].run, filter)[1].value)
        /\ \A i, j \in 1..n : i < j => all[i].run.at <= all[j].run.at
    BY <2>1, ChartIs
  <2> HIDE DEF all
  <2>3. ASSUME NEW i \in 1..n
        PROVE  /\ FirstValue(all[i].run.path, filter) = {all[i].value}
               /\ recorded[all[i].run.path].at = all[i].run.at
               /\ all[i].run.at \in Int /\ all[i].value \in Int
    <3>1. EntryRight(all[i].run)
      BY <2>1, <2>2
    <3> DEFINE run == all[i].run
               d == recorded[run.path]
    <3>2. d \in Documents /\ run.metrics = d.results /\ run.at = d.at
      <4>1. d \in Documents /\ run = index_entry(run.path, d)
        BY <3>1 DEF EntryRight
      <4>2. \A path : index_entry(path, d).metrics = d.results /\ index_entry(path, d).at = d.at
        BY DEF index_entry
      <4> HIDE DEF d, run
      <4> QED BY <4>1, <4>2
    <3>3. FirstValue(run.path, filter) = {numeric(metricRecord(run, filter)[1].value)}
      BY <2>2, <3>2 DEF FirstValue, metricRecord
    <3>4. run.at \in Int
      BY <3>2, SiteAssumption DEF Documents
    <3>5. numeric(metricRecord(run, filter)[1].value) \in Int
      <4> DEFINE M == [transport : Transports, value : Int \cup {NoMetric}]
                 F == { record \in ToSet(run.metrics) : OfTransport(record, filter) }
                 m == metricRecord(run, filter)
      <4>1. run.metrics \in Seq(M)
        BY <3>2, SiteAssumption DEF Documents
      <4>2. m = Kept(run.metrics, F) /\ m # << >>
        BY <2>2 DEF metricRecord, Matching
      <4> HIDE DEF M, F, m, run
      <4>3. m \in Seq(M)
        BY <4>1, <4>2, KeptIn
      <4>4. 1 \in 1..Len(m) /\ m[1] \in M
        BY <4>2, <4>3, EmptySeq, LenProperties
      <4>5. m[1].value \in Int \cup {NoMetric}
        BY <4>4 DEF M
      <4> QED BY <4>5 DEF numeric, m
    <3> QED BY <2>2, <3>2, <3>3, <3>4, <3>5
  <2>4. ASSUME NEW i \in 1..n, NEW j \in 1..n, i <= j PROVE all[i].run.at <= all[j].run.at
    <3>1. CASE i = j
      BY <2>3, <3>1
    <3>2. CASE i < j
      BY <2>2, <3>2
    <3> QED BY <2>2, <2>4, <3>1, <3>2
  <2> HIDE DEF n
  <2>5. /\ first \in 1..n + 1 /\ Len(points) = n - first + 1 /\ DOMAIN points = 1..n - first + 1
        /\ \A i \in 1..n - first + 1 : points[i] = all[i + first - 1]
    <3>1. first \in 1..n + 1
      BY <2>2, SiteAssumption
    <3>2. points = SubSeq(all, first, n)
      BY DEF pointsForDisplay, all, n
    <3> DEFINE S == { all[k] : k \in 1..n }
    <3>3. \A k \in first..n : all[k] \in S
      BY <2>2, <3>1
    <3> HIDE DEF S, first, points
    <3>4. /\ points \in Seq(S) /\ Len(points) = IF first <= n THEN n - first + 1 ELSE 0
          /\ \A i \in 1..n - first + 1 : points[i] = all[first + i - 1]
      BY <2>2, <3>1, <3>2, <3>3, SubSeqProperties
    <3>5. DOMAIN points = 1..Len(points)
      BY <3>4, LenProperties
    <3>6. n - first + 1 \in Nat /\ Len(points) = n - first + 1
      BY <2>2, <3>1, <3>4
    <3>7. ASSUME NEW i \in 1..n - first + 1 PROVE points[i] = all[i + first - 1]
      <4>1. first + i - 1 = i + first - 1
        BY <3>1, <3>6
      <4> QED BY <3>4, <4>1
    <3> QED BY <3>1, <3>5, <3>6, <3>7
  <2> HIDE DEF points, first
  <2> SUFFICES ASSUME NEW i \in DOMAIN points
               PROVE  /\ FirstValue(points[i].run.path, filter) = {points[i].value}
                      /\ \A q \in Drawn(all) \ Drawn(points) : recorded[q].at <= points[i].run.at
                      /\ deltaText(points, i) # "neutral" =>
                           /\ recorded[points[i - 1].run.path].at <= points[i].run.at
                           /\ \A q \in Drawn(all) :
                                ~(recorded[points[i - 1].run.path].at < recorded[q].at
                                  /\ recorded[q].at < points[i].run.at)
                           /\ (deltaText(points, i) = "good")
                                <=> FirstValue(points[i - 1].run.path, filter) # {points[i].value}
                                    /\ \A v \in FirstValue(points[i - 1].run.path, filter) :
                                         v < points[i].value
    BY DEF all, points, DrawnRight
  <2> DEFINE m == i + first - 1
  <2>6. i \in Nat /\ i >= 1 /\ m \in 1..n /\ points[i] = all[m] /\ first \in Nat /\ first >= 1
    BY <2>2, <2>5
  <2>7. FirstValue(points[i].run.path, filter) = {points[i].value}
    BY <2>3, <2>6
  <2>8. ASSUME NEW q \in Drawn(all)
        PROVE  \E k \in 1..n : q = all[k].run.path /\ recorded[q].at = all[k].run.at
    BY <2>2, <2>3 DEF Drawn
  <2>9. ASSUME NEW q \in Drawn(all) \ Drawn(points) PROVE recorded[q].at <= points[i].run.at
    <3>1. PICK k \in 1..n : q = all[k].run.path /\ recorded[q].at = all[k].run.at
      BY <2>8
    <3>2. k < first
      <4>1. ASSUME ~(k < first) PROVE FALSE
        <5>1. k - first + 1 \in 1..n - first + 1 /\ (k - first + 1) + first - 1 = k
          BY <2>2, <2>6, <4>1
        <5>2. points[k - first + 1] = all[k] /\ k - first + 1 \in DOMAIN points
          BY <2>5, <5>1
        <5> QED BY <3>1, <5>2 DEF Drawn
      <4> QED BY <4>1
    <3>3. k <= m
      BY <2>2, <2>6, <3>2
    <3> QED BY <2>4, <2>6, <3>1, <3>3
  <2>10. ASSUME deltaText(points, i) # "neutral"
         PROVE  /\ recorded[points[i - 1].run.path].at <= points[i].run.at
                /\ \A q \in Drawn(all) :
                     ~(recorded[points[i - 1].run.path].at < recorded[q].at
                       /\ recorded[q].at < points[i].run.at)
                /\ (deltaText(points, i) = "good")
                     <=> FirstValue(points[i - 1].run.path, filter) # {points[i].value}
                         /\ \A v \in FirstValue(points[i - 1].run.path, filter) :
                              v < points[i].value
    <3>1. i # 1 /\ points[i - 1].value # points[i].value
      BY <2>10 DEF deltaText
    <3>2. /\ (deltaText(points, i) = "good") <=> points[i].value > points[i - 1].value
      BY <2>10, <3>1 DEF deltaText
    <3>3. m - 1 \in 1..n /\ points[i - 1] = all[m - 1]
      <4>0. n \in Nat /\ first \in Nat /\ first >= 1 /\ i \in Nat /\ i > 1 /\ m <= n
        BY <2>2, <2>6, <3>1
      <4>1. i \in 1..n - first + 1
        BY <2>5
      <4>2. i - 1 \in 1..n - first + 1 /\ (i - 1) + first - 1 = m - 1 /\ m - 1 \in 1..n
        BY <4>0, <4>1
      <4>3. points[i - 1] = all[(i - 1) + first - 1]
        BY <2>5, <4>2
      <4> QED BY <4>2, <4>3
    <3> HIDE DEF m
    <3>4. /\ FirstValue(points[i - 1].run.path, filter) = {points[i - 1].value}
          /\ recorded[points[i - 1].run.path].at = all[m - 1].run.at
          /\ points[i - 1].value \in Int /\ points[i].value \in Int
          /\ all[m - 1].run.at \in Int /\ points[i].run.at = all[m].run.at /\ all[m].run.at \in Int
      BY <2>3, <2>6, <3>3
    <3>5. all[m - 1].run.at <= all[m].run.at
      BY <2>2, <2>4, <2>6, <3>3
    <3>6. ASSUME NEW q \in Drawn(all)
          PROVE  ~(all[m - 1].run.at < recorded[q].at /\ recorded[q].at < all[m].run.at)
      <4>1. PICK k \in 1..n : q = all[k].run.path /\ recorded[q].at = all[k].run.at
        BY <2>8
      <4>2. all[k].run.at \in Int
        BY <2>3
      <4>3. CASE k <= m - 1
        BY <2>4, <3>3, <3>4, <4>1, <4>2, <4>3
      <4>4. CASE m <= k
        BY <2>4, <2>6, <3>4, <4>1, <4>2, <4>4
      <4> QED BY <2>2, <2>6, <4>3, <4>4
    <3>7. /\ FirstValue(points[i - 1].run.path, filter) # {points[i].value}
             /\ (\A v \in FirstValue(points[i - 1].run.path, filter) : v < points[i].value)
          <=> points[i - 1].value < points[i].value
      BY <3>1, <3>4
    <3> QED BY <3>2, <3>4, <3>5, <3>6, <3>7
  <2> QED BY <2>7, <2>9, <2>10
<1> QED BY <1>1, <1>3, <1>4, <1>5 DEF SiteSound

(* For any builds that die anywhere, recorded runs stay, are listed as long *)
(* as no file is cut off, and the page draws recorded values in their order *)
THEOREM SiteIsSound == SiteSpec => []SiteSound
BY SiteStart, SiteStep, SiteImplies, PTL DEF SiteSpec
=============================================================================
