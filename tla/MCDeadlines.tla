---------------------------- MODULE MCDeadlines ----------------------------
(***************************************************************************)
(* Three models that share no state, of what time must bring about: the    *)
(* watchdog thread, a writer that is asked for the absence of its readers  *)
(* and a process case of the benchmark.  The initial state chooses which   *)
(* one moves; the others stay where they begin.                            *)
(***************************************************************************)
EXTENDS Watchdog, WriterWatch, BenchProtocol, TLC

CONSTANTS r1, r2

(* Two readers with different grace periods, so that one deadline is the   *)
(* nearest while another one is set behind the watchdog's back             *)
MCTimeout == r1 :> 1 @@ r2 :> 2

VARIABLE part

deadlineVars == << part, vars, writerVars, benchVars >>

DeadlinesInit ==
  /\ part \in {"watchdog", "writer", "bench"}
  /\ Init /\ WriterInit
  /\ IF part = "bench" THEN BenchInit ELSE shm = FALSE /\ BenchInit

DeadlinesNext ==
  /\ UNCHANGED part
  /\ \/ part = "watchdog" /\ Next /\ UNCHANGED << writerVars, benchVars >>
     \/ part = "writer" /\ WriterNext /\ UNCHANGED << vars, benchVars >>
     \/ part = "bench" /\ BenchNext /\ UNCHANGED << vars, writerVars >>

(* The fairness of each model while it is the one that moves *)
Moves(model) == part = model

WatchdogFairness ==
  /\ WF_vars(Moves("watchdog") /\ Tick)
  /\ WF_vars(Moves("watchdog") /\ ScanBegin)
  /\ WF_vars(Moves("watchdog") /\ ScanEnd)
  /\ WF_vars(Moves("watchdog") /\ (Wake \/ WakePanics))
  /\ WF_vars(Moves("watchdog") /\ WaitForNext)
  /\ WF_vars(Moves("watchdog") /\ WaitTimesOut)
  /\ \A r \in Readers :
       /\ WF_vars(Moves("watchdog") /\ ScanEntry(r))
       /\ WF_vars(Moves("watchdog") /\ Mark(r))
       /\ WF_vars(Moves("watchdog") /\ Register(r))
       /\ WF_vars(Moves("watchdog") /\ Reschedule(r))
       /\ WF_vars(Moves("watchdog") /\ NotifyOne(r))

PollerFairness ==
  /\ WF_writerVars(Moves("writer") /\ TimePasses)
  /\ WF_writerVars(Moves("writer") /\ UpdateWatch)
  /\ \A c \in Callers : WF_writerVars(Moves("writer") /\ Swap(c))

ProcessFairness ==
  /\ WF_benchVars(Moves("bench") /\ RunnerStep)
  /\ WF_benchVars(Moves("bench") /\ Runner(TRUE))
  /\ WF_benchVars(Moves("bench") /\ RoudiStopped(TRUE))
  /\ WF_benchVars(Moves("bench") /\ ReceiveTimesOut)
  /\ \A c \in Children :
       /\ WF_benchVars(Moves("bench") /\ ChildStep(c))
       /\ WF_benchVars(Moves("bench") /\ MatchTimesOut(c))

DeadlinesSpec ==
  /\ DeadlinesInit /\ [][DeadlinesNext]_deadlineVars
  /\ WatchdogFairness /\ PollerFairness /\ ProcessFairness
=============================================================================
