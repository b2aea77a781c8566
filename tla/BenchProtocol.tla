--------------------------- MODULE BenchProtocol ---------------------------
(***************************************************************************)
(* One process case of the benchmark (bench/src/bin/runner.rs, publisher.rs*)
(* and subscriber.rs over bench/src/lib.rs).  The runner spawns a          *)
(* subscriber and a publisher, waits until both are READY and MATCHED,     *)
(* STARTs them, collects RESULT and DONE and STOPs the publisher, which    *)
(* keeps its writer until then.  Control lines go through pipes, samples   *)
(* through DDS.  Anything may fail: a file, a spawn, a process, a message; *)
(* any deadline may pass.                                                  *)
(***************************************************************************)
EXTENDS Naturals, Sequences, FiniteSets, Functions

CONSTANTS Total,      \* warmup and measured messages of the case
          Invalid,    \* a sample without data: the writer is gone
          MaxFaults   \* bound on what goes wrong in one run

ASSUME BenchAssumption ==
  Total \in Nat \ {0} /\ MaxFaults \in Nat /\ Invalid \notin Nat

Children == {"subscriber", "publisher"}
Messages == 0..Total - 1

VARIABLES
  shm,        \* the case uses shared memory and needs RouDi
  stage,         \* where the runner stands
  status,     \* of the record, or what run_children returns so far
  files,      \* temporary files that exist
  proc,       \* "none", "run", "ok" or "fail" (exit status)
  reaped,     \* processes that were waited for
  startup_failed,  \* RouDi's output was fatal
  pos,        \* where each child stands
  stdin,      \* stdin[c]: control lines the child has not read
  lines,      \* lines[c]: lines of the child the runner has not read
  handshake,  \* the lines that counted so far
  result,     \* status of the RESULT received, or "none"
  messages_sent, \* DONE was received
  met,        \* children whose listener saw the other endpoint
  written,    \* messages written
  network,    \* samples on their way
  cache,      \* samples in the reader's cache
  taken,      \* messages taken by the subscriber, in order
  faults,     \* how much went wrong
  late        \* deadlines that passed

runnerVars == << stage, status, files, handshake, result, messages_sent >>
processVars == << proc, reaped, startup_failed >>
childVars == << pos, stdin, lines >>
ddsVars == << met, written, network, cache, taken >>
faultVars == << faults, late >>
benchVars == << shm, runnerVars, processVars, childVars, ddsVars, faultVars >>

BenchInit ==
  /\ shm \in BOOLEAN
  /\ stage = "config" /\ status = "none" /\ files = {}
  /\ handshake = {} /\ result = "none" /\ messages_sent = FALSE
  /\ proc = [p \in Children \cup {"roudi"} |-> "none"]
  /\ reaped = {} /\ startup_failed = FALSE
  /\ pos = [c \in Children |-> "create"]
  /\ stdin = [c \in Children |-> << >>]
  /\ lines = [c \in Children |-> << >>]
  /\ met = {} /\ written = 0 /\ network = << >> /\ cache = << >>
  /\ taken = << >>
  /\ faults = 0 /\ late = {}

---------------------------------------------------------------------------
Running(p) == proc[p] = "run"

Fault == faults < MaxFaults /\ faults' = faults + 1 /\ UNCHANGED late

NoFault == UNCHANGED faultVars

Passes(deadline) == late' = late \cup {deadline} /\ UNCHANGED faults

RunnerGoes(from, to) == stage = from /\ stage' = to

(* run_children returns: its ChildStreams are dropped *)
Returns(from, outcome) ==
  RunnerGoes(from, "dropPublisher") /\ status' = outcome

(* kill, if it still runs, and wait *)
Terminates(p) ==
  /\ proc' = IF Running(p) THEN [proc EXCEPT ![p] = "fail"] ELSE proc
  /\ reaped' = IF proc[p] = "none" THEN reaped ELSE reaped \cup {p}

---------------------------------------------------------------------------
(* run_process_case: the configuration, RouDi, the children, the cleanup *)

(* write_temp_file fails: before the file is there, or with a part written, *)
(* which it leaves behind                                                   *)
WriteConfig ==
  /\ UNCHANGED << shm, handshake, result, messages_sent, processVars,
                  childVars, ddsVars >>
  /\ \/ /\ RunnerGoes("config", IF shm THEN "roudi" ELSE "spawnSubscriber")
        /\ files' = files \cup {"xml"}
        /\ NoFault /\ UNCHANGED status
     \/ /\ RunnerGoes("config", "record")
        /\ status' = "error"
        /\ files' \in {files, files \cup {"partial"}}
        /\ Fault

(* start_roudi: its configuration cannot be written or it is not installed; *)
(* in the second case the file it was given stays behind                    *)
StartRoudiFails ==
  /\ RunnerGoes("roudi", "record")
  /\ status' = "error"
  /\ files' \in { (files \ {"xml"}) \cup rest : rest \in {{}, {"partial"}, {"toml"}} }
  /\ Fault
  /\ UNCHANGED << shm, handshake, result, messages_sent, processVars,
                  childVars, ddsVars >>

StartRoudi ==
  /\ RunnerGoes("roudi", "startup")
  /\ files' = files \cup {"toml"}
  /\ proc' = [proc EXCEPT !["roudi"] = "run"]
  /\ UNCHANGED << shm, status, handshake, result, messages_sent, reaped,
                  startup_failed, childVars, ddsVars, faultVars >>

(* watch_roudi_output *)
RoudiComplains ==
  /\ stage = "startup" /\ Running("roudi") /\ ~startup_failed
  /\ startup_failed' = TRUE
  /\ Fault
  /\ UNCHANGED << shm, runnerVars, proc, reaped, childVars, ddsVars >>

(* A second after it was spawned *)
RoudiStarted ==
  /\ ~startup_failed /\ Running("roudi")
  /\ RunnerGoes("startup", "spawnSubscriber")
  /\ UNCHANGED << shm, status, files, handshake, result, messages_sent,
                  processVars, childVars, ddsVars, faultVars >>

RoudiStartupFails ==
  /\ startup_failed \/ ~Running("roudi")
  /\ RunnerGoes("startup", "record")
  /\ status' = "error"
  /\ Terminates("roudi")
  /\ files' = {}   \* its own, and run_process_case removes the other
  /\ UNCHANGED << shm, handshake, result, messages_sent, startup_failed,
                  childVars, ddsVars, faultVars >>

(* stop_roudi: SIGINT *)
Interrupt ==
  /\ RunnerGoes("stopRoudi",
                IF proc["roudi"] = "none" THEN "cleanup" ELSE "roudiEnds")
  /\ UNCHANGED << shm, status, files, handshake, result, messages_sent,
                  processVars, childVars, ddsVars, faultVars >>

RoudiObeys ==
  /\ stage = "roudiEnds" /\ Running("roudi")
  /\ proc' = [proc EXCEPT !["roudi"] = "ok"]
  /\ UNCHANGED << shm, runnerVars, reaped, startup_failed, childVars, ddsVars,
                  faultVars >>

(* try_wait sees it gone, or five seconds are over *)
RoudiStopped(expired) ==
  /\ expired \/ ~Running("roudi")
  /\ RunnerGoes("roudiEnds", "cleanup")
  /\ Terminates("roudi")
  /\ files' = files \ {"toml"}
  /\ IF expired THEN Passes("roudi") ELSE NoFault
  /\ UNCHANGED << shm, status, handshake, result, messages_sent,
                  startup_failed, childVars, ddsVars >>

Cleanup ==
  /\ RunnerGoes("cleanup", "record")
  /\ files' = files \ {"xml"}
  /\ UNCHANGED << shm, status, handshake, result, messages_sent, processVars,
                  childVars, ddsVars, faultVars >>

(* main: an error becomes a record, too.  If the output cannot be written    *)
(* main returns that error, with no record or a part of its line.            *)
WriteRecord ==
  /\ \/ RunnerGoes("record", "done") /\ NoFault
     \/ RunnerGoes("record", "unrecorded") /\ Fault
  /\ UNCHANGED << shm, status, files, handshake, result, messages_sent,
                  processVars, childVars, ddsVars >>

---------------------------------------------------------------------------
(* run_children *)

SpawnAt(c) == IF c = "subscriber" THEN "spawnSubscriber" ELSE "spawnPublisher"

Spawn(c) ==
  /\ RunnerGoes(SpawnAt(c),
                IF c = "subscriber" THEN "spawnPublisher" ELSE "handshake")
  /\ proc' = [proc EXCEPT ![c] = "run"]
  /\ UNCHANGED << shm, status, files, handshake, result, messages_sent, reaped,
                  startup_failed, childVars, ddsVars, faultVars >>

SpawnFails(c) ==
  /\ Returns(SpawnAt(c), "error")
  /\ Fault
  /\ UNCHANGED << shm, files, handshake, result, messages_sent, processVars,
                  childVars, ddsVars >>

(* try_recv: a dead child's lines are still there *)
Gone(c) == lines[c] = << >> /\ ~Running(c)
NewLine(c) == { lines[c][i] : i \in DOMAIN lines[c] \cap {1} }
Read(c) == IF lines[c] = << >> THEN << >> ELSE Tail(lines[c])
ReadBoth == lines' = [c \in Children |-> Read(c)]

(* An iteration of the handshake loop, or what ends it *)
HandshakeRound(expired) ==
  LET agreed == handshake \cup
        UNION { NewLine(c) \X {c} : c \in Children } IN
  /\ \A c \in Children : ~Gone(c)
  /\ ReadBoth
  /\ handshake' = agreed
  /\ IF expired
     THEN Returns("handshake", "error") /\ Passes("handshake")
     ELSE /\ RunnerGoes("handshake",
               IF Cardinality(agreed) = 4 THEN "startSubscriber"
               ELSE "handshake")
          /\ NoFault /\ UNCHANGED status
  /\ UNCHANGED << shm, files, result, messages_sent, processVars, pos, stdin,
                  ddsVars >>

HandshakeBroken ==
  /\ \E c \in Children : Gone(c)
  /\ Returns("handshake", "error")
  /\ UNCHANGED << shm, files, handshake, result, messages_sent, processVars,
                  childVars, ddsVars, faultVars >>

(* write_all fails with a broken pipe when the child is gone *)
Tells(c, line, from, to) ==
  /\ IF Running(c)
     THEN /\ RunnerGoes(from, to)
          /\ stdin' = [stdin EXCEPT ![c] = Append(@, line)]
          /\ UNCHANGED status
     ELSE Returns(from, "error") /\ UNCHANGED stdin
  /\ UNCHANGED << shm, files, handshake, result, messages_sent, processVars,
                  pos, lines, ddsVars, faultVars >>

TellStart ==
  \/ Tells("subscriber", "START", "startSubscriber", "startPublisher")
  \/ Tells("publisher", "START", "startPublisher", "results")

(* Mutant of ResultRound: its deadline is not looked at *)
ResultRoundPatient(expired) ==
  LET results == { l \in NewLine("subscriber") : l \in {"ok", "error"} } IN
  /\ ReadBoth
  /\ result' = IF results = {} THEN result ELSE CHOOSE l \in results : TRUE
  /\ messages_sent' = (messages_sent \/ "DONE" \in NewLine("publisher"))
  /\ RunnerGoes("results", IF result' # "none" /\ messages_sent'
                           THEN "stop" ELSE "results")
  /\ UNCHANGED << shm, status, files, handshake, processVars, pos, stdin,
                  ddsVars, faultVars >>

(* An iteration of the result loop: a child that is gone is not noticed *)
ResultRound(expired) ==
  LET results == { l \in NewLine("subscriber") : l \in {"ok", "error"} } IN
  /\ ReadBoth
  /\ result' = IF results = {} THEN result ELSE CHOOSE l \in results : TRUE
  /\ messages_sent' = (messages_sent \/ "DONE" \in NewLine("publisher"))
  /\ IF expired
     THEN Returns("results", "error") /\ Passes("results")
     ELSE /\ RunnerGoes("results", IF result' # "none" /\ messages_sent'
                                   THEN "stop" ELSE "results")
          /\ NoFault /\ UNCHANGED status
  /\ UNCHANGED << shm, files, handshake, processVars, pos, stdin, ddsVars >>

TellStop == Tells("publisher", "STOP", "stop", "waitSubscriber")

WaitSubscriber ==
  /\ ~Running("subscriber")
  /\ RunnerGoes("waitSubscriber", "waitPublisher")
  /\ reaped' = reaped \cup {"subscriber"}
  /\ UNCHANGED << shm, status, files, handshake, result, messages_sent, proc,
                  startup_failed, childVars, ddsVars, faultVars >>

WaitPublisher ==
  /\ ~Running("publisher")
  /\ Returns("waitPublisher",
             IF \A c \in Children : proc[c] = "ok" THEN result ELSE "error")
  /\ reaped' = reaped \cup {"publisher"}
  /\ UNCHANGED << shm, files, handshake, result, messages_sent, proc,
                  startup_failed, childVars, ddsVars, faultVars >>

(* Mutant of DropChild: ended without kill and wait *)
DropChildDetaches(c, from, to) ==
  /\ RunnerGoes(from, to)
  /\ UNCHANGED << shm, status, files, handshake, result, messages_sent, proc,
                  reaped, startup_failed, childVars, ddsVars, faultVars >>

(* Drop for ChildStream *)
DropChild(c, from, to) ==
  /\ RunnerGoes(from, to)
  /\ Terminates(c)
  /\ UNCHANGED << shm, status, files, handshake, result, messages_sent,
                  startup_failed, childVars, ddsVars, faultVars >>

DropChildren ==
  \/ DropChild("publisher", "dropPublisher", "dropSubscriber")
  \/ DropChild("subscriber", "dropSubscriber", "stopRoudi")

---------------------------------------------------------------------------
(* The children *)

ChildGoes(c, from, to) ==
  /\ Running(c) /\ pos[c] = from
  /\ pos' = [pos EXCEPT ![c] = to]

(* Its endpoint goes with it; what was not delivered is lost *)
Ends(c, how) ==
  /\ proc' = [proc EXCEPT ![c] = how]
  /\ network' = IF c = "publisher" /\ pos[c] # "create"
                THEN << Invalid >> ELSE network
  /\ UNCHANGED << reaped, startup_failed, met, written, cache, taken >>

Stays == UNCHANGED << processVars, ddsVars >>

(* emit_control: fails when nobody holds the other end any more *)
Emits(c, line) ==
  /\ stage # "killed"
  /\ lines' = [lines EXCEPT ![c] = Append(@, line)]

(* The participant, the topic and the endpoint, then READY *)
CreateEndpoint(c) ==
  /\ ChildGoes(c, "create", "match")
  /\ Emits(c, "READY")
  /\ Stays
  /\ UNCHANGED << shm, runnerVars, stdin, faultVars >>

(* wait_for_match, then MATCHED *)
SeesMatch(c) ==
  /\ c \in met
  /\ ChildGoes(c, "match", "start")
  /\ Emits(c, "MATCHED")
  /\ Stays
  /\ UNCHANGED << shm, runnerVars, stdin, faultVars >>

MatchTimesOut(c) ==
  /\ c \notin met
  /\ ChildGoes(c, "match", "exit")
  /\ Ends(c, "fail")
  /\ Passes(c)
  /\ UNCHANGED << shm, runnerVars, stdin, lines >>

(* wait_for_control *)
Hears(c, line, from, to) ==
  /\ stdin[c] # << >> /\ Head(stdin[c]) = line
  /\ ChildGoes(c, from, to)
  /\ stdin' = [stdin EXCEPT ![c] = Tail(@)]
  /\ UNCHANGED << shm, runnerVars, lines, faultVars >>

Start(c) ==
  /\ Hears(c, "START", "start", IF c = "publisher" THEN "write" ELSE "receive")
  /\ Stays

(* The runner died: no line comes, none can be emitted *)
Orphaned(c) ==
  /\ stage = "killed"
  /\ \/ pos[c] \in {"start", "stop"} /\ stdin[c] = << >>
     \/ pos[c] \in {"create", "done", "result"}
     \/ pos[c] = "match" /\ c \in met
  /\ ChildGoes(c, pos[c], "exit")
  /\ Ends(c, "fail")
  /\ UNCHANGED << shm, runnerVars, stdin, lines, faultVars >>

(* writer.write; only a writer that matched has somebody to send to *)
Write ==
  /\ ChildGoes("publisher", "write",
               IF written + 1 = Total THEN "done" ELSE "write")
  /\ written' = written + 1
  /\ network' = IF "publisher" \in met THEN Append(network, written)
                ELSE network
  /\ UNCHANGED << shm, runnerVars, processVars, stdin, lines, met, cache,
                  taken, faultVars >>

(* Mutant of Done: the publisher does not wait for STOP *)
DoneAndGone ==
  /\ ChildGoes("publisher", "done", "exit")
  /\ Emits("publisher", "DONE")
  /\ Ends("publisher", "ok")
  /\ UNCHANGED << shm, runnerVars, stdin, faultVars >>

Done ==
  /\ ChildGoes("publisher", "done", "stop")
  /\ Emits("publisher", "DONE")
  /\ Stays
  /\ UNCHANGED << shm, runnerVars, stdin, faultVars >>

Stop ==
  /\ Hears("publisher", "STOP", "stop", "leaving")
  /\ Stays

IsValid(sample) == sample # Invalid

(* The iterator of a buffer's valid samples *)
ValidOf(samples) ==
  LET kept == { i \in DOMAIN samples : IsValid(samples[i]) } IN
  [ n \in 1..Cardinality(kept) |->
      samples[CHOOSE i \in kept : Cardinality({ j \in kept : j <= i }) = n] ]

(* take_now of the whole cache, judged by its first sample; iter_items passes *)
(* over the samples without data behind it                                    *)
Take ==
  /\ cache # << >>
  /\ LET all == IF IsValid(Head(cache)) THEN taken \o ValidOf(cache) ELSE taken IN
     /\ ChildGoes("subscriber", "receive",
                  IF Range(all) = Messages THEN "result" ELSE "receive")
     /\ taken' = all
  /\ cache' = << >>
  /\ UNCHANGED << shm, runnerVars, processVars, stdin, lines, met, written,
                  network, faultVars >>

ReceiveTimesOut ==
  /\ ChildGoes("subscriber", "receive", "result")
  /\ Passes("receive")
  /\ Stays
  /\ UNCHANGED << shm, runnerVars, stdin, lines >>

duplicate == Len(taken) - Cardinality(Range(taken))
out_of_order == Cardinality({ i \in 2..Len(taken) : taken[i] < taken[i - 1] })

(* complete; payloads arrive as they were written, on one clock *)
Verdict ==
  IF Range(taken) = Messages /\ duplicate = 0 /\ out_of_order = 0
  THEN "ok" ELSE "error"

(* The RESULT line, with the status of its record, is the last *)
Report ==
  /\ ChildGoes("subscriber", "result", "leaving")
  /\ Emits("subscriber", Verdict)
  /\ Stays
  /\ UNCHANGED << shm, runnerVars, stdin, faultVars >>

(* main returns: the endpoint and the participant are dropped on the way *)
Leave(c) ==
  /\ ChildGoes(c, "leaving", "exit")
  /\ Ends(c, "ok")
  /\ UNCHANGED << shm, runnerVars, stdin, lines, faultVars >>

---------------------------------------------------------------------------
(* DDS *)

(* Discovery, and matched_listener *)
Pairs(c) ==
  /\ c \notin met
  /\ \A d \in Children : Running(d) /\ pos[d] # "create"
  /\ met' = met \cup {c}
  /\ UNCHANGED << shm, runnerVars, processVars, childVars, written, network,
                  cache, taken, faultVars >>

(* KEEP_LAST as deep as there are messages *)
Cached(sample) ==
  LET all == Append(cache, sample) IN
  IF Len(all) > Total THEN Tail(all) ELSE all

Arrives(sample) ==
  cache' = IF "subscriber" \in met /\ Running("subscriber")
           THEN Cached(sample) ELSE cache

Deliver ==
  /\ network # << >>
  /\ network' = Tail(network)
  /\ Arrives(Head(network))
  /\ UNCHANGED << shm, runnerVars, processVars, childVars, met, written,
                  taken, faultVars >>

(* What the benchmark is there to notice *)
Disturb ==
  /\ network # << >>
  /\ Fault
  /\ \/ network' = Tail(network) /\ UNCHANGED cache                \* lost
     \/ UNCHANGED network /\ Arrives(Head(network))                \* duplicated
     \/ /\ Len(network) > 1                                     \* overtaken
        /\ network' = << network[1] >> \o SubSeq(network, 3, Len(network))
        /\ Arrives(network[2])
  /\ UNCHANGED << shm, runnerVars, processVars, childVars, met, written,
                  taken >>

---------------------------------------------------------------------------
(* Failures *)

Crash(c) ==
  /\ ChildGoes(c, pos[c], "exit")
  /\ Fault
  /\ Ends(c, "fail")
  /\ UNCHANGED << shm, runnerVars, stdin, lines >>

RoudiCrashes ==
  /\ Running("roudi")
  /\ Fault
  /\ proc' = [proc EXCEPT !["roudi"] = "fail"]
  /\ UNCHANGED << shm, runnerVars, reaped, startup_failed, childVars, ddsVars >>

(* The runner's process ends: no destructor runs *)
RunnerKilled ==
  /\ stage \notin {"done", "unrecorded", "killed"}
  /\ stage' = "killed"
  /\ Fault
  /\ UNCHANGED << shm, status, files, handshake, result, messages_sent,
                  processVars, childVars, ddsVars >>

---------------------------------------------------------------------------
RunnerStep ==
  \/ WriteConfig \/ StartRoudi \/ StartRoudiFails \/ RoudiStarted
  \/ RoudiStartupFails \/ Interrupt \/ RoudiStopped(FALSE) \/ Cleanup
  \/ WriteRecord \/ HandshakeRound(FALSE) \/ HandshakeBroken \/ TellStart
  \/ ResultRound(FALSE) \/ TellStop \/ WaitSubscriber \/ WaitPublisher
  \/ DropChildren
  \/ \E c \in Children : Spawn(c) \/ SpawnFails(c)

ChildStep(c) ==
  \/ CreateEndpoint(c) \/ SeesMatch(c) \/ Start(c) \/ Orphaned(c) \/ Leave(c)
  \/ c = "publisher" /\ (Write \/ Done \/ Stop)
  \/ c = "subscriber" /\ (Take \/ Report)

Runner(expired) == HandshakeRound(expired) \/ ResultRound(expired)

BenchNext ==
  \/ RunnerStep
  \/ Runner(TRUE) \/ RoudiStopped(TRUE) \/ ReceiveTimesOut
  \/ RoudiComplains \/ RoudiObeys \/ RoudiCrashes \/ RunnerKilled
  \/ Deliver \/ Disturb
  \/ \E c \in Children :
       ChildStep(c) \/ MatchTimesOut(c) \/ Pairs(c) \/ Crash(c)

(* Processes run and clocks advance *)
BenchFairness ==
  /\ WF_benchVars(RunnerStep)
  /\ WF_benchVars(Runner(TRUE)) /\ WF_benchVars(RoudiStopped(TRUE))
  /\ WF_benchVars(ReceiveTimesOut)
  /\ \A c \in Children :
       WF_benchVars(ChildStep(c)) /\ WF_benchVars(MatchTimesOut(c))

BenchSpec == BenchInit /\ [][BenchNext]_benchVars /\ BenchFairness

---------------------------------------------------------------------------
(* A record says "ok" only of a run in which every message arrived once and *)
(* in order and both children ended well; and it does say so of every run   *)
(* in which nothing failed and no deadline passed: the handshake loses no   *)
(* message to a reader that is not there yet, and STOP keeps the writer     *)
(* until the last one was read.                                             *)
RecordTruthful ==
  stage = "done" =>
    /\ status = "ok" =>
         /\ taken = [i \in 1..Total |-> i - 1] /\ written = Total
         /\ \A c \in Children : proc[c] = "ok"
    /\ faults = 0 /\ late \subseteq {"roudi"} => status = "ok"

(* Whatever failed, the runner leaves no process running or unreaped and no *)
(* file behind, but for one it could not write to its end and for the       *)
(* configuration of a RouDi that did not start.                             *)
NothingLeftBehind ==
  stage \in {"done", "unrecorded"} =>
    /\ \A p \in DOMAIN proc : proc[p] # "none" => p \in reaped /\ ~Running(p)
    /\ files \subseteq {"partial"} \cup IF proc["roudi"] = "none" THEN {"toml"} ELSE {}

(* The runner, once it has begun, ends with a record unless that cannot be  *)
(* written or it is killed, and even then the children end by their own     *)
(* deadlines and broken pipes.  Its last two waits have no deadline: they    *)
(* end because a child that has reported, or was told to stop, leaves.      *)
EveryoneEnds ==
  /\ (stage # "config") ~> (stage \in {"done", "unrecorded", "killed"})
  /\ \A c \in Children : Running(c) ~> ~Running(c)
=============================================================================
