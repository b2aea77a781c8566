--------------------------- MODULE WriterWatch ----------------------------
(***************************************************************************)
(* A DdsWriter that watches for the absence of readers (dds_writer.rs).    *)
(* WriterBuilder::watch_reader_absence puts a MatchWatch behind the        *)
(* writer's publication-matched callback; is_reader_absent judges it and   *)
(* exchanges last_absent to report a transition once.  Several threads may *)
(* call is_reader_absent, which takes &self, while DDS runs the callback;  *)
(* set_listener takes &mut self.  No watchdog is involved: the application *)
(* polls.                                                                  *)
(***************************************************************************)
EXTENDS MatchWatch, Integers

CONSTANTS Callers,     \* threads with a reference to the writer
          MaxReaders,  \* bound: readers that match
          Grace

ASSUME WriterWatchAssumption ==
  Grace \in Nat /\ MaxReaders \in Nat /\ None \notin BOOLEAN

VARIABLES
  clock,
  matched,    \* readers that DDS has matched
  report,     \* current_count of the callback under way, or None
  hearing,    \* the entity's listener is the one that feeds the watch
  absence_watch,  \* AbsenceWatch.watch
  last,       \* AbsenceWatch.last_absent
  call,       \* call[c]: verdict of the call under way, or None
  emptySince, \* history: when the last reader left
  balance     \* history: absences reported less recoveries reported

writerVars == << clock, matched, report, hearing, absence_watch, last, call,
                 emptySince, balance >>

WriterTypeOK ==
  /\ clock \in Instant
  /\ matched \in 0..MaxReaders
  /\ report \in 0..MaxReaders \cup {None}
  /\ hearing \in BOOLEAN
  /\ absence_watch \in MatchState
  /\ last \in BOOLEAN
  /\ call \in [Callers -> BOOLEAN \cup {None}]
  /\ emptySince \in Instant
  /\ balance \in Int

(* create_with_watch; readers match afterwards *)
WriterInit ==
  /\ clock = 0 /\ matched = 0 /\ report = None /\ hearing = TRUE
  /\ absence_watch = NewAt(0) /\ last = FALSE
  /\ call = [c \in Callers |-> None]
  /\ emptySince = 0 /\ balance = 0

TimePasses ==
  /\ clock < MaxInstant
  /\ clock' = clock + 1
  /\ UNCHANGED << matched, report, hearing, absence_watch, last, call,
                  emptySince, balance >>

(* DDS matches or loses a reader and runs the callback of the listener that *)
(* the entity has; callbacks of one entity do not overlap                   *)
Match(n) ==
  /\ report = None /\ n \in {matched - 1, matched + 1} \cap 0..MaxReaders
  /\ matched' = n
  /\ report' = IF hearing THEN n ELSE None
  /\ emptySince' = IF n = 0 THEN clock ELSE emptySince
  /\ UNCHANGED << clock, hearing, absence_watch, last, call, balance >>

(* Mutant of UpdateWatch: a reader that comes back changes nothing *)
UpdateWatchLossOnly ==
  /\ report # None
  /\ absence_watch' =
       IF report = 0 THEN UpdateAt(absence_watch, report, clock) ELSE absence_watch
  /\ report' = None
  /\ UNCHANGED << clock, matched, hearing, last, call, emptySince, balance >>

(* Mutant of UpdateWatch: a reader that leaves changes nothing *)
UpdateWatchReturnOnly ==
  /\ report # None
  /\ absence_watch' =
       IF report > 0 THEN UpdateAt(absence_watch, report, clock) ELSE absence_watch
  /\ report' = None
  /\ UNCHANGED << clock, matched, hearing, last, call, emptySince, balance >>

(* The chained callback: MatchWatch::update *)
UpdateWatch ==
  /\ report # None
  /\ absence_watch' = UpdateAt(absence_watch, report, clock)
  /\ report' = None
  /\ UNCHANGED << clock, matched, hearing, last, call, emptySince, balance >>

(* is_reader_absent: the verdict, under the mutex of the watch *)
Judge(c) ==
  /\ call[c] = None
  /\ call' = [call EXCEPT ![c] = IsAbsentAt(absence_watch, Grace, clock)]
  /\ UNCHANGED << clock, matched, report, hearing, absence_watch, last,
                  emptySince, balance >>

(* Mutant of Swap: compare and store only when readers are absent *)
SwapAbsence(c) ==
  /\ call[c] # None
  /\ last' = (last \/ call[c])
  /\ balance' = balance + (IF call[c] = last THEN 0 ELSE IF call[c] THEN 1 ELSE -1)
  /\ call' = [call EXCEPT ![c] = None]
  /\ UNCHANGED << clock, matched, report, hearing, absence_watch, emptySince >>

(* is_reader_absent: the exchange of last_absent and the report *)
Swap(c) ==
  /\ call[c] # None
  /\ last' = call[c]
  /\ balance' = balance + (IF call[c] = last THEN 0 ELSE IF call[c] THEN 1 ELSE -1)
  /\ call' = [call EXCEPT ![c] = None]
  /\ UNCHANGED << clock, matched, report, hearing, absence_watch, emptySince >>

(* DdsWriter::set_listener: dds_set_listener waits for the callback under   *)
(* way and puts the caller's listener in place of the one with the watch    *)
SetListener ==
  /\ report = None /\ \A c \in Callers : call[c] = None
  /\ hearing' = FALSE
  /\ UNCHANGED << clock, matched, report, absence_watch, last, call, emptySince,
                  balance >>

WriterNext ==
  \/ TimePasses \/ UpdateWatch \/ SetListener
  \/ \E n \in 0..MaxReaders : Match(n)
  \/ \E c \in Callers : Judge(c) \/ Swap(c)

(* The clock runs, a callback and a call that have begun go on *)
WriterFairness ==
  /\ WF_writerVars(TimePasses) /\ WF_writerVars(UpdateWatch)
  /\ \A c \in Callers : WF_writerVars(Swap(c))

WriterSpec == WriterInit /\ [][WriterNext]_writerVars /\ WriterFairness

---------------------------------------------------------------------------
(* What the example of is_reader_absent relies on: a verdict of absence is  *)
(* never early, and never outlives the callback of a reader that came,      *)
(* unless set_listener has cut the watch off.                               *)
VerdictSound ==
  [][\A c \in Callers : hearing /\ report = None /\ call[c] = None =>
       (call'[c] = TRUE => matched = 0 /\ emptySince + Grace <= clock)]_writerVars

(* Each transition is reported once: whatever verdicts overtake each other, *)
(* absences and recoveries reported alternate with the exchanges.           *)
ReportsAlternate == balance = IF last THEN 1 ELSE 0

(* Readers that stay away are noticed by an application that keeps asking:  *)
(* every verdict is absence from some time on, if the deadline is one the   *)
(* platform represents.                                                     *)
Away == /\ matched = 0 /\ hearing
        /\ IsMeasuring(absence_watch) => absence_watch.since + Grace <= MaxInstant

AbsenceNoticed ==
  <>[]Away /\ []<><<\E c \in Callers : Judge(c)>>_writerVars => <>[]last
=============================================================================
