---------------------------- MODULE AsyncReader ----------------------------
(***************************************************************************)
(* Asynchronous reads (cyclonedds/src/futures.rs and the read path of      *)
(* dds_reader.rs) on top of the watchdog.                                  *)
(*                                                                         *)
(* Three kinds of threads meet in a ReaderShared: the executor that polls  *)
(* a task's future, the DDS threads that run the listener callbacks of the *)
(* reader, and the watchdog.  Their only link to a task that returned      *)
(* Pending is the AtomicWaker, which holds one Waker.  A step is one       *)
(* access to shared state; DDS never overlaps two callbacks of one reader. *)
(***************************************************************************)
EXTENDS Watchdog

CONSTANTS Tasks,      \* futures of read_async and take_async calls
          ReaderOf,   \* ReaderOf[t]: the reader that task t awaits
          Takers,     \* the tasks that take; the others read
          Capacity,   \* SampleBuffer::len of every call, never 0
          MaxValid,   \* bound: valid samples a reader's cache holds
          MaxInvalid  \* bound: invalid (dispose, unregister) samples

ASSUME AsyncReaderAssumption ==
  /\ ReaderOf \in [Tasks -> Readers]
  /\ Takers \subseteq Tasks
  /\ Capacity \in Nat \ {0}
  /\ MaxValid \in Nat /\ MaxInvalid \in Nat
  /\ None \notin Tasks

VARIABLES
  slot,      \* slot[r]: the task in ReaderShared.waker, or None
  error,     \* error[r]: pending_error is Some(RequestedDeadLineMissed)
  cache,     \* cache[r]: the samples the C reader holds
  callback,  \* callback[r]: data_available and deadline callbacks, see below
  call,      \* call[t]: where the future of t stands, or how it ended
  woken,     \* woken[t]: the executor is going to poll t
  unread,    \* history: a sample came since the last dds_read/dds_take of r
  fresh,     \* history: tasks during whose running poll a sample came
  early      \* history: readers whose running absence was marked too soon

history == << unread, fresh, early >>
readVars == << slot, error, cache, callback, call, woken, history >>
allVars == << vars, readVars >>

Outcome == {"ok", "ddsError", "missed", "noWriter", "cancelled", "panicked"}

CallStep ==
  { "idle",        \* not called yet
    "await",       \* returned Pending, or not polled yet
    "takeError",   \* polled: waker registered
    "read",        \* polled: no pending error
    "absence" }    \* polled: NoData, about to ask the watch
  \cup Outcome

(* Callbacks of r that are due or under way *)
Callback == [data : BOOLEAN,     \* data_available not called yet
             missed : BOOLEAN]   \* pending_error set, wake not called yet

Cache == [valid : 0 .. MaxValid, invalid : 0 .. MaxInvalid]

ReadTypeOK ==
  /\ slot \in [Readers -> Tasks \cup {None}]
  /\ error \in [Readers -> BOOLEAN]
  /\ cache \in [Readers -> Cache]
  /\ callback \in [Readers -> Callback]
  /\ call \in [Tasks -> CallStep]
  /\ woken \in [Tasks -> BOOLEAN]
  /\ unread \in [Readers -> BOOLEAN]
  /\ fresh \in SUBSET Tasks
  /\ early \in SUBSET Readers

ReadInit ==
  /\ Init
  /\ slot = [r \in Readers |-> None]
  /\ error = [r \in Readers |-> FALSE]
  /\ cache = [r \in Readers |-> [valid |-> 0, invalid |-> 0]]
  /\ callback = [r \in Readers |-> [data |-> FALSE, missed |-> FALSE]]
  /\ call = [t \in Tasks |-> "idle"]
  /\ woken = [t \in Tasks |-> FALSE]
  /\ unread = [r \in Readers |-> FALSE]
  /\ fresh = {}
  /\ early = {}

---------------------------------------------------------------------------
(* External: AtomicWaker and the C reader *)

(* AtomicWaker::wake takes the Waker out and wakes its task *)
WakeSlot(r) ==
  /\ slot' = [slot EXCEPT ![r] = None]
  /\ woken' = IF slot[r] = None THEN woken
              ELSE [woken EXCEPT ![slot[r]] = TRUE]

(* The C reader exists from dds_create_reader to dds_delete *)
Exists(r) == client[r] \in {"idle", "reschedule", "signal"}

(* No callback of r is running: DDS may start one *)
Quiet(r) == client[r] = "idle" /\ ~ callback[r].missed

InPoll(t) == call[t] \in {"takeError", "read", "absence"}

(* A sample enters the history cache, data_available becomes due *)
Arrive(r, kind) ==
  /\ Exists(r)
  /\ cache[r][kind] < IF kind = "valid" THEN MaxValid ELSE MaxInvalid
  /\ cache' = [cache EXCEPT ![r][kind] = @ + 1]
  /\ callback' = [callback EXCEPT ![r].data = TRUE]
  /\ unread' = [unread EXCEPT ![r] = TRUE]
  /\ fresh' = fresh \cup {t \in Tasks : ReaderOf[t] = r /\ InPoll(t)}
  /\ UNCHANGED << vars, slot, error, call, woken, early >>

(***************************************************************************)
(* The ways dds_read and dds_take fill a buffer: as many samples as fit,   *)
(* in an order that depends on the instances they belong to.  `first` is   *)
(* valid_data of the first one.                                            *)
(***************************************************************************)
Batch(c) ==
  { b \in [valid : 0 .. c.valid, invalid : 0 .. c.invalid, first : BOOLEAN] :
      LET total == c.valid + c.invalid
      IN  /\ b.valid + b.invalid = IF total < Capacity THEN total ELSE Capacity
          /\ IF b.first THEN b.valid > 0 ELSE b.invalid > 0 \/ total = 0 }

---------------------------------------------------------------------------
(* Listener callbacks (data_reader_listener) *)

(* Mutant of OnDataAvailable: the callback does not wake the future *)
OnDataAvailableSilent(r) ==
  /\ Quiet(r)
  /\ callback[r].data
  /\ callback' = [callback EXCEPT ![r].data = FALSE]
  /\ UNCHANGED << vars, slot, error, cache, call, woken, history >>

OnDataAvailable(r) ==
  /\ Quiet(r)
  /\ callback[r].data
  /\ callback' = [callback EXCEPT ![r].data = FALSE]
  /\ WakeSlot(r)
  /\ UNCHANGED << vars, error, cache, call, history >>

OnDeadlineMissed(r) ==
  /\ Quiet(r)
  /\ error' = [error EXCEPT ![r] = TRUE]
  /\ callback' = [callback EXCEPT ![r].missed = TRUE]
  /\ UNCHANGED << vars, slot, cache, call, woken, history >>

(* Mutant of DeadlineWakes: the error is stored, nobody is woken *)
DeadlineSilent(r) ==
  /\ callback[r].missed
  /\ callback' = [callback EXCEPT ![r].missed = FALSE]
  /\ UNCHANGED << vars, slot, error, cache, call, woken, history >>

DeadlineWakes(r) ==
  /\ callback[r].missed
  /\ callback' = [callback EXCEPT ![r].missed = FALSE]
  /\ WakeSlot(r)
  /\ UNCHANGED << vars, error, cache, call, history >>

OnMatched(r, count) ==
  /\ Quiet(r)
  /\ Update(r, count)
  /\ early' = IF count > 0 THEN early \ {r} ELSE early
  /\ UNCHANGED << slot, error, cache, callback, call, woken, unread, fresh >>

---------------------------------------------------------------------------
(* One poll of the future returned by futures::read *)

CallGoes(t, from, to) ==
  /\ call[t] = from
  /\ call' = [call EXCEPT ![t] = to]

(* read_async or take_async is called and awaited: the executor polls it *)
Call(t) ==
  /\ call[t] \in {"idle"} \cup Outcome
  /\ Exists(ReaderOf[t])
  /\ call' = [call EXCEPT ![t] = "await"]
  /\ woken' = [woken EXCEPT ![t] = TRUE]
  /\ UNCHANGED << vars, slot, error, cache, callback, history >>

PollRegister(t) ==
  /\ woken[t]
  /\ CallGoes(t, "await", "takeError")
  /\ woken' = [woken EXCEPT ![t] = FALSE]
  /\ slot' = [slot EXCEPT ![ReaderOf[t]] = t]
  /\ fresh' = fresh \ {t}
  /\ UNCHANGED << vars, error, cache, callback, unread, early >>

(* Mutant of PollTakeError: absence is asked before the cache is read *)
PollTakeErrorSkipsRead(t) ==
  LET r == ReaderOf[t] IN
  /\ CallGoes(t, "takeError",
              IF error[r] THEN "missed"
              ELSE IF IsAbsentAt(watch[r], Timeout[r], now) THEN "absence"
              ELSE "read")
  /\ error' = [error EXCEPT ![r] = FALSE]
  /\ UNCHANGED << vars, slot, cache, callback, woken, history >>

(* Mutant of PollTakeError: the error is read but not taken *)
PollTakeErrorKeepsIt(t) ==
  LET r == ReaderOf[t] IN
  /\ CallGoes(t, "takeError", IF error[r] THEN "missed" ELSE "read")
  /\ UNCHANGED << vars, slot, error, cache, callback, woken, history >>

PollTakeError(t) ==
  LET r == ReaderOf[t] IN
  /\ CallGoes(t, "takeError", IF error[r] THEN "missed" ELSE "read")
  /\ error' = [error EXCEPT ![r] = FALSE]
  /\ UNCHANGED << vars, slot, cache, callback, woken, history >>

(* readn_from_entity_now: samples are handed over only if the first one is *)
(* valid, but a take has removed them from the cache either way            *)
PollRead(t) ==
  LET r == ReaderOf[t] IN
  \E b \in Batch(cache[r]) :
    /\ CallGoes(t, "read", IF b.first THEN "ok" ELSE "absence")
    /\ cache' = IF t \in Takers
                THEN [cache EXCEPT ![r] = [valid |-> @.valid - b.valid,
                                           invalid |-> @.invalid - b.invalid]]
                ELSE cache
    /\ unread' = [unread EXCEPT ![r] = FALSE]
    /\ UNCHANGED << vars, slot, error, callback, woken, fresh, early >>

(* a return code below zero from the C reader *)
PollReadFails(t) ==
  /\ CallGoes(t, "read", "ddsError")
  /\ UNCHANGED << vars, slot, error, cache, callback, woken, history >>

(* Mutant of PollAbsence: asks for the deadline, which hides once marked *)
PollAbsenceByDeadline(t) ==
  LET r == ReaderOf[t]
      absent == Deadline(r) # None /\ Deadline(r) <= now
  IN
  /\ CallGoes(t, "absence", IF absent THEN "noWriter" ELSE "await")
  /\ UNCHANGED << vars, slot, error, cache, callback, woken, history >>

PollAbsence(t) ==
  LET r == ReaderOf[t]
      absent == IsAbsentAt(watch[r], Timeout[r], now)
  IN
  /\ CallGoes(t, "absence", IF absent THEN "noWriter" ELSE "await")
  /\ UNCHANGED << vars, slot, error, cache, callback, woken, history >>

(* A future that returned Pending is dropped, by select! or a timeout *)
Cancel(t) ==
  /\ CallGoes(t, "await", "cancelled")
  /\ UNCHANGED << vars, slot, error, cache, callback, woken, history >>

---------------------------------------------------------------------------
(* The watchdog and the life of a reader *)

MarkAbsence(r) ==
  /\ Mark(r)
  /\ early' = IF /\ IsMeasuring(watch[r])
                 /\ ~ IsAbsentAt(watch[r], Timeout[r], now)
              THEN early \cup {r} ELSE early
  /\ UNCHANGED << slot, error, cache, callback, call, woken, unread, fresh >>

WakeAbsence ==
  /\ Wake
  /\ WakeSlot(target)
  /\ UNCHANGED << error, cache, callback, call, history >>

(* The executor polls the woken future on the spot and the poll panics *)
WakeAbsencePanics ==
  /\ WakePanics
  /\ slot[target] # None
  /\ call[slot[target]] = "await"
  /\ call' = [call EXCEPT ![slot[target]] = "panicked"]
  /\ slot' = [slot EXCEPT ![target] = None]
  /\ UNCHANGED << error, cache, callback, woken, history >>

(* A future borrows its reader, and dds_delete waits for the callbacks *)
DropReader(r) ==
  /\ Quiet(r)
  /\ \A t \in Tasks : ReaderOf[t] = r => call[t] \in {"idle"} \cup Outcome
  /\ Drop(r)
  /\ callback' = [callback EXCEPT ![r].data = FALSE]
  /\ UNCHANGED << slot, error, cache, call, woken, history >>

(* Steps of the watchdog module that touch nothing a future sees *)
Clock == Tick /\ UNCHANGED readVars

WatchdogRuns ==
  /\ \/ ScanBegin \/ (\E r \in Readers : ScanEntry(r)) \/ ScanEnd
     \/ WaitForNext \/ WaitTimesOut
  /\ UNCHANGED readVars

WatchdogWakesForNothing == SpuriousWakeup /\ UNCHANGED readVars

NewReader(r) == Create(r) /\ UNCHANGED readVars

ClientFinishes(r) ==
  /\ Register(r) \/ Reschedule(r) \/ NotifyOne(r)
  /\ UNCHANGED readVars

Dds(r) ==
  \/ \E kind \in {"valid", "invalid"} : Arrive(r, kind)
  \/ OnDataAvailable(r) \/ OnDeadlineMissed(r) \/ DeadlineWakes(r)
  \/ \E count \in 0 .. 1 : OnMatched(r, count)

Poll(t) ==
  \/ PollRegister(t) \/ PollTakeError(t) \/ PollRead(t) \/ PollReadFails(t)
  \/ PollAbsence(t)

ReadNext ==
  \/ Clock \/ WatchdogRuns \/ WatchdogWakesForNothing
  \/ WakeAbsence \/ WakeAbsencePanics
  \/ \E r \in Readers : \/ NewReader(r) \/ ClientFinishes(r) \/ Dds(r)
                         \/ MarkAbsence(r) \/ DropReader(r)
  \/ \E t \in Tasks : Call(t) \/ Poll(t) \/ Cancel(t)

(***************************************************************************)
(* Scheduling: time passes, the watchdog thread and the executor's polls   *)
(* of woken tasks are scheduled, and DDS delivers the callbacks that are   *)
(* due.  Fairness of a callback's own calls is strong: they need the       *)
(* watchdog's mutex, which a thread that keeps asking eventually gets even *)
(* if the watchdog, woken for nothing, locks it again and again.  No       *)
(* sample, writer, missed deadline, call or cancellation is ever           *)
(* guaranteed, and no wakeup for nothing.                                  *)
(***************************************************************************)
ReadFairness ==
  /\ WF_allVars(Clock)
  /\ WF_allVars(WatchdogRuns)
  /\ WF_allVars(WakeAbsence \/ WakeAbsencePanics)
  /\ \A r \in Readers :
       /\ WF_allVars(MarkAbsence(r))
       /\ SF_allVars(ClientFinishes(r))
       /\ WF_allVars(OnDataAvailable(r))
       /\ WF_allVars(DeadlineWakes(r))
  /\ \A t \in Tasks : WF_allVars(Poll(t))

ReadSpec == ReadInit /\ [][ReadNext]_allVars /\ ReadFairness

---------------------------------------------------------------------------
(* Properties *)

Parked(t) == call[t] = "await" /\ ~ woken[t]

Waiting(t) == call[t] \in {"await", "takeError", "read", "absence"}

(* t is the only future that awaits its reader: AtomicWaker holds one Waker *)
Sole(t) == \A u \in Tasks : ReaderOf[u] = ReaderOf[t] => u = t

Expired(r) == IsAbsentAt(watch[r], Timeout[r], now)

(***************************************************************************)
(* No lost wakeup (the register-then-check comment in futures::read): a    *)
(* future that returned Pending is registered, and nothing it has not seen *)
(* - a sample, a missed deadline - is there without a wake still to come.  *)
(***************************************************************************)
NoLostWakeup ==
  \A t \in Tasks : LET r == ReaderOf[t] IN
    Sole(t) /\ Parked(t) =>
      /\ slot[r] = t
      /\ unread[r] => callback[r].data
      /\ error[r] => callback[r].missed

(***************************************************************************)
(* No lost absence (why notify_absence marks before it wakes, and the poll *)
(* registers before it asks the watch): once an absence period has been    *)
(* marked after its deadline, no future sleeps through it.  Periods that   *)
(* were marked too early are the ones StopWhenNoWriter is about.           *)
(***************************************************************************)
NoLostAbsence ==
  \A t \in Tasks : LET r == ReaderOf[t] IN
    /\ Sole(t) /\ Parked(t) /\ r \notin early
    /\ Expired(r) /\ watch[r].notified
    => pc = "wake" /\ target = r

(***************************************************************************)
(* Received samples come first (the comment on the NoData branch of        *)
(* futures::read): NoMatchedWriter is not returned over a valid sample     *)
(* that was there when the poll began.                                     *)
(***************************************************************************)
DataBeforeAbsence ==
  [][\A t \in Tasks : LET r == ReaderOf[t] IN
       call[t] # "noWriter" /\ call'[t] = "noWriter"
         => cache[r].valid = 0 \/ t \in fresh]_allVars

(***************************************************************************)
(* Data is not thrown away (same comment: what was received can be read to *)
(* the end even if the writer is gone): a valid sample leaves the cache    *)
(* only into the hands of a caller.                                        *)
(***************************************************************************)
TakenIsDelivered ==
  [][\A r \in Readers : cache'[r].valid < cache[r].valid
       => \E t \in Tasks : ReaderOf[t] = r /\ call'[t] = "ok"]_allVars

(***************************************************************************)
(* A future completes when there is a sample for it or a missed deadline   *)
(* to report (read_async: it completes when data arrives).                 *)
(***************************************************************************)
CallsComplete ==
  \A t \in Tasks : LET r == ReaderOf[t] IN
    Sole(t) /\ Waiting(t) /\ (cache[r].valid > 0 \/ error[r]) ~> ~ Waiting(t)

(***************************************************************************)
(* Futures, wakers, watchdog and instants together implement the contract: *)
(* silence is the age of the absence period, a blip restarts it from zero  *)
(* and a repeated 0 does not, and a missed deadline is reported once.      *)
(***************************************************************************)
Contract == INSTANCE ReadContract WITH
  counting <- [r \in Readers |-> IsMeasuring(watch[r])],
  silence <- [r \in Readers |->
                IF IsMeasuring(watch[r]) THEN now - watch[r].since ELSE 0],
  owed <- error,
  status <- [t \in Tasks |-> IF Waiting(t) THEN "waiting" ELSE call[t]]

ImplementsContract == Contract!ContractSpec

(***************************************************************************)
(* The promise of stop_when_no_writer (README.md): when no writer has been *)
(* matched for the whole timeout, the read completes.                      *)
(***************************************************************************)
StopWhenNoWriter ==
  \A t \in Tasks : LET r == ReaderOf[t] IN
    Sole(t) /\ Waiting(t) /\ Expired(r)
      ~> ~ Waiting(t) \/ ~ IsMeasuring(watch[r])

(***************************************************************************)
(* The same promise for every absence but those that were marked before    *)
(* their deadline, because a writer came back and left again between the   *)
(* watchdog's scan and its mark_notified: from an absence that expired     *)
(* unmarked, or was marked in time, the read completes.                    *)
(***************************************************************************)
StopWhenNoWriterUnlessEarly ==
  \A t \in Tasks : LET r == ReaderOf[t] IN
    Sole(t) /\ Waiting(t) /\ Expired(r) /\ r \notin early
      ~> ~ Waiting(t) \/ ~ IsMeasuring(watch[r])

=============================================================================
