----------------------------- MODULE Watchdog -----------------------------
(***************************************************************************)
(* The process-wide watchdog thread and the threads that feed it           *)
(* (cyclonedds/src/match_watch.rs, Watchdog).                              *)
(*                                                                         *)
(* Two kinds of threads share the state:                                   *)
(*   - for every reader, the thread that creates it (register) and later   *)
(*     the DDS thread that runs its subscription_matched callback (update, *)
(*     then reschedule); callbacks of one entity never overlap, so one     *)
(*     program counter `client` per reader is enough;                      *)
(*   - the watchdog: scan under the lock, announce what expired without    *)
(*     the lock, wait for the next deadline.                               *)
(* A step is what happens between two acquisitions of a mutex.  The scan   *)
(* reads one watch per step because each watch has a mutex of its own and  *)
(* a callback may change a watch while the scan is under way.              *)
(***************************************************************************)
EXTENDS MatchWatch

CONSTANTS Readers,        \* the watched readers a process may create
          Timeout,        \* Timeout[r]: the grace period of reader r
          MaxGeneration   \* bound: no callback starts beyond this generation

ASSUME WatchdogAssumption ==
  /\ Timeout \in [Readers -> Nat]
  /\ MaxGeneration \in Nat
  /\ None \notin Readers

VARIABLES
  now,         \* Instant::now()
  watch,       \* watch[r]: the MatchState of r's MatchWatch
  client,      \* client[r]: where r's own thread stands, see ClientStep
  entries,     \* WatchdogState.entries; the order of the Vec is abstracted
  generation,  \* WatchdogState.generation
  pc,          \* where the watchdog thread stands, see WatchdogStep
  scanTime,    \* the `now` a scan reads once
  todo,        \* entries the current scan has not visited
  expired,     \* Arcs collected by scan and not yet announced
  target,      \* the entry between mark_notified and wake, or None
  nearest,     \* the nearest future deadline of the last scan, or None
  seen         \* seen_generation of the last scan

watchdogVars == << entries, generation, pc, scanTime, todo, expired, target,
                   nearest, seen >>
vars == << now, watch, client, watchdogVars >>

ClientStep ==
  { "unborn",      \* not created
    "register",    \* watch created, register not called yet
    "announce",    \* registered, its notify_one not called yet
    "idle",        \* reader exists, no matched callback running
    "reschedule",  \* update done, reschedule not called yet
    "signal",      \* generation raised, notify_one not called yet
    "dropped" }

WatchdogStep ==
  { "scan",        \* about to lock and scan
    "scanning",    \* holds the lock, visits the entries
    "notify",      \* lock released, announces what expired, then waits
    "wake",        \* the target is marked, its waker not woken yet
    "waiting" }    \* blocked on the condition variable

TypeOK ==
  /\ now \in Instant
  /\ watch \in [Readers -> MatchState]
  /\ client \in [Readers -> ClientStep]
  /\ entries \in SUBSET Readers
  /\ generation \in Nat
  /\ pc \in WatchdogStep
  /\ scanTime \in Instant
  /\ todo \in SUBSET Readers
  /\ expired \in SUBSET Readers
  /\ target \in Readers \cup {None}
  /\ nearest \in Instant \cup {None}
  /\ seen \in Nat

Deadline(r) == AbsenceDeadline(watch[r], Timeout[r])

LockFree == pc # "scanning"

Created(r) == client[r] \notin {"unborn", "dropped"}

(* Weak::strong_count > 0: the reader lives or the watchdog holds its Arc *)
Referenced(r) == Created(r) \/ r \in expired \/ r = target

Init ==
  /\ now = 0
  /\ watch = [r \in Readers |-> Present]
  /\ client = [r \in Readers |-> "unborn"]
  /\ entries = {}
  /\ generation = 0
  /\ pc = "scan"
  /\ scanTime = 0
  /\ todo = {}
  /\ expired = {}
  /\ target = None
  /\ nearest = None
  /\ seen = 0

---------------------------------------------------------------------------
(* The reader's own threads *)

ClientGoes(r, from, to) ==
  /\ client[r] = from
  /\ client' = [client EXCEPT ![r] = to]

(* MatchWatch::new in create_async_with_watch: the period starts here *)
Create(r) ==
  /\ ClientGoes(r, "unborn", "register")
  /\ watch' = [watch EXCEPT ![r] = NewAt(now)]
  /\ UNCHANGED << now, watchdogVars >>

(* Watchdog::register up to drop(state); dead entries are swept on the way *)
Register(r) ==
  /\ LockFree
  /\ ClientGoes(r, "register", "announce")
  /\ entries' = {e \in entries : Referenced(e)} \cup {r}
  /\ generation' = generation + 1
  /\ UNCHANGED << now, watch, pc, scanTime, todo, expired, target, nearest,
                  seen >>

(* on_subscription_matched, first half: MatchWatch::update *)
Update(r, count) ==
  /\ generation < MaxGeneration
  /\ ClientGoes(r, "idle", "reschedule")
  /\ watch' = [watch EXCEPT ![r] = UpdateAt(watch[r], count, now)]
  /\ UNCHANGED << now, watchdogVars >>

(* Watchdog::reschedule up to the end of its first statement *)
Reschedule(r) ==
  /\ LockFree
  /\ ClientGoes(r, "reschedule", "signal")
  /\ generation' = generation + 1
  /\ UNCHANGED << now, watch, entries, pc, scanTime, todo, expired, target,
                  nearest, seen >>

(* Condvar::notify_one: lost unless the watchdog already waits *)
NotifyOne(r) ==
  /\ ClientGoes(r, "signal", "idle") \/ ClientGoes(r, "announce", "idle")
  /\ pc' = IF pc = "waiting" THEN "scan" ELSE pc
  /\ UNCHANGED << now, watch, entries, generation, scanTime, todo, expired,
                  target, nearest, seen >>

(* The reader is dropped; the watchdog only ever held a Weak *)
Drop(r) ==
  /\ ClientGoes(r, "idle", "dropped")
  /\ UNCHANGED << now, watch, watchdogVars >>

---------------------------------------------------------------------------
(* The watchdog thread *)

ScanBegin ==
  /\ pc = "scan"
  /\ pc' = "scanning"
  /\ scanTime' = now
  /\ todo' = entries
  /\ expired' = {}
  /\ nearest' = None
  /\ UNCHANGED << now, watch, client, entries, generation, target, seen >>

Nearer(d) == IF nearest = None \/ d < nearest THEN d ELSE nearest

(* Mutant of ScanEntry: a deadline reached exactly now is not expired *)
ScanEntryLate(r) ==
  /\ pc = "scanning"
  /\ r \in todo
  /\ todo' = todo \ {r}
  /\ IF ~ Referenced(r) THEN entries' = entries \ {r}
     ELSE UNCHANGED entries
  /\ expired' = IF Referenced(r) /\ Deadline(r) # None /\ Deadline(r) < scanTime
                THEN expired \cup {r} ELSE expired
  /\ nearest' = IF /\ Referenced(r)
                   /\ Deadline(r) # None
                   /\ Deadline(r) >= scanTime
                THEN Nearer(Deadline(r)) ELSE nearest
  /\ UNCHANGED << now, watch, client, generation, pc, scanTime, target, seen >>

(* One iteration of retain: drop a dead entry, or sort a live one *)
ScanEntry(r) ==
  /\ pc = "scanning"
  /\ r \in todo
  /\ todo' = todo \ {r}
  /\ \/ /\ ~ Referenced(r)
        /\ entries' = entries \ {r}
        /\ UNCHANGED << expired, nearest >>
     \/ /\ Referenced(r)
        /\ Deadline(r) = None
        /\ UNCHANGED << entries, expired, nearest >>
     \/ /\ Referenced(r)
        /\ Deadline(r) # None
        /\ Deadline(r) <= scanTime
        /\ expired' = expired \cup {r}
        /\ UNCHANGED << entries, nearest >>
     \/ /\ Referenced(r)
        /\ Deadline(r) # None
        /\ Deadline(r) > scanTime
        /\ nearest' = Nearer(Deadline(r))
        /\ UNCHANGED << entries, expired >>
  /\ UNCHANGED << now, watch, client, generation, pc, scanTime, target, seen >>

ScanEnd ==
  /\ pc = "scanning"
  /\ todo = {}
  /\ seen' = generation
  /\ scanTime' = 0          \* a local of scan, out of scope from here
  /\ pc' = "notify"
  /\ UNCHANGED << now, watch, client, entries, generation, todo, expired,
                  target, nearest >>

(* notify_absence, first half: mark whatever period runs by now *)
Mark(r) ==
  /\ pc = "notify"
  /\ r \in expired
  /\ watch' = [watch EXCEPT ![r] = MarkNotified(watch[r])]
  /\ expired' = expired \ {r}
  /\ target' = r
  /\ pc' = "wake"
  /\ UNCHANGED << now, client, entries, generation, scanTime, todo, nearest,
                  seen >>

(* notify_absence, second half: the waker is woken and returns *)
Wake ==
  /\ pc = "wake"
  /\ pc' = "notify"
  /\ target' = None
  /\ UNCHANGED << now, watch, client, entries, generation, scanTime, todo,
                  expired, nearest, seen >>

(* ... or it polls a future inline that panics: run catches it, the rest   *)
(* of `expired` is dropped and the next round starts without waiting       *)
WakePanics ==
  /\ pc = "wake"
  /\ pc' = "scan"
  /\ target' = None
  /\ expired' = {}
  /\ UNCHANGED << now, watch, client, entries, generation, scanTime, todo,
                  nearest, seen >>

(* Mutant of WaitForNext: the generation is not compared *)
WaitForNextBlind ==
  /\ pc = "notify"
  /\ expired = {}
  /\ pc' = IF nearest # None /\ nearest <= now THEN "scan" ELSE "waiting"
  /\ UNCHANGED << now, watch, client, entries, generation, scanTime, todo,
                  expired, target, nearest, seen >>

(* wait_for_next: skip the wait, or block; unlocking and blocking are one *)
WaitForNext ==
  /\ pc = "notify"
  /\ expired = {}
  /\ pc' = IF \/ generation # seen
              \/ nearest # None /\ nearest <= now
           THEN "scan" ELSE "waiting"
  /\ UNCHANGED << now, watch, client, entries, generation, scanTime, todo,
                  expired, target, nearest, seen >>

WaitTimesOut ==
  /\ pc = "waiting"
  /\ nearest # None
  /\ nearest <= now
  /\ pc' = "scan"
  /\ UNCHANGED << now, watch, client, entries, generation, scanTime, todo,
                  expired, target, nearest, seen >>

(* A condition variable may wake its waiter for no reason *)
SpuriousWakeup ==
  /\ pc = "waiting"
  /\ pc' = "scan"
  /\ UNCHANGED << now, watch, client, entries, generation, scanTime, todo,
                  expired, target, nearest, seen >>

---------------------------------------------------------------------------
Tick ==
  /\ now < MaxInstant
  /\ now' = now + 1
  /\ UNCHANGED << watch, client, watchdogVars >>

Client(r) ==
  \/ Create(r) \/ Register(r) \/ Reschedule(r) \/ NotifyOne(r) \/ Drop(r)
  \/ \E count \in 0 .. 1 : Update(r, count)

WatchdogThread ==
  \/ ScanBegin \/ (\E r \in Readers : ScanEntry(r)) \/ ScanEnd
  \/ (\E r \in Readers : Mark(r)) \/ Wake \/ WakePanics
  \/ WaitForNext \/ WaitTimesOut \/ SpuriousWakeup

Next == Tick \/ WatchdogThread \/ \E r \in Readers : Client(r)

(***************************************************************************)
(* Scheduling: time passes, a runnable thread is eventually scheduled and  *)
(* a call that was begun is finished.  Nobody has to create or drop a      *)
(* reader, no peer has to appear or vanish, and no wakeup is spurious by   *)
(* necessity.                                                              *)
(***************************************************************************)
Fairness ==
  /\ WF_vars(Tick)
  /\ WF_vars(ScanBegin) /\ WF_vars(ScanEnd)
  /\ \A r \in Readers : WF_vars(ScanEntry(r)) /\ WF_vars(Mark(r))
  /\ WF_vars(Wake \/ WakePanics) /\ WF_vars(WaitForNext)
  /\ WF_vars(WaitTimesOut)
  /\ \A r \in Readers :
       WF_vars(Register(r)) /\ WF_vars(Reschedule(r)) /\ WF_vars(NotifyOne(r))

Spec == Init /\ [][Next]_vars /\ Fairness

---------------------------------------------------------------------------
(* Properties *)

(* What a blocked watchdog has promised to wake up for *)
Covered(r) ==
  Deadline(r) = None \/ (nearest # None /\ nearest <= Deadline(r))

(***************************************************************************)
(* No lost reschedule (the reason for WatchdogState.generation): while the *)
(* watchdog is blocked, every reader whose last callback has finished is   *)
(* among its entries and the wait ends no later than that reader's         *)
(* deadline, although notify_one is lost when nobody waits yet.            *)
(***************************************************************************)
WaitCovers ==
  pc = "waiting" =>
    \A r \in Readers : client[r] = "idle" => r \in entries /\ Covered(r)

(***************************************************************************)
(* At most one wakeup per absence period (the comment on                   *)
(* MatchState::Absent): what a scan collected and has not announced yet is *)
(* never a period that was already marked, even after a panicking round.   *)
(***************************************************************************)
AnnouncedOnce ==
  \A r \in expired : IsMeasuring(watch[r]) => ~ watch[r].notified

Due(r) ==
  client[r] = "idle" /\ Deadline(r) # None /\ Deadline(r) <= now

(***************************************************************************)
(* The watchdog keeps its deadlines (the comment on WatchdogState): a      *)
(* deadline that has passed is announced, or the peer comes back or the    *)
(* reader goes; panics in a woken future do not stop it.                   *)
(***************************************************************************)
EveryDeadlineAnnounced == \A r \in Readers : Due(r) ~> ~ Due(r)

===========================================================================
