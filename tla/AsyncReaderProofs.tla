------------------------ MODULE AsyncReaderProofs ---------------------------
(***************************************************************************)
(* What holds of the watchdog and of asynchronous reads, for every set of  *)
(* readers and tasks, every grace period, buffer length and horizon.       *)
(***************************************************************************)
EXTENDS AsyncReader, TLAPS

-----------------------------------------------------------------------------
(* The watchdog alone *)

---------------------------------------------------------------------------
(* The operators of MatchWatch *)

(* MatchWatch::new_at and update_at answer a match state *)
LEMMA NewAtType ==
  ASSUME NEW t \in Instant
  PROVE  NewAt(t) \in MatchState
BY DEF NewAt, MatchState, Absent

(* ... for every reported count of peers *)
LEMMA UpdateAtType ==
  ASSUME NEW s \in MatchState, NEW count \in Nat, NEW t \in Instant
  PROVE  UpdateAt(s, count, t) \in MatchState
BY DEF UpdateAt, MatchState, Absent, Present

(* Only an absent state has a start and a mark *)
LEMMA AbsentFields ==
  ASSUME NEW s \in MatchState, IsMeasuring(s)
  PROVE  /\ s.since \in Instant
         /\ s.notified \in BOOLEAN
BY DEF MatchState, IsMeasuring, Present

(* MatchWatch::mark_notified answers a match state *)
LEMMA MarkNotifiedType ==
  ASSUME NEW s \in MatchState
  PROVE  MarkNotified(s) \in MatchState
BY AbsentFields DEF MarkNotified, MatchState, Absent

(* A deadline is an instant the platform represents, or there is none *)
LEMMA DeadlineType ==
  ASSUME NEW s \in MatchState, NEW timeout \in Nat
  PROVE  AbsenceDeadline(s, timeout) \in Instant \cup {None}
BY AbsentFields, InstantAssumption DEF AbsenceDeadline, Instant

(* A marked period has no deadline left *)
LEMMA MarkedHasNoDeadline ==
  ASSUME NEW s \in MatchState, NEW timeout \in Nat
  PROVE  AbsenceDeadline(MarkNotified(s), timeout) = None
BY DEF AbsenceDeadline, MarkNotified, IsMeasuring, Absent

(* A period with a deadline is not marked *)
LEMMA DeadlineIsUnmarked ==
  ASSUME NEW s \in MatchState, NEW timeout \in Nat,
         AbsenceDeadline(s, timeout) # None
  PROVE  ~ s.notified
BY DEF AbsenceDeadline

(* An update never marks a period *)
LEMMA UpdateAtUnmarked ==
  ASSUME NEW s \in MatchState, NEW count \in Nat, NEW t \in Instant,
         IsMeasuring(s) => ~ s.notified,
         IsMeasuring(UpdateAt(s, count, t))
  PROVE  ~ UpdateAt(s, count, t).notified
BY DEF UpdateAt, IsMeasuring, Absent, Present

---------------------------------------------------------------------------
(* The watchdog thread starts well typed *)
LEMMA TypeOKInit == Init => TypeOK
BY InstantAssumption, WatchdogAssumption
DEF Init, TypeOK, MatchState, ClientStep, WatchdogStep, Instant

(* ... and every step of the watchdog or of a reader's thread keeps it so *)
LEMMA TypeOKStep == TypeOK /\ [Next]_vars => TypeOK'
<1> SUFFICES ASSUME TypeOK, [Next]_vars
             PROVE  TypeOK'
  OBVIOUS
<1> USE DEF TypeOK
<1>1. CASE Tick
  BY <1>1, InstantAssumption DEF Tick, Instant, watchdogVars
<1>2. ASSUME NEW r \in Readers, Create(r)
      PROVE  TypeOK'
  BY <1>2, NewAtType DEF Create, ClientGoes, ClientStep, watchdogVars
<1>3. ASSUME NEW r \in Readers, Register(r)
      PROVE  TypeOK'
  BY <1>3 DEF Register, ClientGoes, ClientStep
<1>4. ASSUME NEW r \in Readers, NEW count \in 0 .. 1, Update(r, count)
      PROVE  TypeOK'
  BY <1>4, UpdateAtType DEF Update, ClientGoes, ClientStep, watchdogVars
<1>5. ASSUME NEW r \in Readers, Reschedule(r)
      PROVE  TypeOK'
  BY <1>5 DEF Reschedule, ClientGoes, ClientStep
<1>6. ASSUME NEW r \in Readers, NotifyOne(r)
      PROVE  TypeOK'
  BY <1>6 DEF NotifyOne, ClientGoes, ClientStep, WatchdogStep
<1>7. ASSUME NEW r \in Readers, Drop(r)
      PROVE  TypeOK'
  BY <1>7 DEF Drop, ClientGoes, ClientStep, watchdogVars
<1>8. CASE ScanBegin
  BY <1>8 DEF ScanBegin, WatchdogStep
<1>9. ASSUME NEW r \in Readers, ScanEntry(r)
      PROVE  TypeOK'
  <2>1. Deadline(r) \in Instant \cup {None}
    BY DeadlineType, WatchdogAssumption DEF Deadline
  <2>2. QED
    BY <1>9, <2>1 DEF ScanEntry, Nearer
<1>10. CASE ScanEnd
  BY <1>10, InstantAssumption DEF ScanEnd, WatchdogStep, Instant
<1>11. ASSUME NEW r \in Readers, Mark(r)
       PROVE  TypeOK'
  BY <1>11, MarkNotifiedType DEF Mark, WatchdogStep
<1>12. CASE Wake
  BY <1>12 DEF Wake, WatchdogStep
<1>13. CASE WakePanics
  BY <1>13 DEF WakePanics, WatchdogStep
<1>14. CASE WaitForNext
  BY <1>14 DEF WaitForNext, WatchdogStep
<1>15. CASE WaitTimesOut
  BY <1>15 DEF WaitTimesOut, WatchdogStep
<1>16. CASE SpuriousWakeup
  BY <1>16 DEF SpuriousWakeup, WatchdogStep
<1>17. CASE UNCHANGED vars
  BY <1>17 DEF vars, watchdogVars
<1>18. QED
  BY <1>1, <1>2, <1>3, <1>4, <1>5, <1>6, <1>7, <1>8, <1>9, <1>10, <1>11,
     <1>12, <1>13, <1>14, <1>15, <1>16, <1>17
  DEF Next, Client, WatchdogThread

(***************************************************************************)
(* Every variable keeps its type: instants never exceed the last one that  *)
(* the platform represents, in particular the deadline of a wait.          *)
(***************************************************************************)
THEOREM TypeCorrect == Spec => []TypeOK
BY TypeOKInit, TypeOKStep, PTL DEF Spec

---------------------------------------------------------------------------
(* Nothing is collected at first *)
LEMMA AnnouncedOnceInit == Init => AnnouncedOnce
BY DEF Init, AnnouncedOnce

(* No step leaves a marked period among those to announce *)
LEMMA AnnouncedOnceStep ==
  TypeOK /\ AnnouncedOnce /\ [Next]_vars => AnnouncedOnce'
<1> SUFFICES ASSUME TypeOK, AnnouncedOnce, [Next]_vars
             PROVE  AnnouncedOnce'
  OBVIOUS
<1> USE DEF AnnouncedOnce
<1>1. ASSUME NEW r \in Readers, Create(r)
      PROVE  AnnouncedOnce'
  BY <1>1 DEF Create, NewAt, Absent, watchdogVars, TypeOK
<1>2. ASSUME NEW r \in Readers, NEW count \in 0 .. 1, Update(r, count)
      PROVE  AnnouncedOnce'
  <2> SUFFICES ASSUME NEW e \in expired, IsMeasuring(watch'[e])
               PROVE  ~ watch'[e].notified
    BY <1>2 DEF Update, watchdogVars
  <2>1. CASE e = r
    BY <1>2, <2>1, UpdateAtUnmarked DEF Update, TypeOK
  <2>2. CASE e # r
    BY <1>2, <2>2 DEF Update, TypeOK
  <2>3. QED
    BY <2>1, <2>2
<1>3. CASE ScanBegin
  BY <1>3 DEF ScanBegin
<1>4. ASSUME NEW r \in Readers, ScanEntry(r)
      PROVE  AnnouncedOnce'
  <2>1. Deadline(r) # None => ~ watch[r].notified
    BY DeadlineIsUnmarked, WatchdogAssumption DEF Deadline, TypeOK
  <2>2. QED
    BY <1>4, <2>1 DEF ScanEntry
<1>5. ASSUME NEW r \in Readers, Mark(r)
      PROVE  AnnouncedOnce'
  BY <1>5 DEF Mark, TypeOK
<1>6. CASE WakePanics
  BY <1>6 DEF WakePanics
<1>7. CASE UNCHANGED << watch, expired >>
  BY <1>7
<1>8. QED
  BY <1>1, <1>2, <1>3, <1>4, <1>5, <1>6, <1>7
  DEF Next, Client, WatchdogThread, Tick, Register, Reschedule, NotifyOne,
      Drop, ScanEnd, Wake, WaitForNext, WaitTimesOut, SpuriousWakeup, vars,
      watchdogVars

(***************************************************************************)
(* A period is announced at most once: a scan collects unmarked periods    *)
(* only, an update replaces a period by an unmarked one or by Present, and *)
(* only the watchdog itself marks.                                         *)
(***************************************************************************)
THEOREM AnnouncesOnce == Spec => []AnnouncedOnce
BY AnnouncedOnceInit, AnnouncedOnceStep, TypeCorrect, PTL DEF Spec

---------------------------------------------------------------------------
(***************************************************************************)
(* The inductive invariant behind WaitCovers.  A reader is settled unless  *)
(* its thread has changed its watch and not yet raised the generation; the *)
(* scan has looked at a reader when its deadline is covered or collected.  *)
(* Between scan and wait, a reader that the scan did not look at in its    *)
(* present state has raised the generation since, so WaitForNext will not  *)
(* block: this is what makes a lost notify_one harmless.                   *)
(***************************************************************************)
Registered(r) == client[r] \in {"announce", "idle", "reschedule", "signal"}

Settled(r) == client[r] \in {"announce", "idle", "signal"}

Looked(r) == Covered(r) \/ r \in expired

LookedInv ==
  /\ seen <= generation
  /\ \A r \in Readers : Registered(r) => r \in entries
  /\ pc = "scanning" =>
       \A r \in Readers : Settled(r) => r \in todo \/ Looked(r)
  /\ pc \in {"notify", "wake"} /\ generation = seen =>
       \A r \in Readers : Settled(r) => Looked(r)
  /\ pc = "waiting" =>
       /\ expired = {}
       /\ \A r \in Readers : client[r] = "idle" => Looked(r)

(* No reader is registered at first *)
LEMMA LookedInvInit == Init => LookedInv
BY DEF Init, LookedInv, Registered, Settled

(* Every step of the watchdog or of a reader's thread keeps LookedInv *)
LEMMA LookedInvStep == TypeOK /\ LookedInv /\ [Next]_vars => LookedInv'
<1> SUFFICES ASSUME TypeOK, LookedInv, [Next]_vars
             PROVE  LookedInv'
  OBVIOUS
<1> USE DEF LookedInv
<1>1. CASE Tick
  BY <1>1 DEF Tick, watchdogVars, Registered, Settled, Looked, Covered, Deadline
<1>2. ASSUME NEW r \in Readers, Create(r)
      PROVE  LookedInv'
  BY <1>2 DEF Create, ClientGoes, TypeOK, watchdogVars, Registered, Settled,
              Looked, Covered, Deadline
<1>3. ASSUME NEW r \in Readers, Register(r)
      PROVE  LookedInv'
  BY <1>3 DEF Register, ClientGoes, LockFree, TypeOK, Referenced, Created,
              Registered, Settled, Looked, Covered, Deadline
<1>4. ASSUME NEW r \in Readers, NEW count \in 0 .. 1, Update(r, count)
      PROVE  LookedInv'
  BY <1>4 DEF Update, ClientGoes, TypeOK, watchdogVars, Registered, Settled,
              Looked, Covered, Deadline
<1>5. ASSUME NEW r \in Readers, Reschedule(r)
      PROVE  LookedInv'
  BY <1>5 DEF Reschedule, ClientGoes, LockFree, TypeOK, Registered, Settled,
              Looked, Covered, Deadline
<1>6. ASSUME NEW r \in Readers, NotifyOne(r)
      PROVE  LookedInv'
  BY <1>6 DEF NotifyOne, ClientGoes, TypeOK, Registered, Settled, Looked,
              Covered, Deadline
<1>7. ASSUME NEW r \in Readers, Drop(r)
      PROVE  LookedInv'
  BY <1>7 DEF Drop, ClientGoes, TypeOK, watchdogVars, Registered, Settled,
              Looked, Covered, Deadline
<1>8. CASE ScanBegin
  BY <1>8 DEF ScanBegin, Registered, Settled
<1>9. ASSUME NEW r \in Readers, ScanEntry(r)
      PROVE  LookedInv'
  <2>1. \A e \in Readers : Registered(e)' => e \in entries'
    BY <1>9 DEF ScanEntry, Registered, Referenced, Created
  <2>2. ASSUME NEW e \in Readers, Settled(e)', e \notin todo'
        PROVE  Looked(e)'
    <3>1. Settled(e) /\ UNCHANGED << watch, client >>
      BY <1>9, <2>2 DEF ScanEntry, Settled
    <3>2. \A x \in Readers : Deadline(x) \in Instant \cup {None}
      BY DeadlineType, WatchdogAssumption DEF Deadline, TypeOK
    <3>3. Deadline(e)' = Deadline(e)
      BY <3>1 DEF Deadline
    <3>4. CASE e = r
      <4>1. Referenced(e)
        BY <3>1 DEF Settled, Referenced, Created
      <4>2. QED
        BY <1>9, <3>2, <3>3, <3>4, <4>1, InstantAssumption
        DEF ScanEntry, Looked, Covered, Nearer, TypeOK, Instant
    <3>5. CASE e # r
      <4>1. Looked(e)
        BY <1>9, <2>2, <3>1, <3>5 DEF ScanEntry
      <4>2. QED
        BY <1>9, <3>2, <3>3, <4>1, InstantAssumption
        DEF ScanEntry, Looked, Covered, Nearer, TypeOK, Instant
    <3>6. QED
      BY <3>4, <3>5
  <2>3. QED
    BY <1>9, <2>1, <2>2 DEF ScanEntry
<1>10. CASE ScanEnd
  BY <1>10 DEF ScanEnd, TypeOK, Registered, Settled, Looked, Covered, Deadline
<1>11. ASSUME NEW r \in Readers, Mark(r)
       PROVE  LookedInv'
  <2>1. Deadline(r)' = None
    BY <1>11, MarkedHasNoDeadline, WatchdogAssumption
    DEF Mark, Deadline, TypeOK
  <2>2. ASSUME NEW e \in Readers, Looked(e)
        PROVE  Looked(e)'
    <3>1. CASE e = r
      BY <2>1, <3>1 DEF Looked, Covered
    <3>2. CASE e # r
      BY <1>11, <2>2, <3>2 DEF Mark, Looked, Covered, Deadline, TypeOK
    <3>3. QED
      BY <3>1, <3>2
  <2>3. QED
    BY <1>11, <2>2 DEF Mark, Registered, Settled
<1>12. CASE Wake
  BY <1>12 DEF Wake, Registered, Settled, Looked, Covered, Deadline
<1>13. CASE WakePanics
  BY <1>13 DEF WakePanics, Registered, Settled
<1>14. CASE WaitForNext
  BY <1>14 DEF WaitForNext, Registered, Settled, Looked, Covered, Deadline
<1>15. CASE WaitTimesOut
  BY <1>15 DEF WaitTimesOut, Registered
<1>16. CASE SpuriousWakeup
  BY <1>16 DEF SpuriousWakeup, Registered
<1>17. CASE UNCHANGED vars
  BY <1>17 DEF vars, watchdogVars, Registered, Settled, Looked, Covered,
               Deadline
<1>18. QED
  BY <1>1, <1>2, <1>3, <1>4, <1>5, <1>6, <1>7, <1>8, <1>9, <1>10, <1>11,
     <1>12, <1>13, <1>14, <1>15, <1>16, <1>17
  DEF Next, Client, WatchdogThread

(* LookedInv is strong enough *)
LEMMA LookedInvCovers == LookedInv => WaitCovers
BY DEF LookedInv, WaitCovers, Looked, Registered

(***************************************************************************)
(* A blocked watchdog wakes in time for every reader, for any number of    *)
(* readers and callbacks (WatchdogState.generation, Watchdog::register,    *)
(* reschedule, scan and wait_for_next).                                    *)
(***************************************************************************)
THEOREM NoLostReschedule == Spec => []WaitCovers
BY LookedInvInit, LookedInvStep, LookedInvCovers, TypeCorrect, PTL DEF Spec

-----------------------------------------------------------------------------
(* The watchdog with its readers *)

---------------------------------------------------------------------------
(* The composition adds nothing to the watchdog: each of its steps is a    *)
(* step of Watchdog or leaves the watchdog's variables alone.              *)
LEMMA ReadStepIsWatchdogStep == [ReadNext]_allVars => [Next]_vars
BY DEF ReadNext, allVars, Clock, WatchdogRuns, WatchdogWakesForNothing,
       WakeAbsence, WakeAbsencePanics, NewReader, ClientFinishes, Dds, Arrive,
       OnDataAvailable, OnDeadlineMissed, DeadlineWakes, OnMatched,
       MarkAbsence, DropReader, Call, Poll, PollRegister, PollTakeError,
       PollRead, PollReadFails, PollAbsence, Cancel, Next, Client,
       WatchdogThread

(* The watchdog's types hold in the composition as well *)
THEOREM ReadWatchdogTypeCorrect == ReadSpec => []TypeOK
BY ReadStepIsWatchdogStep, TypeOKInit, TypeOKStep, PTL
DEF ReadSpec, ReadInit

(* ... and so does its promise to wake in time *)
THEOREM ReadNoLostReschedule == ReadSpec => []WaitCovers
BY ReadStepIsWatchdogStep, ReadWatchdogTypeCorrect, LookedInvInit,
   LookedInvStep, LookedInvCovers, PTL
DEF ReadSpec, ReadInit

---------------------------------------------------------------------------
(* What an initial state of the composition looks like to the futures *)
LEMMA ReadTypeOKInit == ReadInit => ReadTypeOK
BY AsyncReaderAssumption
DEF ReadInit, ReadTypeOK, Cache, Callback, CallStep

(* AtomicWaker::wake keeps the waker slot and the executor's queue typed *)
LEMMA WakeSlotType ==
  ASSUME ReadTypeOK, NEW r, WakeSlot(r)
  PROVE  /\ slot' \in [Readers -> Tasks \cup {None}]
         /\ woken' \in [Tasks -> BOOLEAN]
BY DEF ReadTypeOK, WakeSlot

(* Every step of a future, a callback or the watchdog keeps its types *)
LEMMA ReadTypeOKStep == ReadTypeOK /\ [ReadNext]_allVars => ReadTypeOK'
<1> SUFFICES ASSUME ReadTypeOK, [ReadNext]_allVars
             PROVE  ReadTypeOK'
  OBVIOUS
<1> USE DEF ReadTypeOK, history
<1>1. CASE UNCHANGED readVars
  BY <1>1 DEF readVars
<1>2. ASSUME NEW r \in Readers, NEW kind \in {"valid", "invalid"},
             Arrive(r, kind)
      PROVE  ReadTypeOK'
  <2>1. cache[r] \in Cache /\ cache[r][kind] \in Nat
    BY AsyncReaderAssumption DEF Cache
  <2>2. [cache[r] EXCEPT ![kind] = @ + 1] \in Cache
    <3>1. CASE kind = "valid"
      BY <1>2, <2>1, <3>1, AsyncReaderAssumption DEF Arrive, Cache
    <3>2. CASE kind = "invalid"
      BY <1>2, <2>1, <3>2, AsyncReaderAssumption DEF Arrive, Cache
    <3>3. QED
      BY <3>1, <3>2
  <2>3. cache' = [cache EXCEPT ![r] = [cache[r] EXCEPT ![kind] = @ + 1]]
    BY <1>2 DEF Arrive
  <2>4. cache' \in [Readers -> Cache]
    BY <2>2, <2>3
  <2>5. callback' \in [Readers -> Callback]
    BY <1>2 DEF Arrive, Callback
  <2>6. QED
    BY <1>2, <2>4, <2>5 DEF Arrive
<1>3. ASSUME NEW r \in Readers, OnDataAvailable(r)
      PROVE  ReadTypeOK'
  BY <1>3, WakeSlotType DEF OnDataAvailable, Callback
<1>4. ASSUME NEW r \in Readers, OnDeadlineMissed(r)
      PROVE  ReadTypeOK'
  BY <1>4 DEF OnDeadlineMissed, Callback
<1>5. ASSUME NEW r \in Readers, DeadlineWakes(r)
      PROVE  ReadTypeOK'
  BY <1>5, WakeSlotType DEF DeadlineWakes, Callback
<1>6. ASSUME NEW r \in Readers, NEW count \in 0 .. 1, OnMatched(r, count)
      PROVE  ReadTypeOK'
  BY <1>6 DEF OnMatched
<1>7. ASSUME NEW r \in Readers, MarkAbsence(r)
      PROVE  ReadTypeOK'
  BY <1>7 DEF MarkAbsence
<1>8. CASE WakeAbsence
  BY <1>8, WakeSlotType DEF WakeAbsence
<1>9. CASE WakeAbsencePanics
  BY <1>9 DEF WakeAbsencePanics, CallStep, Outcome
<1>10. ASSUME NEW r \in Readers, DropReader(r)
       PROVE  ReadTypeOK'
  BY <1>10 DEF DropReader, Callback
<1>11. ASSUME NEW t \in Tasks, Call(t)
       PROVE  ReadTypeOK'
  BY <1>11 DEF Call, CallStep
<1>12. ASSUME NEW t \in Tasks, PollRegister(t)
       PROVE  ReadTypeOK'
  BY <1>12, AsyncReaderAssumption DEF PollRegister, CallGoes, CallStep
<1>13. ASSUME NEW t \in Tasks, PollTakeError(t)
       PROVE  ReadTypeOK'
  BY <1>13 DEF PollTakeError, CallGoes, CallStep, Outcome
<1>14. ASSUME NEW t \in Tasks, PollRead(t)
       PROVE  ReadTypeOK'
  <2> DEFINE r == ReaderOf[t]
  <2>1. PICK b \in Batch(cache[r]) :
          /\ CallGoes(t, "read", IF b.first THEN "ok" ELSE "absence")
          /\ cache' = IF t \in Takers
                      THEN [cache EXCEPT ![r] =
                              [valid |-> @.valid - b.valid,
                               invalid |-> @.invalid - b.invalid]]
                      ELSE cache
          /\ unread' = [unread EXCEPT ![r] = FALSE]
          /\ UNCHANGED << vars, slot, error, callback, woken, fresh, early >>
    BY <1>14 DEF PollRead
  <2>2. cache[r] \in Cache
    BY AsyncReaderAssumption
  <2>3. [valid |-> cache[r].valid - b.valid,
         invalid |-> cache[r].invalid - b.invalid] \in Cache
    BY <2>2, AsyncReaderAssumption DEF Batch, Cache
  <2>4. cache' \in [Readers -> Cache]
    BY <2>1, <2>3
  <2>5. call' \in [Tasks -> CallStep]
    BY <2>1 DEF CallGoes, CallStep, Outcome
  <2>6. QED
    BY <2>1, <2>4, <2>5
<1>15. ASSUME NEW t \in Tasks, PollReadFails(t)
       PROVE  ReadTypeOK'
  BY <1>15 DEF PollReadFails, CallGoes, CallStep, Outcome
<1>16. ASSUME NEW t \in Tasks, PollAbsence(t)
       PROVE  ReadTypeOK'
  BY <1>16 DEF PollAbsence, CallGoes, CallStep, Outcome
<1>17. ASSUME NEW t \in Tasks, Cancel(t)
       PROVE  ReadTypeOK'
  BY <1>17 DEF Cancel, CallGoes, CallStep, Outcome
<1>18. QED
  BY <1>1, <1>2, <1>3, <1>4, <1>5, <1>6, <1>7, <1>8, <1>9, <1>10, <1>11,
     <1>12, <1>13, <1>14, <1>15, <1>16, <1>17
  DEF ReadNext, allVars, Clock, WatchdogRuns, WatchdogWakesForNothing,
      NewReader, ClientFinishes, Dds, Poll

(***************************************************************************)
(* The state of every future, callback, cache and waker slot stays well    *)
(* typed: a take never removes more than a cache holds.                    *)
(***************************************************************************)
THEOREM ReadTypeCorrect == ReadSpec => []ReadTypeOK
BY ReadTypeOKInit, ReadTypeOKStep, PTL DEF ReadSpec

---------------------------------------------------------------------------
(***************************************************************************)
(* The inductive invariant behind NoLostWakeup and NoLostAbsence.  Until a *)
(* sole future is done, it is registered or about to be polled; whatever   *)
(* it has not seen comes with a callback, is caught by a check the running *)
(* poll has still to make, or the future is about to be polled; and a      *)
(* marked period has lasted its timeout, so a poll that finds it ends.     *)
(***************************************************************************)
Marked(r) == r \notin early /\ IsMeasuring(watch[r]) /\ watch[r].notified

Heard(t) == LET r == ReaderOf[t] IN
  /\ woken[t] \/ slot[r] = t
  /\ unread[r] =>
       callback[r].data \/ woken[t] \/ call[t] \in {"takeError", "read"}
  /\ error[r] => callback[r].missed \/ woken[t] \/ call[t] = "takeError"
  /\ Marked(r) => woken[t] \/ InPoll(t) \/ (pc = "wake" /\ target = r)

HeardInv ==
  /\ pc = "wake" => target \in Readers
  /\ \A r \in Readers : slot[r] # None => ReaderOf[slot[r]] = r
  /\ \A r \in Readers : Marked(r) => Expired(r)
  /\ \A t \in Tasks : Sole(t) /\ Waiting(t) => Heard(t)

(* No future waits at first and no period is measured *)
LEMMA HeardInvInit == ReadInit => HeardInv
BY AsyncReaderAssumption
DEF ReadInit, Init, HeardInv, Marked, IsMeasuring, Present, Waiting

(* A period stays expired and no mark appears where only the clock moves *)
LEMMA MarkedKept ==
  ASSUME TypeOK, ReadTypeOK, HeardInv, now' \in Instant, now' >= now,
         NEW r \in Readers, watch'[r] = watch[r],
         r \in early <=> r \in early'
  PROVE  /\ Marked(r)' <=> Marked(r)
         /\ Marked(r)' => Expired(r)'
<1>1. Marked(r)' <=> Marked(r)
  BY DEF Marked, IsMeasuring
<1>2. ASSUME Marked(r)
      PROVE  Expired(r)'
  <2>1. Expired(r) /\ IsMeasuring(watch[r])
    BY <1>2 DEF HeardInv, Marked
  <2>2. watch[r].since \in Instant
    BY <2>1, AbsentFields DEF TypeOK
  <2>3. QED
    BY <2>1, <2>2, InstantAssumption, WatchdogAssumption
    DEF Expired, IsAbsentAt, IsMeasuring, TypeOK, Instant
<1>3. QED
  BY <1>1, <1>2

(* A wakeup reaches the sole future of a reader, wherever its waker is *)
LEMMA WakeSlotWakes ==
  ASSUME ReadTypeOK, HeardInv, NEW r \in Readers, WakeSlot(r)
  PROVE  /\ \A x \in Readers : slot'[x] # None => ReaderOf[slot'[x]] = x
         /\ \A t \in Tasks : woken[t] => woken'[t]
         /\ \A t \in Tasks : ReaderOf[t] # r => slot'[ReaderOf[t]] =
                                                slot[ReaderOf[t]]
         /\ \A t \in Tasks : Sole(t) /\ Waiting(t) /\ ReaderOf[t] = r
                               => woken'[t]
BY AsyncReaderAssumption DEF ReadTypeOK, HeardInv, Heard, WakeSlot

(* Every step keeps HeardInv *)
LEMMA HeardInvStep ==
  TypeOK /\ ReadTypeOK /\ HeardInv /\ [ReadNext]_allVars => HeardInv'
<1> SUFFICES ASSUME TypeOK, ReadTypeOK, HeardInv, [ReadNext]_allVars
             PROVE  HeardInv'
  OBVIOUS
<1> USE AsyncReaderAssumption DEF history
<1>0. TypeOK'
  BY ReadStepIsWatchdogStep, TypeOKStep
<1>a. ASSUME UNCHANGED << watch, early, pc, target, readVars >>,
             now' >= now
      PROVE  HeardInv'
  <2>1. \A r \in Readers : (Marked(r)' <=> Marked(r))
                           /\ (Marked(r)' => Expired(r)')
    BY <1>0, <1>a, MarkedKept DEF TypeOK
  <2>2. QED
    BY <1>a, <2>1 DEF HeardInv, Heard, Waiting, InPoll, readVars
<1>1. CASE UNCHANGED allVars
  <2>1. now \in Nat
    BY InstantAssumption DEF TypeOK, Instant
  <2>2. QED
    BY <1>1, <1>a, <2>1 DEF allVars, vars, watchdogVars, readVars
<1>2. CASE Clock
  <2>1. now \in Nat
    BY InstantAssumption DEF TypeOK, Instant
  <2>2. QED
    BY <1>2, <1>a, <2>1 DEF Clock, Tick, watchdogVars, readVars
<1>b. ASSUME UNCHANGED << now, watch, early >>
      PROVE  \A r \in Readers : (Marked(r)' <=> Marked(r))
                                /\ (Marked(r)' => Expired(r)')
  <2>1. now \in Nat
    BY InstantAssumption DEF TypeOK, Instant
  <2>2. QED
    BY <1>0, <1>b, <2>1, MarkedKept DEF TypeOK
<1>3. CASE WatchdogRuns \/ WatchdogWakesForNothing
  <2>1. /\ UNCHANGED << now, watch, target, readVars >>
        /\ pc # "wake" /\ pc' # "wake"
    BY <1>3
    DEF WatchdogRuns, WatchdogWakesForNothing, ScanBegin, ScanEntry, ScanEnd,
        WaitForNext, WaitTimesOut, SpuriousWakeup
  <2>2. QED
    BY <1>b, <2>1 DEF HeardInv, Heard, Waiting, InPoll, readVars
<1>4. CASE WakeAbsence
  <2>1. target \in Readers /\ WakeSlot(target)
    BY <1>4 DEF HeardInv, WakeAbsence, Wake
  <2>2. UNCHANGED << now, watch, early, error, callback, call, unread >>
        /\ pc' # "wake"
    BY <1>4 DEF WakeAbsence, Wake
  <2>3. ASSUME NEW t \in Tasks, Sole(t), Waiting(t)
        PROVE  Heard(t)'
    <3>1. CASE ReaderOf[t] = target
      BY <2>1, <2>2, <2>3, <3>1, WakeSlotWakes DEF Heard
    <3>2. CASE ReaderOf[t] # target
      BY <1>b, <2>1, <2>2, <2>3, <3>2, WakeSlotWakes
      DEF HeardInv, Heard, InPoll
    <3>3. QED
      BY <3>1, <3>2
  <2>4. QED
    BY <1>b, <2>1, <2>2, <2>3, WakeSlotWakes DEF HeardInv, Waiting
<1>5. CASE WakeAbsencePanics
  <2>1. target \in Readers
    BY <1>5 DEF HeardInv, WakeAbsencePanics, WakePanics
  <2>2. /\ UNCHANGED << now, watch, early, error, callback, woken, unread >>
        /\ pc' # "wake"
        /\ slot[target] # None
        /\ call' = [call EXCEPT ![slot[target]] = "panicked"]
        /\ slot' = [slot EXCEPT ![target] = None]
    BY <1>5 DEF WakeAbsencePanics, WakePanics
  <2>3. ASSUME NEW t \in Tasks, Sole(t), Waiting(t)'
        PROVE  Heard(t)'
    <3>1. ReaderOf[t] # target
      BY <2>1, <2>2, <2>3 DEF HeardInv, Heard, ReadTypeOK, Sole, Waiting
    <3>2. Waiting(t) /\ call'[t] = call[t]
      BY <2>2, <2>3 DEF ReadTypeOK, Waiting
    <3>3. QED
      BY <1>b, <2>1, <2>2, <2>3, <3>1, <3>2
      DEF HeardInv, Heard, InPoll, ReadTypeOK
  <2>4. QED
    BY <1>b, <2>1, <2>2, <2>3 DEF HeardInv, ReadTypeOK, Sole
<1>6. ASSUME NEW r \in Readers, NewReader(r)
      PROVE  HeardInv'
  <2>1. /\ UNCHANGED << now, pc, target, readVars >>
        /\ watch' = [watch EXCEPT ![r] = NewAt(now)]
    BY <1>6 DEF NewReader, Create, watchdogVars
  <2>2. ~ Marked(r)'
    BY <2>1 DEF TypeOK, Marked, NewAt, Absent
  <2>3. \A x \in Readers : (Marked(x)' => Marked(x))
                           /\ (Marked(x)' => Expired(x)')
    <3>1. now \in Nat
      BY InstantAssumption DEF TypeOK, Instant
    <3>2. QED
      BY <1>0, <2>1, <2>2, <3>1, MarkedKept DEF TypeOK, readVars
  <2>4. QED
    BY <2>1, <2>3 DEF HeardInv, Heard, Waiting, InPoll, readVars
<1>7. ASSUME NEW r \in Readers, ClientFinishes(r)
      PROVE  HeardInv'
  <2>1. /\ UNCHANGED << now, watch, target, readVars >>
        /\ pc' = "wake" <=> pc = "wake"
    BY <1>7 DEF ClientFinishes, Register, Reschedule, NotifyOne
  <2>2. QED
    BY <1>b, <2>1 DEF HeardInv, Heard, Waiting, InPoll, readVars
<1>8. ASSUME NEW r \in Readers, NEW kind \in {"valid", "invalid"},
             Arrive(r, kind)
      PROVE  HeardInv'
  <2>1. UNCHANGED << now, watch, early, pc, target, slot, error, call, woken >>
    BY <1>8 DEF Arrive, vars, watchdogVars
  <2>2. \A x \in Readers : callback'[x].missed = callback[x].missed
    BY <1>8 DEF Arrive, ReadTypeOK, Callback
  <2>3. \A x \in Readers : unread'[x] =>
          callback'[x].data \/ (unread[x] /\ ~ callback[x].data)
    BY <1>8 DEF Arrive, ReadTypeOK, Callback
  <2>4. QED
    BY <1>b, <2>1, <2>2, <2>3 DEF HeardInv, Heard, Waiting, InPoll
<1>9. ASSUME NEW r \in Readers, OnDataAvailable(r)
      PROVE  HeardInv'
  <2>1. UNCHANGED << now, watch, early, pc, target, error, call, unread >>
        /\ WakeSlot(r)
    BY <1>9 DEF OnDataAvailable, vars, watchdogVars
  <2>2. \A x \in Readers : /\ callback'[x].missed = callback[x].missed
                           /\ x # r => callback'[x] = callback[x]
    BY <1>9 DEF OnDataAvailable, ReadTypeOK, Callback
  <2>3. ASSUME NEW t \in Tasks, Sole(t), Waiting(t)
        PROVE  Heard(t)'
    <3>1. CASE ReaderOf[t] = r
      BY <2>1, <2>3, <3>1, WakeSlotWakes DEF Heard
    <3>2. CASE ReaderOf[t] # r
      BY <1>b, <2>1, <2>2, <2>3, <3>2, WakeSlotWakes
      DEF HeardInv, Heard, InPoll
    <3>3. QED
      BY <3>1, <3>2
  <2>4. QED
    BY <1>b, <2>1, <2>3, WakeSlotWakes DEF HeardInv, Waiting
<1>10. ASSUME NEW r \in Readers, OnDeadlineMissed(r)
       PROVE  HeardInv'
  <2>1. /\ UNCHANGED << now, watch, early, pc, target, slot, call, woken,
                        unread >>
        /\ error' = [error EXCEPT ![r] = TRUE]
    BY <1>10 DEF OnDeadlineMissed, vars, watchdogVars
  <2>2. \A x \in Readers : /\ callback'[x].data = callback[x].data
                           /\ x # r => callback'[x] = callback[x]
                           /\ callback'[r].missed
    BY <1>10 DEF OnDeadlineMissed, ReadTypeOK, Callback
  <2>3. QED
    BY <1>b, <2>1, <2>2 DEF HeardInv, Heard, Waiting, InPoll, ReadTypeOK
<1>11. ASSUME NEW r \in Readers, DeadlineWakes(r)
       PROVE  HeardInv'
  <2>1. UNCHANGED << now, watch, early, pc, target, error, call, unread >>
        /\ WakeSlot(r)
    BY <1>11 DEF DeadlineWakes, vars, watchdogVars
  <2>2. \A x \in Readers : x # r => callback'[x] = callback[x]
    BY <1>11 DEF DeadlineWakes, ReadTypeOK, Callback
  <2>3. ASSUME NEW t \in Tasks, Sole(t), Waiting(t)
        PROVE  Heard(t)'
    <3>1. CASE ReaderOf[t] = r
      BY <2>1, <2>3, <3>1, WakeSlotWakes DEF Heard
    <3>2. CASE ReaderOf[t] # r
      BY <1>b, <2>1, <2>2, <2>3, <3>2, WakeSlotWakes
      DEF HeardInv, Heard, InPoll
    <3>3. QED
      BY <3>1, <3>2
  <2>4. QED
    BY <1>b, <2>1, <2>3, WakeSlotWakes DEF HeardInv, Waiting
<1>12. ASSUME NEW r \in Readers, NEW count \in 0 .. 1, OnMatched(r, count)
       PROVE  HeardInv'
  <2>1. /\ UNCHANGED << now, pc, target, slot, error, callback, call, woken,
                        unread >>
        /\ watch' = [watch EXCEPT ![r] = UpdateAt(watch[r], count, now)]
        /\ early' = IF count > 0 THEN early \ {r} ELSE early
    BY <1>12 DEF OnMatched, Update, watchdogVars
  <2>2. Marked(r)' => watch'[r] = watch[r] /\ early' = early
    BY <2>1 DEF TypeOK, Marked, UpdateAt, Absent, Present, IsMeasuring
  <2>3. \A x \in Readers : x # r => watch'[x] = watch[x]
                                    /\ (x \in early <=> x \in early')
    BY <2>1 DEF TypeOK
  <2>4. \A x \in Readers : (Marked(x)' => Marked(x))
                           /\ (Marked(x)' => Expired(x)')
    <3>1. now \in Nat
      BY InstantAssumption DEF TypeOK, Instant
    <3>2. QED
      BY <1>0, <2>1, <2>2, <2>3, <3>1, MarkedKept DEF TypeOK
  <2>5. QED
    BY <2>1, <2>4 DEF HeardInv, Heard, Waiting, InPoll
<1>13. ASSUME NEW r \in Readers, MarkAbsence(r)
       PROVE  HeardInv'
  <2>1. /\ UNCHANGED << now, slot, error, callback, call, woken, unread >>
        /\ watch' = [watch EXCEPT ![r] = MarkNotified(watch[r])]
        /\ pc = "notify" /\ pc' = "wake" /\ target' = r
        /\ early' = IF /\ IsMeasuring(watch[r])
                       /\ ~ IsAbsentAt(watch[r], Timeout[r], now)
                    THEN early \cup {r} ELSE early
    BY <1>13 DEF MarkAbsence, Mark
  <2>2. Marked(r)' => Expired(r)'
    BY <2>1
    DEF TypeOK, Marked, Expired, MarkNotified, IsAbsentAt, IsMeasuring, Absent
  <2>3. \A x \in Readers : x # r => watch'[x] = watch[x]
                                    /\ (x \in early <=> x \in early')
    BY <2>1 DEF TypeOK
  <2>4. \A x \in Readers : (x # r => (Marked(x)' => Marked(x)))
                           /\ (Marked(x)' => Expired(x)')
    <3>1. now \in Nat
      BY InstantAssumption DEF TypeOK, Instant
    <3>2. QED
      BY <1>0, <2>1, <2>2, <2>3, <3>1, MarkedKept DEF TypeOK
  <2>5. QED
    BY <2>1, <2>4 DEF HeardInv, Heard, Waiting, InPoll
<1>14. ASSUME NEW r \in Readers, DropReader(r)
       PROVE  HeardInv'
  <2>1. UNCHANGED << now, watch, early, pc, target, slot, error, call, woken,
                     unread >>
    BY <1>14 DEF DropReader, Drop, watchdogVars
  <2>2. /\ callback' = [callback EXCEPT ![r].data = FALSE]
        /\ \A t \in Tasks : ReaderOf[t] = r => ~ Waiting(t)
    BY <1>14 DEF DropReader, Waiting, Outcome
  <2>3. \A x \in Readers : x # r => callback'[x] = callback[x]
    BY <2>2 DEF ReadTypeOK
  <2>4. QED
    BY <1>b, <2>1, <2>2, <2>3 DEF HeardInv, Heard, Waiting, InPoll
<1>c. ASSUME NEW t \in Tasks, UNCHANGED << vars, callback, early >>,
             \A u \in Tasks : u # t => UNCHANGED << call[u], woken[u] >>,
             \A x \in Readers : slot'[x] # None => ReaderOf[slot'[x]] = x,
             \A x \in Readers : x # ReaderOf[t] =>
               UNCHANGED << slot[x], error[x], unread[x] >>,
             Sole(t) /\ Waiting(t)' => Heard(t)'
      PROVE  HeardInv'
  <2>1. UNCHANGED << now, watch, early, pc, target, callback >>
    BY <1>c DEF vars, watchdogVars
  <2>2. ASSUME NEW u \in Tasks, Sole(u), Waiting(u)', u # t
        PROVE  Heard(u)'
    <3>1. ReaderOf[u] # ReaderOf[t]
      BY <2>2 DEF Sole
    <3>2. QED
      BY <1>b, <1>c, <2>1, <2>2, <3>1 DEF HeardInv, Heard, Waiting, InPoll
  <2>3. QED
    BY <1>b, <1>c, <2>1, <2>2 DEF HeardInv, Sole
<1>15. ASSUME NEW t \in Tasks, Call(t)
       PROVE  HeardInv'
  <2>1. Heard(t)'
    BY <1>15 DEF Call, Heard, ReadTypeOK
  <2>2. QED
    BY <1>15, <1>c, <2>1 DEF Call, HeardInv, ReadTypeOK
<1>16. ASSUME NEW t \in Tasks, PollRegister(t)
       PROVE  HeardInv'
  <2>1. /\ call'[t] = "takeError"
        /\ slot'[ReaderOf[t]] = t
        /\ \A x \in Readers : x # ReaderOf[t] => slot'[x] = slot[x]
        /\ UNCHANGED << error, unread >>
    BY <1>16 DEF PollRegister, CallGoes, ReadTypeOK
  <2>2. Heard(t)'
    BY <2>1 DEF Heard, InPoll
  <2>3. QED
    BY <1>16, <1>c, <2>1, <2>2
    DEF PollRegister, CallGoes, HeardInv, ReadTypeOK
<1>17. ASSUME NEW t \in Tasks, PollTakeError(t)
       PROVE  HeardInv'
  <2>1. Waiting(t) /\ ~ error'[ReaderOf[t]] /\ call'[t] \in {"read", "missed"}
    BY <1>17 DEF PollTakeError, CallGoes, Waiting, ReadTypeOK
  <2>2. UNCHANGED << now, watch, early, pc, target, callback, slot, woken,
                     unread >>
    BY <1>17 DEF PollTakeError, vars, watchdogVars
  <2>3. Sole(t) /\ Waiting(t)' => Heard(t)'
    BY <1>b, <2>1, <2>2 DEF HeardInv, Heard, Waiting, InPoll
  <2>4. QED
    BY <1>17, <1>c, <2>2, <2>3
    DEF PollTakeError, CallGoes, HeardInv, ReadTypeOK
<1>18. ASSUME NEW t \in Tasks, PollRead(t)
       PROVE  HeardInv'
  <2>1. Waiting(t) /\ ~ unread'[ReaderOf[t]] /\ call'[t] \in {"ok", "absence"}
    BY <1>18 DEF PollRead, CallGoes, Waiting, ReadTypeOK
  <2>2. UNCHANGED << now, watch, early, pc, target, callback, slot, woken,
                     error >>
    BY <1>18 DEF PollRead, vars, watchdogVars
  <2>3. Sole(t) /\ Waiting(t)' => Heard(t)'
    <3>1. call[t] = "read"
      BY <1>18 DEF PollRead, CallGoes
    <3>2. QED
      BY <1>b, <2>1, <2>2, <3>1 DEF HeardInv, Heard, Waiting, InPoll
  <2>4. QED
    BY <1>18, <1>c, <2>2, <2>3 DEF PollRead, CallGoes, HeardInv, ReadTypeOK
<1>19. ASSUME NEW t \in Tasks, PollAbsence(t)
       PROVE  HeardInv'
  <2>1. UNCHANGED << now, watch, early, pc, target, callback, slot, woken,
                     error, unread >>
    BY <1>19 DEF PollAbsence, vars, watchdogVars
  <2>2. Sole(t) /\ Waiting(t)' => Heard(t)'
    <3>1. call[t] = "absence"
      BY <1>19 DEF PollAbsence, CallGoes
    <3>2. Waiting(t)' => ~ Expired(ReaderOf[t])
      BY <1>19 DEF PollAbsence, CallGoes, Waiting, Expired, ReadTypeOK
    <3>3. Waiting(t)' => ~ Marked(ReaderOf[t])
      BY <3>2 DEF HeardInv
    <3>4. QED
      BY <1>b, <2>1, <3>1, <3>3 DEF HeardInv, Heard, Waiting, InPoll
  <2>3. QED
    BY <1>19, <1>c, <2>1, <2>2 DEF PollAbsence, CallGoes, HeardInv, ReadTypeOK
<1>20. ASSUME NEW t \in Tasks, PollReadFails(t) \/ Cancel(t)
       PROVE  HeardInv'
  <2>1. ~ Waiting(t)'
    BY <1>20 DEF PollReadFails, Cancel, CallGoes, Waiting, ReadTypeOK
  <2>2. QED
    BY <1>20, <1>c, <2>1
    DEF PollReadFails, Cancel, CallGoes, HeardInv, ReadTypeOK
<1>21. QED
  BY <1>1, <1>2, <1>3, <1>4, <1>5, <1>6, <1>7, <1>8, <1>9, <1>10, <1>11,
     <1>12, <1>13, <1>14, <1>15, <1>16, <1>17, <1>18, <1>19, <1>20
  DEF ReadNext, Dds, Poll

(* HeardInv is strong enough for both promises to a parked future *)
LEMMA HeardInvSuffices == HeardInv => NoLostWakeup /\ NoLostAbsence
BY AsyncReaderAssumption
DEF HeardInv, Heard, NoLostWakeup, NoLostAbsence, Parked, Waiting, InPoll,
    Marked, Expired, IsAbsentAt

(* HeardInv holds in every reachable state of the composition *)
LEMMA HeardInvHolds == ReadSpec => []HeardInv
BY HeardInvInit, HeardInvStep, ReadWatchdogTypeCorrect, ReadTypeCorrect, PTL
DEF ReadSpec

(***************************************************************************)
(* No sample and no missed deadline is slept over (futures::read registers *)
(* before it checks; data_reader_listener wakes after it stores).          *)
(***************************************************************************)
THEOREM WakeupsAreNotLost == ReadSpec => []NoLostWakeup
BY HeardInvHolds, HeardInvSuffices, PTL

(***************************************************************************)
(* No absence marked after its deadline is slept over (notify_absence      *)
(* marks before it wakes, the poll registers before it asks the watch).    *)
(***************************************************************************)
THEOREM AbsencesAreNotLost == ReadSpec => []NoLostAbsence
BY HeardInvHolds, HeardInvSuffices, PTL

---------------------------------------------------------------------------
(***************************************************************************)
(* The refinement of the contract.  A reader that is not created yet is    *)
(* not measured: this is what the initial state adds to the types.         *)
(***************************************************************************)
UnbornInv == \A r \in Readers : client[r] = "unborn" => watch[r] = Present

(* No reader is born measured *)
LEMMA UnbornHolds == ReadSpec => []UnbornInv
<1>1. ReadInit => UnbornInv
  BY DEF ReadInit, Init, UnbornInv
<1>2. TypeOK /\ UnbornInv /\ [Next]_vars => UnbornInv'
  <2> SUFFICES ASSUME TypeOK, UnbornInv, [Next]_vars,
                      NEW r \in Readers, client'[r] = "unborn"
               PROVE  watch'[r] = Present
    BY DEF UnbornInv
  <2>1. ASSUME NEW x \in Readers, Client(x)
        PROVE  client[r] = "unborn" /\ watch'[r] = watch[r]
    BY <2>1 DEF Client, Create, Register, Update, Reschedule, NotifyOne, Drop,
                ClientGoes, TypeOK
  <2>2. ASSUME NEW x \in Readers, Mark(x)
        PROVE  watch'[r] = Present
    <3>1. watch[r] = Present /\ MarkNotified(Present) = Present
      BY <2>2 DEF Mark, MarkNotified, IsMeasuring, Present, UnbornInv
    <3>2. watch'[r] \in {watch[r], MarkNotified(watch[r])}
      BY <2>2 DEF Mark, TypeOK
    <3>3. QED
      BY <3>1, <3>2
  <2>3. CASE UNCHANGED << watch, client >>
    BY <2>3 DEF UnbornInv
  <2>4. QED
    BY <2>1, <2>2, <2>3
    DEF Next, WatchdogThread, Tick, ScanBegin, ScanEntry, ScanEnd, Wake,
        WakePanics, WaitForNext, WaitTimesOut, SpuriousWakeup, UnbornInv,
        vars, watchdogVars
<1>3. QED
  BY <1>1, <1>2, ReadStepIsWatchdogStep, ReadWatchdogTypeCorrect, PTL
  DEF ReadSpec

(* The first states of the composition are the contract's *)
LEMMA ContractInitRefined == ReadInit => Contract!ContractInit
<1> SUFFICES ASSUME ReadInit
             PROVE  Contract!ContractInit
  OBVIOUS
<1>1. \A r \in Readers : IsMeasuring(watch[r]) = FALSE
  BY DEF ReadInit, Init, IsMeasuring, Present
<1>2. \A t \in Tasks : call[t] = "idle" /\ ~ Waiting(t)
  BY DEF ReadInit, Waiting
<1>3. error = [r \in Readers |-> FALSE]
  BY DEF ReadInit
<1>4. QED
  BY <1>1, <1>2, <1>3 DEF Contract!ContractInit

(* A step that changes no watch changes neither silence nor its measure *)
LEMMA SameWatch ==
  ASSUME UNCHANGED << now, watch >>
  PROVE  UNCHANGED << [r \in Readers |-> IsMeasuring(watch[r])],
                      [r \in Readers |-> IF IsMeasuring(watch[r])
                                         THEN now - watch[r].since ELSE 0] >>
BY DEF IsMeasuring

(* Every step maps to a step of the contract or to a stutter *)
LEMMA ContractStepRefined ==
  TypeOK /\ ReadTypeOK /\ HeardInv /\ UnbornInv /\ [ReadNext]_allVars
    => [Contract!ContractNext]_(Contract!contractVars)
<1> SUFFICES ASSUME TypeOK, ReadTypeOK, HeardInv, UnbornInv,
                    [ReadNext]_allVars
             PROVE  [Contract!ContractNext]_(Contract!contractVars)
  OBVIOUS
<1> DEFINE Counting == [r \in Readers |-> IsMeasuring(watch[r])]
           Silence == [r \in Readers |-> IF IsMeasuring(watch[r])
                                         THEN now - watch[r].since ELSE 0]
           Status == [t \in Tasks |-> IF Waiting(t) THEN "waiting"
                                      ELSE call[t]]
<1> USE AsyncReaderAssumption
<1>m. UNCHANGED << now, watch >> => UNCHANGED << Counting, Silence >>
  BY SameWatch
<1>s. UNCHANGED call => UNCHANGED Status
  BY DEF Waiting
<1> HIDE DEF Counting, Silence, Status
<1>1. ASSUME UNCHANGED << now, watch, error, call >>
      PROVE  UNCHANGED Contract!contractVars
  BY <1>1, <1>m, <1>s DEF Contract!contractVars, Counting, Silence, Status
<1>2. CASE Clock
  <2>1. /\ now' = now + 1
        /\ UNCHANGED << watch, error, call >>
    BY <1>2 DEF Clock, Tick, watchdogVars, readVars
  <2>2. \A r \in Readers : IsMeasuring(watch[r]) =>
          now' - watch'[r].since = (now - watch[r].since) + 1
    BY <2>1, AbsentFields, InstantAssumption DEF TypeOK, Instant
  <2>3. Silence' = [r \in Readers |-> IF Counting[r] THEN Silence[r] + 1
                                      ELSE 0]
    BY <2>1, <2>2 DEF Silence, Counting, IsMeasuring
  <2>4. UNCHANGED << Counting, Status >>
    BY <2>1, <1>s DEF Counting, IsMeasuring
  <2>5. Contract!TimePasses
    BY <2>1, <2>3, <2>4 DEF Contract!TimePasses, Counting, Silence, Status
  <2>6. QED
    BY <2>5 DEF Contract!ContractNext
<1>3. ASSUME NEW r \in Readers, NEW s \in MatchState,
             watch' = [watch EXCEPT ![r] = s],
             UNCHANGED << now, error, call >>,
             \/ ~ IsMeasuring(s)
             \/ IsMeasuring(s) /\ ~ IsMeasuring(watch[r]) /\ s.since = now
             \/ /\ IsMeasuring(s) /\ IsMeasuring(watch[r])
                /\ s.since = watch[r].since
      PROVE  [Contract!ContractNext]_(Contract!contractVars)
  <2>1. UNCHANGED Status
    BY <1>3, <1>s
  <2>2. CASE ~ IsMeasuring(s)
    <3>1. /\ Counting' = [Counting EXCEPT ![r] = FALSE]
          /\ Silence' = [Silence EXCEPT ![r] = 0]
      BY <1>3, <2>2 DEF Counting, Silence, TypeOK, IsMeasuring
    <3>2. Contract!WriterMatched(r)
      BY <1>3, <2>1, <3>1
      DEF Contract!WriterMatched, Counting, Silence, Status
    <3>3. QED
      BY <3>2 DEF Contract!ContractNext
  <2>3. CASE IsMeasuring(s) /\ ~ IsMeasuring(watch[r]) /\ s.since = now
    <3>1. now - now = 0
      BY InstantAssumption DEF TypeOK, Instant
    <3>2. /\ Counting' = [Counting EXCEPT ![r] = TRUE]
          /\ ~ Counting[r]
          /\ Silence' = Silence
      BY <1>3, <2>3, <3>1 DEF Counting, Silence, TypeOK, IsMeasuring
    <3>3. Contract!WriterGone(r)
      BY <1>3, <2>1, <3>2 DEF Contract!WriterGone, Counting, Silence, Status
    <3>4. QED
      BY <3>3 DEF Contract!ContractNext
  <2>4. CASE /\ IsMeasuring(s) /\ IsMeasuring(watch[r])
             /\ s.since = watch[r].since
    <3>1. UNCHANGED << Counting, Silence >>
      BY <1>3, <2>4 DEF Counting, Silence, TypeOK, IsMeasuring
    <3>2. QED
      BY <1>3, <2>1, <3>1
      DEF Contract!contractVars, Counting, Silence, Status
  <2>5. QED
    BY <1>3, <2>2, <2>3, <2>4
<1>4. ASSUME NEW r \in Readers, NewReader(r)
      PROVE  [Contract!ContractNext]_(Contract!contractVars)
  <2>1. /\ watch' = [watch EXCEPT ![r] = NewAt(now)]
        /\ UNCHANGED << now, error, call >>
        /\ watch[r] = Present
    BY <1>4 DEF NewReader, Create, ClientGoes, UnbornInv, watchdogVars,
                readVars
  <2>2. /\ NewAt(now) \in MatchState
        /\ IsMeasuring(NewAt(now)) /\ NewAt(now).since = now
        /\ ~ IsMeasuring(watch[r])
    BY <2>1, NewAtType DEF TypeOK, NewAt, Absent, IsMeasuring, Present
  <2>3. QED
    BY <1>3, <2>1, <2>2
<1>5. ASSUME NEW r \in Readers, NEW count \in 0 .. 1, OnMatched(r, count)
      PROVE  [Contract!ContractNext]_(Contract!contractVars)
  <2> DEFINE s == UpdateAt(watch[r], count, now)
  <2>1. watch' = [watch EXCEPT ![r] = s] /\ UNCHANGED << now, error, call >>
    BY <1>5 DEF OnMatched, Update, watchdogVars
  <2>2. s \in MatchState
    BY UpdateAtType DEF TypeOK
  <2>3. \/ ~ IsMeasuring(s)
        \/ IsMeasuring(s) /\ ~ IsMeasuring(watch[r]) /\ s.since = now
        \/ /\ IsMeasuring(s) /\ IsMeasuring(watch[r])
           /\ s.since = watch[r].since
    BY DEF UpdateAt, Absent, Present, IsMeasuring
  <2>4. QED
    BY <1>3, <2>1, <2>2, <2>3
<1>6. ASSUME NEW r \in Readers, MarkAbsence(r)
      PROVE  [Contract!ContractNext]_(Contract!contractVars)
  <2> DEFINE s == MarkNotified(watch[r])
  <2>1. watch' = [watch EXCEPT ![r] = s] /\ UNCHANGED << now, error, call >>
    BY <1>6 DEF MarkAbsence, Mark
  <2>2. s \in MatchState
    BY MarkNotifiedType DEF TypeOK
  <2>3. \/ ~ IsMeasuring(s)
        \/ /\ IsMeasuring(s) /\ IsMeasuring(watch[r])
           /\ s.since = watch[r].since
    BY DEF MarkNotified, Absent, IsMeasuring
  <2>4. QED
    BY <1>3, <2>1, <2>2, <2>3
<1>7. CASE UNCHANGED allVars \/ WatchdogRuns \/ WatchdogWakesForNothing
  <2>1. UNCHANGED << now, watch, error, call >>
    BY <1>7
    DEF allVars, vars, readVars, WatchdogRuns, WatchdogWakesForNothing,
        ScanBegin, ScanEntry, ScanEnd, WaitForNext, WaitTimesOut,
        SpuriousWakeup
  <2>2. QED
    BY <1>1, <2>1
<1>8. CASE WakeAbsence
  BY <1>1, <1>8 DEF WakeAbsence, Wake
<1>9. ASSUME NEW r \in Readers,
             \/ ClientFinishes(r) \/ DropReader(r)
             \/ OnDataAvailable(r) \/ DeadlineWakes(r)
             \/ \E kind \in {"valid", "invalid"} : Arrive(r, kind)
      PROVE  [Contract!ContractNext]_(Contract!contractVars)
  <2>1. UNCHANGED << now, watch, error, call >>
    BY <1>9
    DEF ClientFinishes, Register, Reschedule, NotifyOne, DropReader, Drop,
        OnDataAvailable, DeadlineWakes, Arrive, vars, watchdogVars, readVars
  <2>2. QED
    BY <1>1, <2>1
<1>10. ASSUME NEW r \in Readers, OnDeadlineMissed(r)
       PROVE  [Contract!ContractNext]_(Contract!contractVars)
  <2>1. /\ UNCHANGED << now, watch, call >>
        /\ error' = [error EXCEPT ![r] = TRUE]
    BY <1>10 DEF OnDeadlineMissed, vars
  <2>2. Contract!DeadlineMissed(r)
    BY <2>1, <1>m, <1>s
    DEF Contract!DeadlineMissed, Counting, Silence, Status
  <2>3. QED
    BY <2>2 DEF Contract!ContractNext
<1>e. ASSUME NEW t \in Tasks, NEW outcome \in CallStep,
             UNCHANGED << now, watch >>,
             call' = [call EXCEPT ![t] = outcome]
      PROVE  /\ UNCHANGED << Counting, Silence >>
             /\ Status' = [Status EXCEPT ![t] =
                             IF outcome \in {"await", "takeError", "read",
                                             "absence"}
                             THEN "waiting" ELSE outcome]
  BY <1>e, <1>m DEF ReadTypeOK, Status, Waiting
<1>11. ASSUME NEW t \in Tasks, Call(t)
       PROVE  [Contract!ContractNext]_(Contract!contractVars)
  <2>1. /\ UNCHANGED << now, watch, error >>
        /\ call' = [call EXCEPT ![t] = "await"] /\ "await" \in CallStep
    BY <1>11 DEF Call, vars, CallStep
  <2>2. Status[t] # "waiting"
    BY <1>11 DEF Call, Status, Waiting, Outcome
  <2>3. UNCHANGED << Counting, Silence >>
        /\ Status' = [Status EXCEPT ![t] = "waiting"]
    BY <2>1, <1>e
  <2>4. Contract!BeginRead(t)
    BY <2>1, <2>2, <2>3 DEF Contract!BeginRead, Counting, Silence, Status
  <2>5. QED
    BY <2>4 DEF Contract!ContractNext
<1>12. ASSUME NEW t \in Tasks, UNCHANGED << now, watch, error >>,
              Waiting(t),
              call' \in { [call EXCEPT ![t] = o] :
                          o \in {"takeError", "read", "absence", "await"} }
       PROVE  [Contract!ContractNext]_(Contract!contractVars)
  <2>1. \A u \in Tasks : Waiting(u)' <=> Waiting(u)
    BY <1>12 DEF Waiting, ReadTypeOK
  <2>2. \A u \in Tasks : ~ Waiting(u) => call'[u] = call[u]
    BY <1>12 DEF Waiting, ReadTypeOK
  <2>3. UNCHANGED Status
    BY <2>1, <2>2 DEF Status
  <2>4. QED
    BY <1>12, <1>m, <2>3 DEF Contract!contractVars, Counting, Silence, Status
<1>13. ASSUME NEW t \in Tasks, UNCHANGED << now, watch, error >>,
              Waiting(t),
              NEW o \in {"ok", "ddsError", "cancelled", "panicked"},
              call' = [call EXCEPT ![t] = o]
       PROVE  [Contract!ContractNext]_(Contract!contractVars)
  <2>1. o \in CallStep
    BY DEF CallStep, Outcome
  <2>2. UNCHANGED << Counting, Silence >> /\ Status' = [Status EXCEPT ![t] = o]
    BY <1>13, <1>e, <2>1
  <2>3. Status[t] = "waiting"
    BY <1>13 DEF Status
  <2>4. Contract!EndPlainly(t)
    BY <1>13, <2>2, <2>3
    DEF Contract!EndPlainly, Contract!End, Counting, Silence, Status
  <2>5. QED
    BY <2>4 DEF Contract!ContractNext
<1>14. CASE WakeAbsencePanics
  <2>1. target \in Readers
    BY <1>14 DEF HeardInv, WakeAbsencePanics, WakePanics
  <2>2. /\ slot[target] \in Tasks
        /\ Waiting(slot[target])
        /\ call' = [call EXCEPT ![slot[target]] = "panicked"]
        /\ UNCHANGED << now, watch, error >>
    BY <1>14, <2>1 DEF WakeAbsencePanics, WakePanics, ReadTypeOK, Waiting
  <2>3. QED
    BY <1>13, <2>2
<1>15. ASSUME NEW t \in Tasks, PollRegister(t)
       PROVE  [Contract!ContractNext]_(Contract!contractVars)
  BY <1>12, <1>15 DEF PollRegister, CallGoes, Waiting, vars
<1>16. ASSUME NEW t \in Tasks, PollTakeError(t)
       PROVE  [Contract!ContractNext]_(Contract!contractVars)
  <2> DEFINE r == ReaderOf[t]
  <2>1. /\ UNCHANGED << now, watch >> /\ Waiting(t)
        /\ error' = [error EXCEPT ![r] = FALSE]
        /\ call' = [call EXCEPT ![t] = IF error[r] THEN "missed" ELSE "read"]
    BY <1>16 DEF PollTakeError, CallGoes, Waiting, vars
  <2>2. CASE error[r]
    <3>1. "missed" \in CallStep
      BY DEF CallStep, Outcome
    <3>2. UNCHANGED << Counting, Silence >>
          /\ Status' = [Status EXCEPT ![t] = "missed"]
      BY <1>e, <2>1, <2>2, <3>1
    <3>3. Status[t] = "waiting"
      BY <2>1 DEF Status
    <3>4. Contract!EndMissed(t)
      BY <2>1, <2>2, <3>2, <3>3
      DEF Contract!EndMissed, Contract!End, Counting, Silence, Status
    <3>5. QED
      BY <3>4 DEF Contract!ContractNext
  <2>3. CASE ~ error[r]
    <3>1. UNCHANGED error
      BY <2>1, <2>3 DEF ReadTypeOK
    <3>2. QED
      BY <1>12, <2>1, <2>3, <3>1
  <2>4. QED
    BY <2>2, <2>3
<1>17. ASSUME NEW t \in Tasks, PollRead(t)
       PROVE  [Contract!ContractNext]_(Contract!contractVars)
  <2>1. /\ UNCHANGED << now, watch, error >> /\ Waiting(t)
        /\ \/ call' = [call EXCEPT ![t] = "ok"]
           \/ call' = [call EXCEPT ![t] = "absence"]
    BY <1>17 DEF PollRead, CallGoes, Waiting, vars
  <2>2. QED
    BY <1>12, <1>13, <2>1
<1>18. ASSUME NEW t \in Tasks, PollReadFails(t) \/ Cancel(t)
       PROVE  [Contract!ContractNext]_(Contract!contractVars)
  BY <1>13, <1>18 DEF PollReadFails, Cancel, CallGoes, Waiting, vars
<1>19. ASSUME NEW t \in Tasks, PollAbsence(t)
       PROVE  [Contract!ContractNext]_(Contract!contractVars)
  <2> DEFINE r == ReaderOf[t]
  <2>1. /\ UNCHANGED << now, watch, error >> /\ Waiting(t)
        /\ call' = [call EXCEPT ![t] = IF Expired(r) THEN "noWriter"
                                       ELSE "await"]
    BY <1>19 DEF PollAbsence, CallGoes, Waiting, Expired, vars
  <2>2. CASE Expired(r)
    <3>1. "noWriter" \in CallStep
      BY DEF CallStep, Outcome
    <3>2. UNCHANGED << Counting, Silence >>
          /\ Status' = [Status EXCEPT ![t] = "noWriter"]
      BY <1>e, <2>1, <2>2, <3>1
    <3>3. Status[t] = "waiting" /\ Counting[r] /\ Silence[r] >= Timeout[r]
      BY <2>1, <2>2 DEF Status, Counting, Silence, Expired, IsAbsentAt
    <3>4. Contract!EndNoWriter(t)
      BY <2>1, <3>2, <3>3
      DEF Contract!EndNoWriter, Contract!End, Counting, Silence, Status
    <3>5. QED
      BY <3>4 DEF Contract!ContractNext
  <2>3. CASE ~ Expired(r)
    BY <1>12, <2>1, <2>3
  <2>4. QED
    BY <2>2, <2>3
<1>20. QED
  BY <1>2, <1>4, <1>5, <1>6, <1>7, <1>8, <1>9, <1>10, <1>11, <1>14, <1>15,
     <1>16, <1>17, <1>18, <1>19
  DEF ReadNext, Dds, Poll

(***************************************************************************)
(* Futures, wakers, callbacks and watchdog implement the contract: a read  *)
(* fails with NoMatchedWriter only after a whole timeout of silence, and a *)
(* missed deadline is reported once, however many tasks await.             *)
(***************************************************************************)
THEOREM ContractImplemented == ReadSpec => ImplementsContract
BY ContractInitRefined, ContractStepRefined, ReadWatchdogTypeCorrect,
   ReadTypeCorrect, HeardInvHolds, UnbornHolds, PTL
DEF ReadSpec, ImplementsContract, Contract!ContractSpec

---------------------------------------------------------------------------
(***************************************************************************)
(* Samples, for readers whose topic has no invalid ones (MaxInvalid = 0).  *)
(* With invalid samples neither property holds: see the findings.          *)
(***************************************************************************)
LookedFirst ==
  \A t \in Tasks :
    call[t] = "absence" => cache[ReaderOf[t]].valid = 0 \/ t \in fresh

(* Without invalid samples a batch without a valid one is empty *)
LEMMA NoValidMeansEmpty ==
  ASSUME MaxInvalid = 0, NEW c \in Cache, NEW b \in Batch(c), ~ b.first
  PROVE  c.valid = 0 /\ b.valid = 0
BY AsyncReaderAssumption DEF Cache, Batch

(* A poll that asks for absence has looked at the cache first *)
LEMMA LookedFirstHolds == MaxInvalid = 0 /\ ReadSpec => []LookedFirst
<1> SUFFICES ASSUME MaxInvalid = 0
             PROVE  ReadSpec => []LookedFirst
  OBVIOUS
<1>1. ReadInit => LookedFirst
  BY DEF ReadInit, LookedFirst
<1>2. ReadTypeOK /\ LookedFirst /\ [ReadNext]_allVars => LookedFirst'
  <2> SUFFICES ASSUME ReadTypeOK, LookedFirst, [ReadNext]_allVars,
                      NEW t \in Tasks, call'[t] = "absence"
               PROVE  cache'[ReaderOf[t]].valid = 0 \/ t \in fresh'
    BY DEF LookedFirst
  <2> USE AsyncReaderAssumption DEF history
  <2>1. ASSUME NEW r \in Readers, NEW kind \in {"valid", "invalid"},
               Arrive(r, kind)
        PROVE  cache'[ReaderOf[t]].valid = 0 \/ t \in fresh'
    BY <2>1 DEF Arrive, InPoll, LookedFirst, ReadTypeOK
  <2>2. ASSUME NEW u \in Tasks, PollRead(u)
        PROVE  cache'[ReaderOf[t]].valid = 0 \/ t \in fresh'
    <3> DEFINE r == ReaderOf[u]
    <3>1. PICK b \in Batch(cache[r]) :
            /\ call' = [call EXCEPT ![u] = IF b.first THEN "ok" ELSE "absence"]
            /\ cache' = IF u \in Takers
                        THEN [cache EXCEPT ![r] =
                                [valid |-> @.valid - b.valid,
                                 invalid |-> @.invalid - b.invalid]]
                        ELSE cache
            /\ fresh' = fresh
      BY <2>2 DEF PollRead, CallGoes
    <3>2. cache[r] \in Cache /\ cache[ReaderOf[t]] \in Cache
      BY DEF ReadTypeOK
    <3>3. cache[ReaderOf[t]].valid = 0 => cache'[ReaderOf[t]].valid = 0
      BY <3>1, <3>2 DEF ReadTypeOK, Batch, Cache
    <3>4. CASE t = u
      <4>1. ~ b.first
        BY <3>1, <3>4 DEF ReadTypeOK
      <4>2. QED
        BY <3>2, <3>3, <3>4, <4>1, NoValidMeansEmpty
    <3>5. CASE t # u
      BY <3>1, <3>3, <3>5 DEF LookedFirst, ReadTypeOK
    <3>6. QED
      BY <3>4, <3>5
  <2>3. ASSUME UNCHANGED cache,
               \/ UNCHANGED << call, fresh >>
               \/ /\ UNCHANGED fresh
                  /\ \E u, o : /\ call' = [call EXCEPT ![u] = o]
                               /\ o # "absence"
               \/ \E u : /\ fresh' = fresh \ {u}
                         /\ call' = [call EXCEPT ![u] = "takeError"]
        PROVE  cache'[ReaderOf[t]].valid = 0 \/ t \in fresh'
    BY <2>3 DEF LookedFirst, ReadTypeOK
  <2>4. ASSUME NEW r \in Readers,
               \/ NewReader(r) \/ ClientFinishes(r) \/ OnDataAvailable(r)
               \/ OnDeadlineMissed(r) \/ DeadlineWakes(r) \/ MarkAbsence(r)
               \/ DropReader(r) \/ \E count \in 0 .. 1 : OnMatched(r, count)
        PROVE  cache'[ReaderOf[t]].valid = 0 \/ t \in fresh'
    BY <2>3, <2>4
    DEF NewReader, ClientFinishes, OnDataAvailable, OnDeadlineMissed,
        DeadlineWakes, MarkAbsence, DropReader, OnMatched, readVars
  <2>5. ASSUME NEW u \in Tasks,
               \/ Call(u) \/ PollRegister(u) \/ PollTakeError(u)
               \/ PollReadFails(u) \/ PollAbsence(u) \/ Cancel(u)
        PROVE  cache'[ReaderOf[t]].valid = 0 \/ t \in fresh'
    BY <2>3, <2>5
    DEF Call, PollRegister, PollTakeError, PollReadFails, PollAbsence, Cancel,
        CallGoes
  <2>6. CASE Clock \/ WatchdogRuns \/ WatchdogWakesForNothing \/ WakeAbsence
             \/ UNCHANGED allVars
    BY <2>3, <2>6
    DEF Clock, WatchdogRuns, WatchdogWakesForNothing, WakeAbsence, allVars,
        readVars
  <2>7. CASE WakeAbsencePanics
    <3>1. UNCHANGED << cache, fresh >>
          /\ call' = [call EXCEPT ![slot[target]] = "panicked"]
      BY <2>7 DEF WakeAbsencePanics
    <3>2. QED
      BY <3>1 DEF LookedFirst, ReadTypeOK
  <2>8. QED
    BY <2>1, <2>2, <2>4, <2>5, <2>6, <2>7 DEF ReadNext, Dds, Poll
<1>3. QED
  BY <1>1, <1>2, ReadTypeCorrect, PTL DEF ReadSpec

(***************************************************************************)
(* Without invalid samples, NoMatchedWriter is never returned over a valid *)
(* sample that was there when the poll began (the NoData branch of         *)
(* futures::read).                                                         *)
(***************************************************************************)
THEOREM DataComesFirst == MaxInvalid = 0 /\ ReadSpec => DataBeforeAbsence
<1> SUFFICES ASSUME MaxInvalid = 0
             PROVE  ReadSpec => DataBeforeAbsence
  OBVIOUS
<1>1. ReadTypeOK /\ LookedFirst /\ [ReadNext]_allVars =>
        [\A t \in Tasks : LET r == ReaderOf[t] IN
           call[t] # "noWriter" /\ call'[t] = "noWriter"
             => cache[r].valid = 0 \/ t \in fresh]_allVars
  <2> SUFFICES ASSUME ReadTypeOK, LookedFirst, ReadNext, NEW t \in Tasks,
                      call[t] # "noWriter", call'[t] = "noWriter"
               PROVE  cache[ReaderOf[t]].valid = 0 \/ t \in fresh
    OBVIOUS
  <2>1. call' # call
    OBVIOUS
  <2>2. ~ WakeAbsencePanics
    BY DEF WakeAbsencePanics, ReadTypeOK
  <2>3. PICK u \in Tasks : Call(u) \/ Poll(u) \/ Cancel(u)
    BY <2>1, <2>2
    DEF ReadNext, Clock, WatchdogRuns, WatchdogWakesForNothing, WakeAbsence,
        NewReader, ClientFinishes, Dds, Arrive, OnDataAvailable,
        OnDeadlineMissed, DeadlineWakes, OnMatched, MarkAbsence, DropReader,
        readVars
  <2>4. PollAbsence(u) /\ u = t
    BY ZenonT(40), <2>3
    DEF Call, Poll, PollRegister, PollTakeError, PollRead, PollReadFails,
        PollAbsence, Cancel, CallGoes, ReadTypeOK
  <2>5. call[t] = "absence"
    BY <2>4 DEF PollAbsence, CallGoes
  <2>6. QED
    BY <2>5 DEF LookedFirst
<1>2. QED
  BY <1>1, LookedFirstHolds, ReadTypeCorrect, PTL
  DEF ReadSpec, DataBeforeAbsence

=============================================================================
