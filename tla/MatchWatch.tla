---------------------------- MODULE MatchWatch ----------------------------
(***************************************************************************)
(* The fold of "how many peers are matched" into "has the peer been away   *)
(* for a whole grace period" (cyclonedds/src/match_watch.rs, MatchWatch).  *)
(* Every method of the Rust type runs under the watch's own mutex, so each *)
(* is one operator from a MatchState to a MatchState or to a value; the    *)
(* modules that use it keep the state and the clock.                       *)
(*                                                                         *)
(* An Instant is a natural number.  MaxInstant is the last one that the    *)
(* platform represents: beyond it Instant::checked_add answers None.       *)
(***************************************************************************)
EXTENDS Naturals

CONSTANTS MaxInstant,  \* the last representable Instant
          None         \* Option::None

ASSUME InstantAssumption == MaxInstant \in Nat /\ None \notin Nat

Instant == 0 .. MaxInstant

(***************************************************************************)
(* enum MatchState.  Present carries no flag: a notified mark can exist    *)
(* only inside an absence period.                                          *)
(***************************************************************************)
Present == [kind |-> "Present"]

Absent(since, notified) ==
  [kind |-> "Absent", since |-> since, notified |-> notified]

MatchState ==
  {Present} \cup
    [kind : {"Absent"}, since : Instant, notified : BOOLEAN]

IsMeasuring(s) == s.kind = "Absent"

(* MatchWatch::new_at: no peer is matched yet, the grace period starts now *)
NewAt(t) == Absent(t, FALSE)

(* Mutant of UpdateAt: every report of zero peers restarts the period *)
UpdateAtRestarts(s, count, t) ==
  IF count > 0 THEN Present ELSE Absent(t, FALSE)

(* MatchWatch::update_at: only the transition from Present starts a period *)
UpdateAt(s, count, t) ==
  IF count > 0 THEN Present
  ELSE IF IsMeasuring(s) THEN s ELSE Absent(t, FALSE)

(* MatchWatch::is_absent_at: the verdict, whether or not notified *)
IsAbsentAt(s, timeout, t) == IsMeasuring(s) /\ t - s.since >= timeout

(* Mutant of AbsenceDeadline: since + timeout without checked_add *)
AbsenceDeadlineOverflows(s, timeout) ==
  IF IsMeasuring(s) /\ ~ s.notified THEN s.since + timeout ELSE None

(* Mutant of AbsenceDeadline: a marked period still has a deadline *)
AbsenceDeadlineRepeats(s, timeout) ==
  IF IsMeasuring(s) /\ s.since + timeout <= MaxInstant
  THEN s.since + timeout
  ELSE None

(* MatchWatch::absence_deadline: what the watchdog still has to announce *)
AbsenceDeadline(s, timeout) ==
  IF IsMeasuring(s) /\ ~ s.notified /\ s.since + timeout <= MaxInstant
  THEN s.since + timeout
  ELSE None

(* MatchWatch::mark_notified: marks whichever period is being measured *)
MarkNotified(s) == IF IsMeasuring(s) THEN Absent(s.since, TRUE) ELSE s

===========================================================================
