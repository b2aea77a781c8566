---------------------------- MODULE StatusCounters ----------------------------
(***************************************************************************)
(* The statuses a reader or writer may be polled for                       *)
(* (liveliness_changed_status and the like): what they hold is in the C    *)
(* library, which sets the changes to zero whenever it has told them, to a *)
(* poll or to a callback.  The wrapper has callbacks of its own.           *)
(***************************************************************************)
EXTENDS Integers, FiniteSets

CONSTANTS MaxChanges   \* bound: changes of the statuses

VARIABLES
  endpoint,     \* how it was created
  user_hooks,   \* statuses for which the user, or a parent, has a callback
  counts,       \* by status: the pair of its counters, and
  changes,      \* of their changes since they were told
  polled,       \* the sums of the changes that polls returned
  called_back,  \* the sums of the changes that callbacks were given
  changed       \* changes so far

statusVars ==
  << endpoint, user_hooks, counts, changes, polled, called_back, changed >>

Statuses == {"subscription_matched", "liveliness_changed", "requested_deadline_missed",
             "publication_matched"}

StatusesOf(e) ==
  IF e \in {"writer", "watching_writer"} THEN {"publication_matched"}
  ELSE Statuses \ {"publication_matched"}

(* Mutant of InternalHooks: watching for absence listens to the liveliness  *)
HooksWithLiveliness ==
  [ reader |-> {}, writer |-> {},
    async_reader |-> {"requested_deadline_missed"},
    watching_reader |-> {"requested_deadline_missed", "subscription_matched",
                         "liveliness_changed"},
    watching_writer |-> {"publication_matched"} ]

(* The callbacks of the wrapper itself: those of data_reader_listener and   *)
(* of create_with_watch                                                     *)
InternalHooks ==
  [ reader |-> {}, writer |-> {},
    async_reader |-> {"requested_deadline_missed"},
    watching_reader |-> {"requested_deadline_missed", "subscription_matched"},
    watching_writer |-> {"publication_matched"} ]

NoneYet == << 0, 0 >>
Plus(a, b) == << a[1] + b[1], a[2] + b[2] >>

StatusInit ==
  /\ endpoint \in DOMAIN InternalHooks
  /\ user_hooks \in SUBSET StatusesOf(endpoint)
  /\ counts = [s \in Statuses |-> NoneYet]
  /\ changes = [s \in Statuses |-> NoneYet]
  /\ polled = [s \in Statuses |-> NoneYet]
  /\ called_back = [s \in Statuses |-> NoneYet]
  /\ changed = 0

(* What may happen to the two counters: total and current, alive and not    *)
(* alive, or total alone                                                    *)
Happens ==
  [ subscription_matched |-> {<< 1, 1 >>, << 0, -1 >>},
    publication_matched |-> {<< 1, 1 >>, << 0, -1 >>},
    liveliness_changed |-> {<< 1, 0 >>, << -1, 1 >>, << 1, -1 >>, << -1, 0 >>, << 0, -1 >>},
    requested_deadline_missed |-> {<< 1, 0 >>} ]

Hooked(s) == s \in user_hooks \cup InternalHooks[endpoint]

(* With a callback the changes go there and are zero afterwards             *)
StatusChanges ==
  /\ changed < MaxChanges /\ changed' = changed + 1
  /\ \E s \in StatusesOf(endpoint) : \E delta \in Happens[s] :
       LET count == Plus(counts[s], delta)
           change == Plus(changes[s], delta) IN
       /\ count \in Nat \X Nat
       /\ counts' = [counts EXCEPT ![s] = count]
       /\ IF Hooked(s)
          THEN /\ called_back' = [called_back EXCEPT ![s] = Plus(@, change)]
               /\ changes' = [changes EXCEPT ![s] = NoneYet]
          ELSE /\ changes' = [changes EXCEPT ![s] = change]
               /\ UNCHANGED called_back
  /\ UNCHANGED << endpoint, user_hooks, polled >>

(* dds_get_..._status: the C structure, whose changes are zero afterwards   *)
CStatus(s) ==
  CASE s = "liveliness_changed" ->
         [ alive_count |-> counts[s][1], not_alive_count |-> counts[s][2],
           alive_count_change |-> changes[s][1],
           not_alive_count_change |-> changes[s][2] ]
    [] s = "requested_deadline_missed" ->
         [total_count |-> counts[s][1], total_count_change |-> changes[s][1]]
    [] OTHER ->
         [ total_count |-> counts[s][1], total_count_change |-> changes[s][1],
           current_count |-> counts[s][2], current_count_change |-> changes[s][2] ]

LivelinessChangedStatus(status) ==
  [ alive_count |-> status.alive_count,
    not_alive_count |-> status.not_alive_count,
    alive_count_change |-> status.alive_count_change,
    not_alive_count_change |-> status.not_alive_count_change ]

RequestedDeadlineMissedStatus(status) ==
  [total_count |-> status.total_count, total_count_change |-> status.total_count_change]

MatchedStatus(status) ==
  [ total_count |-> status.total_count,
    total_count_change |-> status.total_count_change,
    current_count |-> status.current_count,
    current_count_change |-> status.current_count_change ]

SubscriptionMatchedStatus(status) == MatchedStatus(status)
PublicationMatchedStatus(status) == MatchedStatus(status)

(* What a poll returns, its counters and its changes                        *)
Returned(s) ==
  CASE s = "liveliness_changed" -> LivelinessChangedStatus(CStatus(s))
    [] s = "requested_deadline_missed" -> RequestedDeadlineMissedStatus(CStatus(s))
    [] s = "subscription_matched" -> SubscriptionMatchedStatus(CStatus(s))
    [] s = "publication_matched" -> PublicationMatchedStatus(CStatus(s))

CountersIn(s) ==
  LET status == Returned(s) IN
  CASE s = "liveliness_changed" -> << status.alive_count, status.not_alive_count >>
    [] s = "requested_deadline_missed" -> << status.total_count, 0 >>
    [] OTHER -> << status.total_count, status.current_count >>

ChangesIn(s) ==
  LET status == Returned(s) IN
  CASE s = "liveliness_changed" ->
         << status.alive_count_change, status.not_alive_count_change >>
    [] s = "requested_deadline_missed" -> << status.total_count_change, 0 >>
    [] OTHER -> << status.total_count_change, status.current_count_change >>

TakeStatus(s) ==
  /\ s \in StatusesOf(endpoint)
  /\ polled' = [polled EXCEPT ![s] = Plus(@, ChangesIn(s))]
  /\ changes' = [changes EXCEPT ![s] = NoneYet]
  /\ UNCHANGED << endpoint, user_hooks, counts, called_back, changed >>

liveliness_changed_status == TakeStatus("liveliness_changed")
requested_deadline_missed_status == TakeStatus("requested_deadline_missed")
subscription_matched_status == TakeStatus("subscription_matched")
publication_matched_status == TakeStatus("publication_matched")

StatusNext ==
  \/ StatusChanges
  \/ liveliness_changed_status \/ requested_deadline_missed_status
  \/ subscription_matched_status \/ publication_matched_status

StatusSpec == StatusInit /\ [][StatusNext]_statusVars

---------------------------------------------------------------------------
Balance(s) == Plus(Plus(polled[s], called_back[s]), changes[s])

(* Every change is told once, to a poll or to a callback, so that the       *)
(* changes told and pending add up to the counters, which a poll returns    *)
(* whoever was told.  As the docs say: who polls the liveliness, and has no *)
(* callback for it, gets every change there, watching for absence or not    *)
(* (dds_reader.rs:326); who watches finds the changes of the matches at     *)
(* zero, as its callback is told all (dds_reader.rs:244, dds_writer.rs:216). *)
StatusesTold ==
  /\ \A s \in StatusesOf(endpoint) :
       Balance(s) = counts[s] /\ CountersIn(s) = counts[s]
  /\ endpoint \notin {"writer", "watching_writer"}
       /\ "liveliness_changed" \notin user_hooks
     => Plus(polled["liveliness_changed"], changes["liveliness_changed"])
          = counts["liveliness_changed"]
  /\ \A s \in {"subscription_matched", "publication_matched"} :
       endpoint \in {"watching_reader", "watching_writer"}
       => polled[s] = NoneYet /\ called_back[s] = counts[s]
=============================================================================
