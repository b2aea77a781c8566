----------------------------- MODULE Listeners ------------------------------
(***************************************************************************)
(* How an event of the C library finds its callback (dds_listener.rs).     *)
(* Each of the thirteen events has a field of Callbacks, two setters that  *)
(* fill it, a trampoline that calls it and a line of register_callbacks    *)
(* that gives C the trampoline; nothing but their names ties them.  Chains *)
(* of callbacks and whose they are is the matter of Builders, the lifetime *)
(* of the box is EntityTree's.                                             *)
(***************************************************************************)
EXTENDS Naturals

CONSTANT MaxSet  \* bound: callbacks that are set

ASSUME ListenersAssumption == MaxSet \in Nat

NoCallback == 0

(* The deprecated setter on_x of DdsListener stores in one field, the       *)
(* trampoline call_x_closure calls one field, with a status or without.     *)
Row(set, call, status) == [set |-> set, call |-> call, status |-> status]

ReaderDataEvents ==
  [ data_available  |-> Row("data_available", "data_available", FALSE),
    sample_lost     |-> Row("sample_lost", "sample_lost", TRUE),
    sample_rejected |-> Row("sample_rejected", "sample_rejected", TRUE) ]

ReaderStatusEvents ==
  [ liveliness_changed |->
      Row("liveliness_changed", "liveliness_changed", TRUE),
    requested_deadline_missed |->
      Row("requested_deadline_missed", "requested_deadline_missed", TRUE),
    requested_incompatible_qos |->
      Row("requested_incompatible_qos", "requested_incompatible_qos", TRUE),
    subscription_matched |->
      Row("subscription_matched", "subscription_matched", TRUE) ]

WriterEvents ==
  [ liveliness_lost |-> Row("liveliness_lost", "liveliness_lost", TRUE),
    offered_deadline_missed |->
      Row("offered_deadline_missed", "offered_deadline_missed", TRUE),
    offered_incompatible_qos |->
      Row("offered_incompatible_qos", "offered_incompatible_qos", TRUE),
    publication_matched |->
      Row("publication_matched", "publication_matched", TRUE) ]

TopicEvents ==
  [ inconsistent_topic |-> Row("inconsistent_topic", "inconsistent_topic", TRUE),
    data_on_readers |-> Row("data_on_readers", "data_on_readers", FALSE) ]

Closures ==
  [ e \in DOMAIN ReaderDataEvents \cup DOMAIN ReaderStatusEvents
            \cup DOMAIN WriterEvents \cup DOMAIN TopicEvents |->
      IF e \in DOMAIN ReaderDataEvents THEN ReaderDataEvents[e]
      ELSE IF e \in DOMAIN ReaderStatusEvents THEN ReaderStatusEvents[e]
      ELSE IF e \in DOMAIN WriterEvents THEN WriterEvents[e]
      ELSE TopicEvents[e] ]
CallbackFields == DOMAIN Closures

(* The field that each method on_x of DdsListenerBuilder stores in *)
BuilderFields ==
  [ data_available |-> "data_available",
    sample_lost |-> "sample_lost",
    sample_rejected |-> "sample_rejected",
    liveliness_changed |-> "liveliness_changed",
    requested_deadline_missed |-> "requested_deadline_missed",
    requested_incompatible_qos |-> "requested_incompatible_qos",
    subscription_matched |-> "subscription_matched",
    liveliness_lost |-> "liveliness_lost",
    offered_deadline_missed |-> "offered_deadline_missed",
    offered_incompatible_qos |-> "offered_incompatible_qos",
    publication_matched |-> "publication_matched",
    inconsistent_topic |-> "inconsistent_topic",
    data_on_readers |-> "data_on_readers" ]
BuilderField(e) == BuilderFields[e]

(* The lines lset!: for each field, C's event and the trampoline it gets *)
Line(event, closure) == [event |-> event, closure |-> closure]

LsetLines ==
  [ data_available |-> Line("data_available", "data_available"),
    sample_lost |-> Line("sample_lost", "sample_lost"),
    sample_rejected |-> Line("sample_rejected", "sample_rejected"),
    liveliness_changed |-> Line("liveliness_changed", "liveliness_changed"),
    requested_deadline_missed |-> Line("requested_deadline_missed", "requested_deadline_missed"),
    requested_incompatible_qos |-> Line("requested_incompatible_qos", "requested_incompatible_qos"),
    subscription_matched |-> Line("subscription_matched", "subscription_matched"),
    liveliness_lost |-> Line("liveliness_lost", "liveliness_lost"),
    offered_deadline_missed |-> Line("offered_deadline_missed", "offered_deadline_missed"),
    offered_incompatible_qos |-> Line("offered_incompatible_qos", "offered_incompatible_qos"),
    publication_matched |-> Line("publication_matched", "publication_matched"),
    inconsistent_topic |-> Line("inconsistent_topic", "inconsistent_topic"),
    data_on_readers |-> Line("data_on_readers", "data_on_readers") ]

(* Mutant of LsetLine: a line copied from another event *)
LsetLineAsMatched(field) ==
  IF field = "publication_matched" THEN Line(field, "subscription_matched")
  ELSE LsetLines[field]

LsetLine(field) == LsetLines[field]

VARIABLES
  fields,   \* the Callbacks box
  hook_stage,    \* "open", "hooked", "gone"
  c_table,  \* the C listener: the trampoline of each event
  made,     \* callbacks made so far
  wanted     \* the last callback the application set for each event in time

listenerVars == << fields, hook_stage, c_table, made, wanted >>

Nothing == [e \in CallbackFields |-> NoCallback]
NoClosure == "none"

ListenersInit ==
  /\ fields = Nothing /\ wanted = Nothing
  /\ c_table = [e \in CallbackFields |-> NoClosure]
  /\ hook_stage = "open" /\ made = 0

---------------------------------------------------------------------------
(* A setter of the builder: its listener is not hooked before build *)
BuilderOn(e) ==
  /\ hook_stage = "open" /\ made < MaxSet
  /\ made' = made + 1
  /\ fields' = [fields EXCEPT ![BuilderField(e)] = made']
  /\ wanted' = [wanted EXCEPT ![e] = made']
  /\ UNCHANGED << hook_stage, c_table >>

(* A deprecated setter: without effect once hook has taken the box *)
On(e) ==
  /\ hook_stage \in {"open", "hooked"} /\ made < MaxSet
  /\ made' = made + 1
  /\ IF hook_stage = "open"
     THEN /\ fields' = [fields EXCEPT ![Closures[e].set] = made']
          /\ wanted' = [wanted EXCEPT ![e] = made']
     ELSE UNCHANGED << fields, wanted >>
  /\ UNCHANGED << hook_stage, c_table >>

(* A second hook finds no box to take and changes nothing *)
Hook ==
  /\ hook_stage = "open"
  /\ hook_stage' = "hooked"
  /\ LET lines == { LsetLine(f) : f \in { g \in CallbackFields : fields[g] # NoCallback } }
     IN c_table' =
          [ e \in CallbackFields |->
              IF \E l \in lines : l.event = e
              THEN (CHOOSE l \in lines : l.event = e).closure
              ELSE NoClosure ]
  /\ UNCHANGED << fields, made, wanted >>

(* dds_create_listener returns null: the box is freed, the call panics *)
HookFails ==
  /\ hook_stage = "open"
  /\ hook_stage' = "gone" /\ fields' = Nothing
  /\ UNCHANGED << c_table, made, wanted >>

(* Drop: the C listener is reset before the box is freed *)
DropListener ==
  /\ hook_stage \in {"open", "hooked"}
  /\ hook_stage' = "gone" /\ fields' = Nothing
  /\ c_table' = [e \in CallbackFields |-> NoClosure]
  /\ UNCHANGED << made, wanted >>

ListenersNext ==
  \/ \E e \in CallbackFields : BuilderOn(e) \/ On(e)
  \/ Hook \/ HookFails \/ DropListener

ListenersSpec == ListenersInit /\ [][ListenersNext]_listenerVars

---------------------------------------------------------------------------
(* What runs when event e occurs, and whether it is given a status *)
Runs(e) ==
  IF c_table[e] = NoClosure THEN << NoCallback, FALSE >>
  ELSE << fields[Closures[c_table[e]].call], Closures[c_table[e]].status >>

(* Events that come with a status, in the types of the C library's callbacks *)
HasStatus(e) == e \notin {"data_available", "data_on_readers"}

(* While an entity may have the listener, each event runs the callback that *)
(* was last set for it before hook, through whichever setter, with its own  *)
(* status, and an event nobody wanted for runs none (dds_listener.rs:177).   *)
EventsRouted ==
  hook_stage = "hooked" =>
    \A e \in CallbackFields :
      Runs(e) = << wanted[e], wanted[e] # NoCallback /\ HasStatus(e) >>
=============================================================================
