----------------------------- MODULE Builders ------------------------------
(***************************************************************************)
(* Whose callbacks an endpoint runs (ReaderBuilder, WriterBuilder,         *)
(* DdsListenerBuilder).  The application collects callbacks in listener    *)
(* builders, overwriting (on_...) or chaining (chain_...) what is there,   *)
(* and hands them, hooked or not, to the builder of an endpoint.           *)
(* Asynchronous readers and watching writers need callbacks of their own   *)
(* for the same events.                                                    *)
(***************************************************************************)
EXTENDS Naturals, Sequences

CONSTANTS MaxCallbacks,  \* bound: callbacks the application registers
          MaxEvents,     \* bound: events the endpoint has
          Null           \* no listener

ASSUME BuildersAssumption ==
  MaxCallbacks \in Nat /\ MaxEvents \in Nat

(* Events the crate listens to and one it does not; "matched" is the        *)
(* subscription's or the publication's                                      *)
Events == {"data_available", "deadline_missed", "matched", "other"}

(* The crate's callback is 0, the application's are numbered as registered *)
Internal == 0
Callbacks == [Events -> Seq(0..MaxCallbacks)]
Default == [e \in Events |-> << >>]

ASSUME NullAssumption == Null \notin Callbacks

VARIABLES
  kind,        \* "reader" or "writer"
  registered,  \* callbacks registered so far
  collecting,  \* the DdsListenerBuilder the application works on
  builder,     \* the ReaderBuilder or WriterBuilder
  listener,    \* the listener of the endpoint, if any
  created,     \* the endpoint exists
  happened,    \* events so far, by kind
  event,       \* the last one
  running,     \* callbacks it still has to run
  seen,        \* events the crate's state knows of
  called       \* how often each callback of the application ran

builderVars == << kind, registered, collecting, builder, listener, created,
                  happened, event, running, seen, called >>

(* ReaderBuilder::new, WriterBuilder::new *)
BuildersInit ==
  /\ kind \in {"reader", "writer"}
  /\ registered = 0 /\ collecting = Default
  /\ builder = [ listener |-> Null, listener_builder |-> Null,
                 is_async |-> FALSE, timeout |-> FALSE ]
  /\ listener = Null /\ created = FALSE
  /\ happened = [e \in Events |-> 0] /\ seen = [e \in Events |-> 0]
  /\ event = "other" /\ running = << >>
  /\ called = [f \in 1..MaxCallbacks |-> 0]

eventVars == << happened, event, running, seen, called >>
endpointVars == << kind, listener, created, eventVars >>

---------------------------------------------------------------------------
(* DdsListenerBuilder *)

(* Mutant of Chained: what was there is lost *)
ChainedAlone(callbacks, e, f) == [callbacks EXCEPT ![e] = << f >>]

(* chain_callback!: what is registered now is called first *)
Chained(callbacks, e, f) == [callbacks EXCEPT ![e] = << f >> \o @]

Register(e) ==
  /\ ~created /\ registered < MaxCallbacks
  /\ registered' = registered + 1
  /\ \/ collecting' = [collecting EXCEPT ![e] = << registered' >>]   \* on_*
     \/ collecting' = Chained(collecting, e, registered')            \* chain_*
  /\ UNCHANGED << builder, endpointVars >>

(* build and DdsListener::hook: the callbacks cannot be changed any more *)
WithListener ==
  /\ ~created
  /\ builder' = [builder EXCEPT !.listener = collecting]
  /\ collecting' = Default
  /\ UNCHANGED << registered, endpointVars >>

WithListenerBuilder ==
  /\ ~created
  /\ builder' = [builder EXCEPT !.listener_builder = collecting]
  /\ collecting' = Default
  /\ UNCHANGED << registered, endpointVars >>

AsAsync ==
  /\ ~created /\ kind = "reader"
  /\ builder' = [builder EXCEPT !.is_async = TRUE]
  /\ UNCHANGED << registered, collecting, endpointVars >>

(* stop_when_no_writer makes the reader asynchronous, watch_reader_absence  *)
(* is the writer's                                                          *)
Watch ==
  /\ ~created
  /\ builder' = [builder EXCEPT !.timeout = TRUE,
                                !.is_async = @ \/ kind = "reader"]
  /\ UNCHANGED << registered, collecting, endpointVars >>

---------------------------------------------------------------------------
(* Creation *)

UnwrapOrDefault(callbacks) == IF callbacks = Null THEN Default ELSE callbacks

(* data_reader_listener *)
ReaderListener(callbacks, watching) ==
  LET async == Chained(Chained(callbacks, "data_available", Internal),
                       "deadline_missed", Internal) IN
  IF watching THEN Chained(async, "matched", Internal) ELSE async

(* DdsWriter::create_with_watch *)
WriterListener(callbacks) == Chained(callbacks, "matched", Internal)

(* ReaderBuilder::create, WriterBuilder::create; Null is a null pointer *)
Listener ==
  IF builder.is_async
  THEN ReaderListener(UnwrapOrDefault(builder.listener_builder), builder.timeout)
  ELSE IF builder.timeout
  THEN WriterListener(UnwrapOrDefault(builder.listener_builder))
  ELSE IF builder.listener # Null THEN builder.listener
  ELSE builder.listener_builder

(* What the application still collects no endpoint will run                 *)
Create ==
  /\ ~created
  /\ created' = TRUE
  /\ listener' = Listener
  /\ collecting' = Default
  /\ UNCHANGED << kind, registered, builder, eventVars >>

---------------------------------------------------------------------------
(* Events: register_callbacks passes C only the trampolines of callbacks    *)
(* that are there; C runs one callback of an entity at a time               *)

Happen(e) ==
  /\ created /\ running = << >>
  /\ happened[e] < MaxEvents
  /\ happened' = [happened EXCEPT ![e] = @ + 1]
  /\ event' = e
  /\ running' = IF listener = Null THEN << >> ELSE listener[e]
  /\ UNCHANGED << kind, registered, collecting, builder, listener, created,
                  seen, called >>

(* The next callback of the chain *)
Run ==
  /\ running # << >>
  /\ running' = Tail(running)
  /\ IF Head(running) = Internal
     THEN seen' = [seen EXCEPT ![event] = @ + 1] /\ UNCHANGED called
     ELSE called' = [called EXCEPT ![Head(running)] = @ + 1] /\ UNCHANGED seen
  /\ UNCHANGED << kind, registered, collecting, builder, listener, created,
                  happened, event >>

---------------------------------------------------------------------------
BuildersNext ==
  \/ \E e \in Events : Register(e) \/ Happen(e)
  \/ WithListener \/ WithListenerBuilder \/ AsAsync \/ Watch
  \/ Create \/ Run

BuildersSpec == BuildersInit /\ [][BuildersNext]_builderVars

---------------------------------------------------------------------------
(* The events whose count an asynchronous read, a deadline error or a       *)
(* verdict on absence depends on                                            *)
Heard ==
  (IF builder.is_async THEN {"data_available", "deadline_missed"} ELSE {})
    \cup (IF builder.timeout THEN {"matched"} ELSE {})

(* The crate knows of every event it depends on, and of each only once,     *)
(* before a callback of the application runs, whatever listener the         *)
(* application passed and in whatever order: no application callback reads  *)
(* a state that is behind, and one that panics cannot keep it behind.       *)
InternalFirst ==
  created /\ (running = << >> \/ Head(running) # Internal) =>
    \A e \in Heard : seen[e] = happened[e]

(* What the doc comments of with_listener and with_listener_builder promise *)
(* to keep: with a callback of the crate's the builder, without one the     *)
(* hooked listener before the builder                                       *)
Promised ==
  IF Heard = {} /\ builder.listener # Null THEN builder.listener
  ELSE UnwrapOrDefault(builder.listener_builder)

(* Every callback that the application may rely on runs exactly once for    *)
(* every event of its kind, even if the crate listens to the same event.    *)
NothingDropped ==
  created /\ running = << >> =>
    \A e \in Events : \A i \in DOMAIN Promised[e] :
      called[Promised[e][i]] = happened[e]

(* A chained listener loses no callback of the application and none of the  *)
(* crate's own, which run first (dds_listener.rs:638).                      *)
ChainSound == InternalFirst /\ NothingDropped
=============================================================================
