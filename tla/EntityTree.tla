---------------------------- MODULE EntityTree ----------------------------
(***************************************************************************)
(* Who keeps a DDS entity and its listener alive (the create and Drop      *)
(* functions of dds_participant.rs, dds_publisher.rs, dds_subscriber.rs,   *)
(* dds_topic.rs, dds_reader.rs, dds_writer.rs and dds_builtin.rs, the      *)
(* Keepalive of common.rs, and dds_listener.rs).                           *)
(*                                                                         *)
(* Two owners have to agree.  Cyclone DDS keeps a tree of entities:        *)
(* deleting one deletes what was created under it, and an entity may call  *)
(* its own listener and those it inherited when it was created, through    *)
(* the pointer to a Callbacks box that came with each.  Rust keeps values  *)
(* that delete their entity and then free their box when the last handle   *)
(* goes.  Handles are dropped by any thread at any time.                   *)
(*                                                                         *)
(* Contract of C: dds_delete and dds_set_listener wait for the callbacks   *)
(* of the entities they affect; the value of a deleted handle is not       *)
(* given out again while someone still has it.                             *)
(***************************************************************************)
EXTENDS Naturals, FiniteSets

CONSTANTS Participants,
          Groups,      \* publishers and subscribers
          Topics,
          Endpoints,   \* DdsReader and DdsWriter values
          Builtins,    \* ReaderInner of dds_builtin.rs
          Buffers,     \* BuiltinSamples values
          Listeners,   \* hooked DdsListeners, by their Callbacks box
          MaxHandles,  \* bound: clones of one handle
          Nil

Entities == Participants \cup Groups \cup Topics \cup Endpoints \cup Builtins

ASSUME EntityTreeAssumption ==
  /\ MaxHandles \in Nat \ {0}
  /\ Nil \notin Entities /\ Nil \notin Listeners
  /\ Participants \cap (Groups \cup Topics \cup Endpoints \cup Builtins) = {}
  /\ Groups \cap (Topics \cup Endpoints \cup Builtins) = {}
  /\ Topics \cap (Endpoints \cup Builtins) = {}
  /\ Endpoints \cap Builtins = {}

VARIABLES
  entity,   \* entity[x]: the C entity
  args,     \* args[x]: the boxes the C entity may call
  running,  \* << x, k >>: callbacks of x running on box k
  lent,     \* lent[l]: the builtin reader that has lent its samples to l
  value,    \* value[x]: the Rust value that owns x
  handles,  \* handles[x]: how many handles the application has
  up,       \* up[x]: what x was created under
  topicOf,  \* topicOf[x]: the topic an endpoint was created with
  own,      \* own[x]: the DdsListener in the Rust value
  box,      \* box[k]: the Callbacks box
  next,     \* next[x]: the listener a set_listener under way brings
  loan      \* loan[l]: BuiltinSamples.loaned_from

treeVars ==
  << entity, args, running, lent, value, handles, up, topicOf, own, box, next,
     loan >>

TreeTypeOK ==
  /\ entity \in [Entities -> {"none", "live", "deleted"}]
  /\ args \in [Entities -> SUBSET Listeners]
  /\ running \subseteq Entities \X Listeners
  /\ lent \in [Buffers -> Builtins \cup {Nil}]
  /\ value \in [Entities -> {"none", "open", "deleted", "released", "gone"}]
  /\ handles \in [Entities -> 0..MaxHandles]
  /\ up \in [Entities -> Entities \cup {Nil}]
  /\ topicOf \in [Entities -> Topics \cup {Nil}]
  /\ own \in [Entities -> Listeners \cup {Nil}]
  /\ box \in [Listeners -> {"none", "live", "freed"}]
  /\ next \in [Entities -> Listeners \cup {Nil}]
  /\ loan \in [Buffers -> Builtins \cup {Nil}]

TreeInit ==
  /\ entity = [x \in Entities |-> "none"]
  /\ args = [x \in Entities |-> {}]
  /\ running = {}
  /\ lent = [l \in Buffers |-> Nil]
  /\ value = [x \in Entities |-> "none"]
  /\ handles = [x \in Entities |-> 0]
  /\ up = [x \in Entities |-> Nil]
  /\ topicOf = [x \in Entities |-> Nil]
  /\ own = [x \in Entities |-> Nil]
  /\ box = [k \in Listeners |-> "none"]
  /\ next = [x \in Entities |-> Nil]
  /\ loan = [l \in Buffers |-> Nil]

---------------------------------------------------------------------------
(* Who refers to a Rust value: handles, the Keepalive and the topic in an   *)
(* endpoint that has not dropped its fields yet, and loaned_from.           *)

(* Participants give the default Keepalive, which keeps nothing *)
KeepersOf(x) ==
  { e \in Endpoints : /\ value[e] \in {"open", "deleted"}
                      /\ x \in {up[e], topicOf[e]} \ Participants }

Unheld(x) ==
  /\ handles[x] = 0 /\ KeepersOf(x) = {}
  /\ \A l \in Buffers : loan[l] # x

(* x and everything created under it *)
Subtree(x) ==
  { y \in Entities : y = x \/ up[y] = x \/ (up[y] # Nil /\ up[up[y]] = x) }

---------------------------------------------------------------------------
(* Listeners *)

(* DdsListenerBuilder::build, or no listener *)
Hooked(k) == k # Nil => box[k] = "none"

Boxes(k) == {k} \ {Nil}

(* dds_delete_listener, then Box::from_raw *)
Freed(k) == IF k = Nil THEN box ELSE [box EXCEPT ![k] = "freed"]

(* A trampoline runs on a DDS thread *)
CallbackBegins(x, k) ==
  /\ entity[x] = "live" /\ k \in args[x]
  /\ running' = running \cup {<< x, k >>}
  /\ UNCHANGED << entity, args, lent, value, handles, up, topicOf, own, box,
                  next, loan >>

CallbackEnds(x, k) ==
  /\ << x, k >> \in running
  /\ running' = running \ {<< x, k >>}
  /\ UNCHANGED << entity, args, lent, value, handles, up, topicOf, own, box,
                  next, loan >>

QuietUnder(S) == \A x \in S, k \in Listeners : << x, k >> \notin running

(* DdsWriter::set_listener up to dds_set_listener *)
SetListener(e, k) ==
  /\ value[e] = "open" /\ handles[e] > 0 /\ next[e] = Nil
  /\ box[k] = "none" /\ entity[e] = "live" /\ QuietUnder({e})
  /\ box' = [box EXCEPT ![k] = "live"]
  /\ args' = [args EXCEPT ![e] = {k} \cup args[up[e]]]
  /\ next' = [next EXCEPT ![e] = k]
  /\ UNCHANGED << entity, running, lent, value, handles, up, topicOf, own,
                  loan >>

(* Mutant of SetListenerDone: the new listener is not kept *)
SetListenerForgets(e) ==
  /\ next[e] # Nil
  /\ box' = Freed(next[e])
  /\ next' = [next EXCEPT ![e] = Nil]
  /\ UNCHANGED << entity, args, running, lent, value, handles, up, topicOf,
                  own, loan >>

(* dds_set_listener fails: the new listener is dropped                      *)
SetListenerFails(e, k) ==
  /\ value[e] = "open" /\ handles[e] > 0 /\ next[e] = Nil
  /\ box[k] = "none"
  /\ box' = Freed(k)
  /\ UNCHANGED << entity, args, running, lent, value, handles, up, topicOf,
                  own, next, loan >>

(* It succeeded: the old listener is dropped, the new one kept *)
SetListenerDone(e) ==
  /\ next[e] # Nil
  /\ own' = [own EXCEPT ![e] = next[e]]
  /\ box' = Freed(own[e])
  /\ next' = [next EXCEPT ![e] = Nil]
  /\ UNCHANGED << entity, args, running, lent, value, handles, up, topicOf,
                  loan >>

---------------------------------------------------------------------------
(* Creation *)

(* The C call succeeds: x inherits what its parent may call, and the Rust   *)
(* value keeps the listener                                                 *)
Created(x, parent, t, k) ==
  /\ entity[x] = "none" /\ Hooked(k)
  /\ entity' = [entity EXCEPT ![x] = "live"]
  /\ args' = [args EXCEPT ![x] =
                Boxes(k) \cup IF parent = Nil THEN {} ELSE args[parent]]
  /\ value' = [value EXCEPT ![x] = "open"]
  /\ up' = [up EXCEPT ![x] = parent]
  /\ topicOf' = [topicOf EXCEPT ![x] = t]
  /\ own' = [own EXCEPT ![x] = k]
  /\ box' = [b \in Listeners |-> IF b = k THEN "live" ELSE box[b]]
  /\ UNCHANGED << running, lent, next, loan >>

(* The create functions borrow the parent and, for an endpoint, consume a   *)
(* handle of the topic                                                      *)
Usable(x) == handles[x] > 0 /\ entity[x] = "live"

CreateParticipant(p, k) ==
  /\ Created(p, Nil, Nil, k)
  /\ handles' = [handles EXCEPT ![p] = 1]

(* publishers, subscribers, topics and builtin readers *)
CreateUnderParticipant(x, p, k) ==
  /\ Usable(p) /\ Created(x, p, Nil, k)
  /\ handles' = [handles EXCEPT ![x] = 1]

CreateEndpoint(e, parent, t, k) ==
  /\ Usable(parent) /\ Usable(t) /\ Created(e, parent, t, k)
  /\ handles' = [handles EXCEPT ![e] = 1, ![t] = @ - 1]

(* The C call fails: the listener and the consumed topic handle are dropped *)
CreateEndpointFails(t, k) ==
  /\ handles[t] > 0 /\ Hooked(k)
  /\ handles' = [handles EXCEPT ![t] = @ - 1]
  /\ box' = Freed(k)
  /\ UNCHANGED << entity, args, running, lent, value, up, topicOf, own, next,
                  loan >>

---------------------------------------------------------------------------
(* Handles *)

(* DdsPublisher, DdsSubscriber and DdsTopic are Arcs *)
CloneHandle(x) ==
  /\ handles[x] \in 1..(MaxHandles - 1)
  /\ handles' = [handles EXCEPT ![x] = @ + 1]
  /\ UNCHANGED << entity, args, running, lent, value, up, topicOf, own, box,
                  next, loan >>

DropHandle(x) ==
  /\ handles[x] > 0 /\ next[x] = Nil
  /\ handles' = [handles EXCEPT ![x] = @ - 1]
  /\ UNCHANGED << entity, args, running, lent, value, up, topicOf, own, box,
                  next, loan >>

(* Mutant of Delete: the endpoints that keep a value are not counted *)
DeleteKept(x) ==
  /\ value[x] = "open" /\ handles[x] = 0 /\ \A l \in Buffers : loan[l] # x
  /\ QuietUnder(Subtree(x))
  /\ value' = [value EXCEPT ![x] = "deleted"]
  /\ entity' = [y \in Entities |->
                  IF entity[x] = "live" /\ y \in Subtree(x) THEN
                    IF entity[y] = "live" THEN "deleted" ELSE entity[y]
                  ELSE entity[y]]
  /\ UNCHANGED << args, running, lent, handles, up, topicOf, own, box, next,
                  loan >>

(* Drop, first half: dds_delete, which takes the subtree along and answers  *)
(* an error if x was taken along by another                                 *)
Delete(x) ==
  /\ value[x] = "open" /\ Unheld(x)
  /\ QuietUnder(Subtree(x))
  /\ value' = [value EXCEPT ![x] = "deleted"]
  /\ entity' = [y \in Entities |->
                  IF entity[x] = "live" /\ y \in Subtree(x) THEN
                    IF entity[y] = "live" THEN "deleted" ELSE entity[y]
                  ELSE entity[y]]
  /\ UNCHANGED << args, running, lent, handles, up, topicOf, own, box, next,
                  loan >>

(* The fields of the dropped value go in their order: an endpoint lets go   *)
(* of its topic and parent ...                                              *)
ReleaseParents(x) ==
  /\ value[x] = "deleted"
  /\ value' = [value EXCEPT ![x] = "released"]
  /\ UNCHANGED << entity, args, running, lent, handles, up, topicOf, own, box,
                  next, loan >>

(* ... and then of its listener *)
FreeListener(x) ==
  /\ value[x] = "released"
  /\ value' = [value EXCEPT ![x] = "gone"]
  /\ box' = Freed(own[x])
  /\ own' = [own EXCEPT ![x] = Nil]
  /\ UNCHANGED << entity, args, running, lent, handles, up, topicOf, next,
                  loan >>

---------------------------------------------------------------------------
(* Builtin readers lend their samples *)

(* BuiltinDataReader::readn_from_entity_now: what l still has is returned,  *)
(* then the C call lends new samples, or there are none                     *)
ReadBuiltin(l, b) ==
  /\ handles[b] > 0
  /\ \E r \in {b, Nil} :
       /\ r = b => entity[b] = "live"
       /\ lent' = [lent EXCEPT ![l] = r]
       /\ loan' = [loan EXCEPT ![l] = r]
  /\ UNCHANGED << entity, args, running, value, handles, up, topicOf, own, box,
                  next >>

(* BuiltinSamples::return_loan, by clear or by drop *)
ReturnLoan(l) ==
  /\ loan[l] # Nil
  /\ lent' = [lent EXCEPT ![l] = Nil]
  /\ loan' = [loan EXCEPT ![l] = Nil]
  /\ UNCHANGED << entity, args, running, value, handles, up, topicOf, own, box,
                  next >>

---------------------------------------------------------------------------
MaybeListener == Listeners \cup {Nil}

Creates ==
  \/ \E p \in Participants, k \in MaybeListener :
       \/ CreateParticipant(p, k)
       \/ \E x \in Groups \cup Topics \cup Builtins :
            CreateUnderParticipant(x, p, k)
  \/ \E t \in Topics, k \in MaybeListener :
       \/ CreateEndpointFails(t, k)
       \/ \E e \in Endpoints, parent \in Groups \cup Participants :
            CreateEndpoint(e, parent, t, k)

Drops ==
  \E x \in Entities :
    DropHandle(x) \/ Delete(x) \/ ReleaseParents(x) \/ FreeListener(x)

Calls ==
  \E k \in Listeners :
    \/ \E x \in Entities : CallbackBegins(x, k) \/ CallbackEnds(x, k)
    \/ \E e \in Endpoints : SetListener(e, k) \/ SetListenerFails(e, k)

Loans ==
  \E l \in Buffers : ReturnLoan(l) \/ \E b \in Builtins : ReadBuiltin(l, b)

TreeNext ==
  \/ Creates \/ Drops \/ Calls \/ Loans
  \/ \E x \in Groups \cup Topics : CloneHandle(x)
  \/ \E e \in Endpoints : SetListenerDone(e)

TreeSpec == TreeInit /\ [][TreeNext]_treeVars

---------------------------------------------------------------------------
(* The comment in ReaderInner's Drop: the entity must go before its         *)
(* listener, or callbacks run on a freed box.  It holds across inheritance: *)
(* no C entity has, and no callback uses, a pointer to a box that is gone.  *)
ArgsLive ==
  /\ \A x \in Entities : entity[x] = "live" =>
       \A k \in args[x] : box[k] = "live"
  /\ \A c \in running : box[c[2]] = "live"

Root(x) ==
  IF up[x] = Nil THEN x ELSE IF up[up[x]] = Nil THEN up[x] ELSE up[up[x]]

(* Children keep what they were created from: as long as the participant    *)
(* has not been dropped, nobody else's drop takes an entity away from the   *)
(* value that owns it, nor the topic from an endpoint.                      *)
OpenIsLive ==
  \A x \in Entities : value[x] = "open" /\ value[Root(x)] = "open" =>
    /\ entity[x] = "live"
    /\ topicOf[x] # Nil /\ Root(topicOf[x]) = Root(x) =>
         entity[topicOf[x]] = "live"

(* Every box that is allocated has exactly one Rust value that will free    *)
(* it, every C entity one that will delete it.                              *)
OwnedOnce ==
  /\ \A k \in Listeners : box[k] = "live" =>
       Cardinality({ x \in Entities : own[x] = k \/ next[x] = k }) = 1
  /\ \A x \in Entities : entity[x] = "live" => value[x] = "open"

(* Samples on loan can be returned: the reader that lent them is the one    *)
(* the buffer kept, and it has not been deleted by its own drop.            *)
LoansReturnable ==
  \A l \in Buffers : lent[l] # Nil =>
    loan[l] = lent[l] /\ value[lent[l]] = "open"

(* A callbacks box outlives every C entity and callback that points to it,  *)
(* and somebody will free it: neither use after free nor leak, across       *)
(* inherited, replaced and failing listeners (dds_listener.rs:614).         *)
BoxesSound == ArgsLive /\ OwnedOnce

(* What a value needs of others is there as long as the value is: the       *)
(* entities it was created from, and the reader of a loan it will return,   *)
(* in whatever order everything is dropped (common.rs, dds_builtin.rs:283). *)
DropsInAnyOrder == OpenIsLive /\ LoansReturnable
=============================================================================
