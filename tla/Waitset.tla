------------------------------- MODULE Waitset -------------------------------
(***************************************************************************)
(* DdsWaitset<T> (dds_waitset.rs) with what it waits for: readers and their *)
(* read conditions (dds_reader.rs) and the statuses enabled on an entity   *)
(* (dds_api.rs).  C keeps the argument of each attachment, a Rust          *)
(* reference, and hands it back from wait.  Nothing in the types ties the  *)
(* lifetime of that reference to the waitset, and nothing asks the vector  *)
(* to have room for all that is attached: an application may free an       *)
(* argument too early, or pass a small vector.  The histories freedEarly   *)
(* and roomy say whether it did.                                           *)
(***************************************************************************)
EXTENDS Naturals, FiniteSets

CONSTANTS WaitReaders,     \* readers
          WaitConditions,  \* read conditions, each of one reader
          ReaderOf,        \* ReaderOf[c]: its reader
          WaitArguments,   \* values of T
          Masks            \* statuses, or states of samples, that a mask may have

(* What a slice shows where nothing was written *)
Junk == "junk"

ASSUME WaitsetAssumption ==
  /\ Junk \notin WaitArguments
  /\ WaitReaders \cap WaitConditions = {}
  /\ ReaderOf \in [WaitConditions -> WaitReaders]
  /\ IsFiniteSet(WaitReaders \cup WaitConditions)

Entities == WaitReaders \cup WaitConditions

VARIABLES
  exists,    \* entities of C that exist
  handles,   \* those that Rust has a handle of
  masks,     \* masks[e]: the status mask of a reader, the states of a condition
  occurring, \* occurring[r]: what is the case at reader r
  attached,  \* << entity, argument >> of the waitset
  arguments, \* arguments that are alive
  waiting,   \* the waitset: "no", "blocked" in wait, or "dropped"
  wcapacity, \* the capacity of the vector of the wait that blocks, or 0
  returned,  \* the slice it returned: arguments, or Junk past the written ones
  roomy,     \* history: that vector had room for all that was attached
  freedEarly \* history: arguments freed while attached, or in the slice

waitsetVars == << exists, handles, masks, occurring, attached, arguments,
                  waiting, wcapacity, returned, roomy, freedEarly >>
waitCall == << wcapacity, returned, roomy >>

WaitsetInit ==
  /\ exists = WaitReaders /\ handles = WaitReaders
  /\ masks = [e \in Entities |-> {}]
  /\ occurring = [r \in WaitReaders |-> {}]
  /\ attached = {} /\ arguments = WaitArguments
  /\ waiting = "no" /\ wcapacity = 0 /\ returned = {}
  /\ roomy = TRUE /\ freedEarly = {}

---------------------------------------------------------------------------
(* What takes the waitset by &mut: no other thread is in wait.  A slice     *)
(* that wait returned borrows its vector, not the waitset.                  *)
NotWaiting == waiting = "no"

(* DdsReadCondition::create; the condition is a child of its reader *)
create_readcondition(c, mask) ==
  /\ c \notin exists /\ ReaderOf[c] \in handles
  /\ exists' = exists \cup {c} /\ handles' = handles \cup {c}
  /\ masks' = [masks EXCEPT ![c] = mask]
  /\ UNCHANGED << occurring, attached, arguments, waiting, waitCall, freedEarly >>

dds_set_status_mask(r, mask) ==
  /\ r \in handles \cap WaitReaders
  /\ masks' = [masks EXCEPT ![r] = mask]
  /\ UNCHANGED << exists, handles, occurring, attached, arguments, waiting,
                  waitCall, freedEarly >>

(* What C takes as the reason to wake a wait *)
AtReader(e) == IF e \in WaitReaders THEN e ELSE ReaderOf[e]
Triggered(e) == masks[e] \cap occurring[AtReader(e)] # {}
TriggeredNow == { a \in attached : Triggered(a[1]) }

(* C refuses to attach an entity twice *)
attach(e, x) ==
  /\ NotWaiting /\ e \in handles /\ x \in arguments
  /\ attached' = IF \E a \in attached : a[1] = e THEN attached
                 ELSE attached \cup {<< e, x >>}
  /\ UNCHANGED << exists, handles, masks, occurring, arguments, waiting,
                  waitCall, freedEarly >>

detach(e) ==
  /\ NotWaiting /\ e \in handles
  /\ attached' = { a \in attached : a[1] # e }
  /\ UNCHANGED << exists, handles, masks, occurring, arguments, waiting,
                  waitCall, freedEarly >>

(* Data arrives or is read, a status changes or is taken: at any time *)
Occur(r, what) ==
  /\ r \in exists /\ occurring[r] # what
  /\ occurring' = [occurring EXCEPT ![r] = what]
  /\ UNCHANGED << exists, handles, masks, attached, arguments, waiting,
                  waitCall, freedEarly >>

(* DdsReadCondition has no Drop: C's condition stays, and stays attached *)
DropCondition(c) ==
  /\ c \in handles \cap WaitConditions
  /\ handles' = handles \ {c}
  /\ UNCHANGED << exists, masks, occurring, attached, arguments, waiting,
                  waitCall, freedEarly >>

(* The drop of a reader, perhaps while another thread waits: dds_delete     *)
(* deletes its conditions and detaches them all.  The conditions' handles   *)
(* borrow the reader: they are gone.                                        *)
DropReader(r) ==
  /\ r \in handles /\ \A c \in WaitConditions : ReaderOf[c] = r => c \notin handles
  /\ LET gone == {r} \cup { c \in WaitConditions : ReaderOf[c] = r } IN
     /\ exists' = exists \ gone /\ handles' = handles \ gone
     /\ attached' = { a \in attached : a[1] \notin gone }
  /\ UNCHANGED << masks, occurring, arguments, waiting, waitCall, freedEarly >>

(* The application gives up an argument: at any time *)
FreeArgument(x) ==
  /\ x \in arguments
  /\ arguments' = arguments \ {x}
  /\ freedEarly' = IF x \in returned \cup { a[2] : a \in attached }
                   THEN freedEarly \cup {x} ELSE freedEarly
  /\ UNCHANGED << exists, handles, masks, occurring, attached, waiting, waitCall >>

(* wait borrows the vector for good: each call has one of its own, of any   *)
(* capacity.                                                                *)
wait(capacity) ==
  /\ NotWaiting
  /\ waiting' = "blocked" /\ wcapacity' = capacity /\ returned' = {}
  /\ roomy' = (capacity >= Cardinality(attached))
  /\ UNCHANGED << exists, handles, masks, occurring, attached, arguments, freedEarly >>

(* Mutant of Slice: the vector's capacity for the number C returns *)
SliceOfCapacity(p) == wcapacity

(* set_len(p) and &xs[0..p] for the p that C returns; 0 is a timeout *)
Slice(p) == p

(* C writes the arguments of what is triggered, as many as there is room    *)
(* for, and returns the number of what is triggered.                        *)
WaitReturns ==
  /\ waiting = "blocked" /\ TriggeredNow # {}
  /\ \E written \in SUBSET TriggeredNow :
       LET p == Cardinality(TriggeredNow)
           n == Cardinality(written) IN
       /\ n = IF p < wcapacity THEN p ELSE wcapacity
       /\ returned' = { a[2] : a \in written } \cup
                       (IF Slice(p) > n THEN {Junk} ELSE {})
  /\ waiting' = "no" /\ wcapacity' = 0
  /\ UNCHANGED << exists, handles, masks, occurring, attached, arguments,
                  roomy, freedEarly >>

WaitTimesOut ==
  /\ waiting = "blocked"
  /\ returned' = IF Slice(0) > 0 THEN {Junk} ELSE {}
  /\ waiting' = "no" /\ wcapacity' = 0
  /\ UNCHANGED << exists, handles, masks, occurring, attached, arguments,
                  roomy, freedEarly >>

(* A negative p is an error: no slice *)
WaitFails ==
  /\ waiting = "blocked"
  /\ waiting' = "no" /\ wcapacity' = 0
  /\ UNCHANGED << exists, handles, masks, occurring, attached, arguments,
                  returned, roomy, freedEarly >>

(* The application is done with the slice *)
UseSlice ==
  /\ returned # {}
  /\ returned' = {}
  /\ UNCHANGED << exists, handles, masks, occurring, attached, arguments, waiting,
                  wcapacity, roomy, freedEarly >>

DropWaitset ==
  /\ NotWaiting
  /\ waiting' = "dropped" /\ attached' = {}
  /\ UNCHANGED << exists, handles, masks, occurring, arguments, waitCall, freedEarly >>

WaitsetNext ==
  \/ \E e \in Entities : detach(e) \/ \E x \in WaitArguments : attach(e, x)
  \/ \E c \in WaitConditions :
       DropCondition(c) \/ \E m \in SUBSET Masks : create_readcondition(c, m)
  \/ \E r \in WaitReaders :
       DropReader(r) \/ \E m \in SUBSET Masks : dds_set_status_mask(r, m) \/ Occur(r, m)
  \/ \E x \in WaitArguments : FreeArgument(x)
  \/ \E n \in 0..Cardinality(Entities) : wait(n)
  \/ WaitReturns \/ WaitTimesOut \/ WaitFails \/ UseSlice \/ DropWaitset

WaitsetSpec == WaitsetInit /\ [][WaitsetNext]_waitsetVars

---------------------------------------------------------------------------
(* However readers, conditions and arguments are dropped while wait blocks  *)
(* or its slice is in use (dds_waitset.rs:70), what it handed out is alive  *)
(* or was freed too early by the application; past that there is junk only  *)
(* in a vector that had no room for all; and nothing is attached that is    *)
(* gone.                                                                    *)
WaitSound ==
  /\ roomy => Junk \notin returned
  /\ returned \ {Junk} \subseteq arguments \cup freedEarly
  /\ \A a \in attached : a[1] \in exists /\ a[2] \in arguments \cup freedEarly
=============================================================================
