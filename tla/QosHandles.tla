----------------------------- MODULE QosHandles -----------------------------
(***************************************************************************)
(* Who owns a dds_qos_t (dds_qos.rs), and what a builtin sample says of a  *)
(* participant (dds_builtin.rs).  A DdsQos owns its dds_qos_t until it is  *)
(* dropped or given to C; a discovered sample's dds_qos_t belongs to the   *)
(* loan, and DdsQos only borrows it.  Values are modelled by a lifespan    *)
(* (a deadline is no different) and user data; what QosPolicy models of a  *)
(* DdsQos is not repeated.                                                 *)
(***************************************************************************)
EXTENDS QosPolicy, Sequences, SequencesExt

CONSTANTS QosObjects, QosNames,  \* dds_qos_t's, and the Rust variables for them
          PropertyLists          \* sequences of << name, value >> of participants

ASSUME HandlesAssumption ==
  /\ NotSet \notin QosObjects \cup Int
  /\ PropertyLists \subseteq Seq(STRING \X STRING)

VARIABLES
  qobject,  \* the dds_qos_t's: who owns each, and its policies
  qhandle,  \* qhandle[v]: the dds_qos_t of variable v, or NotSet
  told,     \* told[v]: what the application set through v, or v's original
  found,    \* the loan of a builtin sample, or NotSet
  answered \* whether property() was called on it, and its answer

handleVars == << qobject, qhandle, told, found, answered >>

NoUserdata == 0
BlankQos == [owner |-> "none", lifespan |-> NotSet, userdata |-> NoUserdata]
Untold == [lifespan |-> NotSet, userdata |-> NoUserdata]
Answer(kind, values) == [kind |-> kind, values |-> values]
NotAsked == Answer("not asked", << >>)

HandlesInit ==
  /\ qobject = [o \in QosObjects |-> BlankQos]
  /\ qhandle = [v \in QosNames |-> NotSet]
  /\ told = [v \in QosNames |-> Untold]
  /\ found = NotSet /\ answered = NotAsked

Unused(o) == qobject[o].owner = "none"
NoQos(v) == qhandle[v] = NotSet
ObjectOf(v) == qobject[qhandle[v]]

---------------------------------------------------------------------------
(* dds_create_qos *)
CreateQos(v, o) ==
  /\ NoQos(v) /\ Unused(o)
  /\ qobject' = [qobject EXCEPT ![o].owner = "rust"]
  /\ qhandle' = [qhandle EXCEPT ![v] = o]
  /\ told' = [told EXCEPT ![v] = Untold]
  /\ UNCHANGED << found, answered >>

(* What the application means by a duration: infinity, if it is longer *)
Meant(d) == IF d > Infinity THEN Infinity ELSE d

(* set_lifespan, set_deadline *)
SetLifespan(v, d) ==
  /\ ~NoQos(v)
  /\ qobject' = [qobject EXCEPT ![qhandle[v]].lifespan = to_dds_duration(d)]
  /\ told' = [told EXCEPT ![v].lifespan = Meant(d)]
  /\ UNCHANGED << qhandle, found, answered >>

(* No data is as good as none set *)
set_userdata(v, n) ==
  /\ ~NoQos(v)
  /\ qobject' = [qobject EXCEPT ![qhandle[v]].userdata = n]
  /\ told' = [told EXCEPT ![v].userdata = n]
  /\ UNCHANGED << qhandle, found, answered >>

(* The getters lifespan, deadline, userdata *)
Reads(q) ==
  [ lifespan |-> IF q.lifespan = NotSet THEN NotSet ELSE from_dds_duration(q.lifespan),
    userdata |-> q.userdata ]

Owned(q) == [q EXCEPT !.owner = "rust"]

(* Mutant of Copied: the pointer is copied, as #[derive(Clone)] would *)
CopiedPointer(v, o) ==
  /\ UNCHANGED qobject /\ qhandle' = [qhandle EXCEPT ![v] = o]

(* dds_copy_qos into a new dds_qos_t *)
Copied(v, o) ==
  \E new \in { x \in QosObjects : Unused(x) } :
    /\ qobject' = [qobject EXCEPT ![new] = Owned(qobject[o])]
    /\ qhandle' = [qhandle EXCEPT ![v] = new]

CopyFails ==
  \E new \in { x \in QosObjects : Unused(x) } :
    /\ qobject' = [qobject EXCEPT ![new].owner = "freed"]
    /\ UNCHANGED qhandle

(* Clone; if C cannot copy, the new one is deleted and clone panics *)
CloneQos(v, w) ==
  /\ ~NoQos(v) /\ NoQos(w)
  /\ \/ Copied(w, qhandle[v]) /\ told' = [told EXCEPT ![w] = told[v]]
     \/ CopyFails /\ UNCHANGED told
  /\ UNCHANGED << found, answered >>

(* merge: what is missing comes from the other *)
MergeQos(v, w) ==
  /\ ~NoQos(v) /\ ~NoQos(w)
  /\ qobject' = [qobject EXCEPT ![qhandle[v]].lifespan = Or(@, ObjectOf(w).lifespan),
                                ![qhandle[v]].userdata = IF @ # 0 THEN @ ELSE ObjectOf(w).userdata]
  /\ told' = [told EXCEPT ![v].lifespan = Or(@, told[w].lifespan),
                          ![v].userdata = IF @ # 0 THEN @ ELSE told[w].userdata]
  /\ UNCHANGED << qhandle, found, answered >>

Forgotten(v) ==
  /\ qhandle' = [qhandle EXCEPT ![v] = NotSet]
  /\ told' = [told EXCEPT ![v] = Untold]
  /\ UNCHANGED << found, answered >>

(* From<DdsQos> for *const dds_qos_t, for the call that creates an entity:  *)
(* C copies the policies, the dds_qos_t is never freed                      *)
GiveToC(v) ==
  /\ ~NoQos(v)
  /\ qobject' = [qobject EXCEPT ![qhandle[v]].owner = "leaked"]
  /\ Forgotten(v)

DropQos(v) ==
  /\ ~NoQos(v)
  /\ qobject' = [qobject EXCEPT ![qhandle[v]] = [BlankQos EXCEPT !.owner = "freed"]]
  /\ Forgotten(v)

---------------------------------------------------------------------------
(* A builtin reader lends a sample; one of a participant that left has no   *)
(* dds_qos_t                                                                *)
LendSample(o, lifespan, n, props) ==
  /\ found = NotSet /\ Unused(o)
  /\ \E alive \in BOOLEAN :
       /\ found' = [qos |-> IF alive THEN o ELSE NotSet, props |-> props]
       /\ qobject' = IF alive
                     THEN [qobject EXCEPT ![o] = [ owner |-> "sample",
                             lifespan |-> lifespan, userdata |-> n ]]
                     ELSE qobject
  /\ answered' = NotAsked
  /\ UNCHANGED << qhandle, told >>

is_alive == found.qos # NotSet

(* qos(): a copy, or nothing if C cannot copy *)
QosOfSample(v) ==
  /\ found # NotSet /\ is_alive /\ NoQos(v)
  /\ \/ /\ Copied(v, found.qos)
        /\ told' = [told EXCEPT ![v] = Reads(qobject[found.qos])]
     \/ CopyFails /\ UNCHANGED told
  /\ UNCHANGED << found, answered >>

(* policy(): DdsQos::from_ptr, Policy::from, forget *)
SummariseSample == found # NotSet /\ is_alive /\ UNCHANGED handleVars

(* property(), over a list in any order and with any names: the last of     *)
(* equal names counts; a process id that is no number is 0, and any of the  *)
(* four values that is no UTF-8 is an error                                 *)
Wanted == {"process_name", "pid", "host_name", "network_addresses"}
NotUtf8 == "not utf-8"
Parsed(name, value) == IF name = "pid" /\ value = "text" THEN "0" ELSE value

property(props) ==
  LET Known == { i \in DOMAIN props : props[i][1] \in Wanted }
      LastOf(name) == CHOOSE i \in Known : /\ props[i][1] = name
                                           /\ \A j \in Known : props[j][1] = name => j <= i
  IN IF \E i \in Known : props[i][2] = NotUtf8 THEN Answer("utf8 error", << >>)
     ELSE IF \E name \in Wanted : \A i \in Known : props[i][1] # name
       THEN Answer("none", << >>)
     ELSE Answer("some", [name \in Wanted |-> Parsed(name, props[LastOf(name)][2])])

AskProperty ==
  /\ found # NotSet /\ answered = NotAsked
  /\ answered' = IF is_alive THEN property(found.props) ELSE Answer("none", << >>)
  /\ UNCHANGED << qobject, qhandle, told, found >>

(* dds_return_loan *)
ReturnLent ==
  /\ found # NotSet
  /\ found' = NotSet /\ answered' = NotAsked
  /\ qobject' = IF is_alive
                THEN [qobject EXCEPT ![found.qos] = [BlankQos EXCEPT !.owner = "freed"]]
                ELSE qobject
  /\ UNCHANGED << qhandle, told >>

HandlesNext ==
  \/ \E v \in QosNames :
       \/ \E o \in QosObjects : CreateQos(v, o)
       \/ \E d \in Durations : SetLifespan(v, d)
       \/ \E n \in {0, 1} : set_userdata(v, n)
       \/ \E w \in QosNames : CloneQos(v, w) \/ MergeQos(v, w)
       \/ GiveToC(v) \/ DropQos(v) \/ QosOfSample(v)
  \/ \E o \in QosObjects : \E d \in Foreign : \E n \in {0, 1} :
       \E props \in PropertyLists : LendSample(o, d, n, props)
  \/ SummariseSample \/ AskProperty \/ ReturnLent

HandlesSpec == HandlesInit /\ [][HandlesNext]_handleVars

---------------------------------------------------------------------------
(* A participant's properties are given only if all four are there and can  *)
(* be read, and then as the participant announced them.                     *)
PropertiesSound ==
  answered.kind = "some" =>
    \A name \in Wanted : \E i \in DOMAIN found.props :
      /\ found.props[i][1] = name
      /\ answered.values[name] = Parsed(name, found.props[i][2])

(* Each DdsQos alone owns its dds_qos_t, and reads what was set through it  *)
(* or through what it was copied from, whatever was done to that since: to  *)
(* the other value, or to the loan it came from.  No dds_qos_t is freed     *)
(* while it is used, and only those given to C are never freed              *)
(* (dds_qos.rs:434, 467, 482, dds_builtin.rs:208).                          *)
HandlesSound ==
  /\ \A v \in QosNames : ~NoQos(v) =>
       /\ ObjectOf(v).owner = "rust" /\ Reads(ObjectOf(v)) = told[v]
       /\ \A w \in QosNames : qhandle[w] = qhandle[v] => w = v
  /\ \A o \in QosObjects : qobject[o].owner = "rust" => \E v \in QosNames : qhandle[v] = o
  /\ found # NotSet /\ is_alive => qobject[found.qos].owner = "sample"
  /\ PropertiesSound
=============================================================================
