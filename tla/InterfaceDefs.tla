--------------------------- MODULE InterfaceDefs ---------------------------
(***************************************************************************)
(* InterfaceDef::idl and full_ros2_msg: what the code derived for a type   *)
(* (dds_derive/src/lib.rs, collect_defs and collect_msg_defs) does with a  *)
(* DefRegistry or a MsgDefRegistry (cyclonedds/src/interface_gen.rs).  The *)
(* recursion over the fields is a stack of frames, one step a call of enter*)
(* or finish.  Vec and arrays delegate to their element, primitives do     *)
(* nothing: both are part of a type's own text.                            *)
(***************************************************************************)
EXTENDS Naturals, Sequences, FiniteSets

CONSTANTS Types,     \* structs that derive DdsInterface
          Root,      \* the one that is asked for its definition
          Names,     \* values of (package, name)
          Texts,     \* what else tells two definitions apart
          Programs   \* the programs considered

ASSUME ProgramsAssumption ==
  /\ IsFiniteSet(Types) /\ Root \in Types
  /\ Programs \subseteq [ fields : [Types -> Seq(Types)],
                          name   : [Types -> Names],
                          own    : [Types -> Texts] ]

VARIABLES
  program,   \* fields, name and own text of each type
  registry,  \* "idl": DefRegistry; "msg": MsgDefRegistry
  stack,     \* calls of collect_defs: [type, next field to visit]
  visiting,  \* names on the path
  seen_defs, \* pairs of a name and the definition registered for it
  entries,   \* the output: pairs of a name and a definition
  outcome    \* "running", "done", "conflict", "cycle", "out of order"

defsVars ==
  << program, registry, stack, visiting, seen_defs, entries, outcome >>

Fields(t) == program.fields[t]
Name(t) == program.name[t]

(* idl_def and msg_def: a field of a struct type shows only its name *)
Definition(t) ==
  << program.own[t], [i \in DOMAIN Fields(t) |-> Name(Fields(t)[i])] >>

(* DefRegistry::new, and the call for the root itself *)
DefsInit ==
  /\ program \in Programs
  /\ registry \in {"idl", "msg"}
  /\ stack = << [type |-> Root, next |-> 1] >>
  /\ visiting = << Name(Root) >>
  /\ seen_defs = {}
  /\ entries = IF registry = "msg" THEN << << Name(Root), Definition(Root) >> >>
               ELSE << >>
  /\ outcome = "running"

---------------------------------------------------------------------------
Top == stack[Len(stack)]
Under == SubSeq(stack, 1, Len(stack) - 1)
NextField == Fields(Top.type)[Top.next]

Registered(name) == \E d \in seen_defs : d[1] = name

OnPath(name) == \E i \in DOMAIN visiting : visiting[i] = name

(* The field is done with *)
Advanced == [stack EXCEPT ![Len(stack)].next = @ + 1]

InFields ==
  outcome = "running" /\ stack # << >> /\ Top.next <= Len(Fields(Top.type))

Panics(why) ==
  /\ outcome' = why
  /\ UNCHANGED << program, registry, stack, visiting, seen_defs, entries >>

(* enter: the name is registered, with this definition or with another *)
EnterKnown ==
  /\ InFields /\ Registered(Name(NextField))
  /\ IF << Name(NextField), Definition(NextField) >> \in seen_defs
     THEN /\ stack' = Advanced
          /\ UNCHANGED << program, registry, visiting, seen_defs, entries, outcome >>
     ELSE Panics("conflict")

(* Mutant of EnterVisited: a name on the path counts as known *)
EnterVisitedSkips ==
  /\ InFields /\ ~Registered(Name(NextField)) /\ OnPath(Name(NextField))
  /\ stack' = Advanced
  /\ UNCHANGED << program, registry, visiting, seen_defs, entries, outcome >>

(* enter: it is on the path *)
EnterVisited ==
  /\ InFields /\ ~Registered(Name(NextField)) /\ OnPath(Name(NextField))
  /\ Panics("cycle")

(* enter: it is new *)
EnterNew ==
  /\ InFields
  /\ ~Registered(Name(NextField)) /\ ~OnPath(Name(NextField))
  /\ stack' = Append(stack, [type |-> NextField, next |-> 1])
  /\ visiting' = Append(visiting, Name(NextField))
  /\ entries' = IF registry = "msg"
                THEN Append(entries, << Name(NextField), Definition(NextField) >>)
                ELSE entries
  /\ UNCHANGED << program, registry, seen_defs, outcome >>

(* finish, and back to the fields of the type that has this one as a field *)
Finish ==
  /\ outcome = "running" /\ stack # << >>
  /\ Top.next > Len(Fields(Top.type))
  /\ IF visiting # << >> /\ visiting[Len(visiting)] = Name(Top.type)
     THEN /\ visiting' = SubSeq(visiting, 1, Len(visiting) - 1)
          /\ seen_defs' = seen_defs \cup {<< Name(Top.type), Definition(Top.type) >>}
          /\ entries' =
               IF registry = "idl"
               THEN Append(entries, << Name(Top.type), Definition(Top.type) >>)
               ELSE entries
          /\ stack' = IF Len(stack) = 1 THEN << >>
                      ELSE [Under EXCEPT ![Len(Under)].next = @ + 1]
          /\ outcome' = IF Len(stack) = 1 THEN "done" ELSE outcome
          /\ UNCHANGED << program, registry >>
     ELSE Panics("out of order")

DefsNext == EnterKnown \/ EnterVisited \/ EnterNew \/ Finish

DefsSpec == DefsInit /\ [][DefsNext]_defsVars

---------------------------------------------------------------------------
(* The names a definition refers to *)
Refs(entry) == { entry[2][2][k] : k \in DOMAIN entry[2][2] }

(* No name is defined twice, in an .idl every name is defined before it is  *)
(* used, and what is finished lacks none: at every moment, so that even the *)
(* order of the traversal cannot be wrong; finish is never out of order.    *)
OutputSound ==
  /\ outcome # "out of order"
  /\ \A i, j \in DOMAIN entries : entries[i][1] = entries[j][1] => i = j
  /\ registry = "idl" =>
       \A i \in DOMAIN entries : \A n \in Refs(entries[i]) :
         \E j \in 1..i - 1 : entries[j][1] = n
  /\ outcome = "done" =>
       \A i \in DOMAIN entries : \A n \in Refs(entries[i]) :
         \E j \in DOMAIN entries : entries[j][1] = n

(* Field by field from t to u, through types of the set S                   *)
Path(S, t, u) ==
  \E n \in 1..Cardinality(Types) : \E p \in [0..n -> Types] :
    /\ p[0] = t /\ p[n] = u
    /\ \A i \in 1..n : p[i - 1] \in S
    /\ \A i \in 1..n : \E k \in DOMAIN Fields(p[i - 1]) :
         Fields(p[i - 1])[k] = p[i]

Reached == { t \in Types : t = Root \/ Path(Types, Root, t) }

Defined(t) == \E i \in DOMAIN entries : entries[i] = << Name(t), Definition(t) >>

(* A panic is justified, and omitted only if it is not: one name is needed  *)
(* for its own definition, or two types of one name differ.  As long as no  *)
(* namesake stands in between, every type the root needs is defined as is.  *)
PanicJustified ==
  LET Unique == { t \in Reached : \A u \in Reached : Name(u) = Name(t) => u = t } IN
  /\ outcome = "cycle" =>
       \E t, u \in Reached : Name(t) = Name(u) /\ Path(Types, t, u)
  /\ outcome = "conflict" =>
       \E t, u \in Reached :
         Name(t) = Name(u) /\ Definition(t) # Definition(u)
  /\ outcome = "done" =>
       \A t \in Types : Path(Unique, Root, t) => Defined(t)

(* The definitions that come out are complete and in order, or there is a   *)
(* reason why none come out.                                                *)
DefinitionsSound == OutputSound /\ PanicJustified
=============================================================================
