----------------------------- MODULE IdlModules -----------------------------
(***************************************************************************)
(* The text that InterfaceDef::idl and full_ros2_msg concatenate           *)
(* (interface_gen.rs and the code of #[derive(DdsInterface)]) as a reader  *)
(* of it sees it: modules that open and close, structs declared in them,   *)
(* fields that refer to structs by a scoped name.  The types come in the   *)
(* order the registries leave them in, dependencies first (InterfaceDefs). *)
(***************************************************************************)
EXTENDS Naturals, Sequences, FiniteSets, Lists

CONSTANTS Modes,    \* the NsMode values considered
          Definitions  \* sequences of structs that derive DdsInterface

(* A middle is split at "::"; "" is an empty segment of it *)
Empty == ""
Raw == [middle |-> << >>, suffix |-> ""]
WithMiddle(middle) == [middle |-> middle, suffix |-> ""]
WithMiddleSuffix(middle, suffix) == [middle |-> middle, suffix |-> suffix]

ros2idl == WithMiddle(<< "msg" >>)
ros2dds == WithMiddleSuffix(<< "msg", "dds_" >>, "_")

(* Rust's primitives with their names in IDL (_ is a space) and in .msg *)
Primitives ==
  { << "bool", "boolean", "bool" >>, << "u8", "octet", "uint8" >>,
    << "i8", "int8", "int8" >>, << "i16", "short", "int16" >>,
    << "u16", "unsigned_short", "uint16" >>, << "i32", "long", "int32" >>,
    << "u32", "unsigned_long", "uint32" >>, << "i64", "long_long", "int64" >>,
    << "u64", "unsigned_long_long", "uint64" >>,
    << "f32", "float", "float32" >>, << "f64", "double", "float64" >>,
    << "String", "string", "string" >> }

Field(earlier) ==
  [ struct : 0..earlier, prim : { p[1] : p \in Primitives },
    shape : {"plain", "vec", "array"}, length : Nat ]

(* A struct's fields name structs that come before it                       *)
ASSUME IdlAssumption ==
  /\ \A m \in Modes : m.middle \in Seq(STRING)
  /\ \A d \in Definitions :
       /\ Len(d) \in Nat /\ DOMAIN d = 1..Len(d)
       /\ \A t \in DOMAIN d : d[t].fields \in Seq(Field(t - 1))

VARIABLES
  mode,       \* NsMode
  defs,     \* the structs: [package, name, fields]
  at,         \* << struct, next piece of its definition >>
  scope,      \* modules that are open
  declared,   \* scoped names of the structs declared so far
  idl_fields, \* fields declared so far, with what the scoped name met
  sections    \* full_ros2_msg so far: headers and fields

idlVars == << mode, defs, at, scope, declared, idl_fields, sections >>

---------------------------------------------------------------------------
middle_segments(m) == Kept(m.middle, ToSet(m.middle) \ {Empty})

idl_type_name(m, name) == << name, m.suffix >>

(* Unlike the modules, a reference keeps the empty segments *)
idl_type_ref(m, package, name) ==
  << package >> \o m.middle \o << idl_type_name(m, name) >>

idl_module_open(m, package) == << package >> \o middle_segments(m)

(* Mutant of idl_module_close: one "};" for a middle, however deep *)
idl_module_close_once(m) == IF middle_segments(m) = << >> THEN 1 ELSE 2

(* The number of "};" *)
idl_module_close(m) == 1 + Len(middle_segments(m))

Primitive(p) == CHOOSE q \in Primitives : q[1] = p

(* A field's element is a struct or a primitive; the field is one, a Vec or *)
(* an array of them, no more: Vec and arrays do not implement InterfaceElem *)
ElementIdl(f) ==
  IF f.struct > 0
  THEN idl_type_ref(mode, defs[f.struct].package, defs[f.struct].name)
  ELSE << Primitive(f.prim)[2] >>

MsgName(t) == << defs[t].package, defs[t].name >>

ElementMsg(f) ==
  IF f.struct > 0 THEN MsgName(f.struct) ELSE << Primitive(f.prim)[3] >>

(* In IDL a sequence is part of the type and an array's length follows the  *)
(* field's name                                                             *)
IdlField(f) ==
  [ ref |-> ElementIdl(f), sequence |-> f.shape = "vec",
    bound |-> IF f.shape = "array" THEN f.length ELSE 0 ]

MsgField(f) ==
  [ ref |-> ElementMsg(f),
    suffix |-> CASE f.shape = "vec" -> << 0 >>
                 [] f.shape = "array" -> << f.length >>
                 [] OTHER -> << >> ]

(* MsgDefRegistry::render: the type asked for comes first, without a header *)
Section(t) ==
  [ header |-> IF t = Len(defs) THEN << >> ELSE << MsgName(t) >>,
    fields |-> [i \in DOMAIN defs[t].fields |-> MsgField(defs[t].fields[i])] ]

---------------------------------------------------------------------------
IdlInit ==
  /\ mode \in Modes /\ defs \in Definitions
  /\ at = << 1, "open" >>
  /\ scope = << >> /\ declared = {} /\ idl_fields = {} /\ sections = << >>

Current == defs[at[1]]

(* idl_def: the modules are opened *)
OpenModules ==
  /\ at[1] <= Len(defs) /\ at[2] = "open"
  /\ scope' = scope \o idl_module_open(mode, Current.package)
  /\ at' = << at[1], "struct" >>
  /\ UNCHANGED << mode, defs, declared, idl_fields, sections >>

(* the struct and its fields *)
DeclareStruct ==
  /\ at[1] <= Len(defs) /\ at[2] = "struct"
  /\ declared' = declared \cup {Append(scope, idl_type_name(mode, Current.name))}
  /\ idl_fields' = idl_fields \cup
       { [ struct |-> at[1], field |-> i, idl |-> IdlField(Current.fields[i]),
           met |-> IdlField(Current.fields[i]).ref \in declared ]
         : i \in DOMAIN Current.fields }
  /\ at' = << at[1], "close" >>
  /\ UNCHANGED << mode, defs, scope, sections >>

(* and the modules closed; .msg definitions come in the reverse order *)
CloseModules ==
  /\ at[1] <= Len(defs) /\ at[2] = "close"
  /\ scope' = SubSeq(scope, 1, Len(scope) - idl_module_close(mode))
  /\ sections' = << Section(at[1]) >> \o sections
  /\ at' = << at[1] + 1, "open" >>
  /\ UNCHANGED << mode, defs, declared, idl_fields >>

IdlNext == OpenModules \/ DeclareStruct \/ CloseModules

IdlSpec == IdlInit /\ [][IdlNext]_idlVars

---------------------------------------------------------------------------
(* What the names of primitives mean to an IDL and to a ROS 2 reader *)
IdlMeans ==
  { << "boolean", "truth", 8 >>, << "octet", "unsigned", 8 >>,
    << "int8", "signed", 8 >>, << "short", "signed", 16 >>,
    << "unsigned_short", "unsigned", 16 >>, << "long", "signed", 32 >>,
    << "unsigned_long", "unsigned", 32 >>, << "long_long", "signed", 64 >>,
    << "unsigned_long_long", "unsigned", 64 >>, << "float", "real", 32 >>,
    << "double", "real", 64 >>, << "string", "text", 0 >> }
MsgMeans ==
  { << "bool", "truth", 8 >>, << "uint8", "unsigned", 8 >>,
    << "int8", "signed", 8 >>, << "int16", "signed", 16 >>,
    << "uint16", "unsigned", 16 >>, << "int32", "signed", 32 >>,
    << "uint32", "unsigned", 32 >>, << "int64", "signed", 64 >>,
    << "uint64", "unsigned", 64 >>, << "float32", "real", 32 >>,
    << "float64", "real", 64 >>, << "string", "text", 0 >> }
Meaning(table, name) == { << m[2], m[3] >> : m \in { n \in table : n[1] = name } }

(* Every module is closed before the next definition. *)
Balanced == at[2] = "open" => scope = << >>

(* A field of a struct type names a struct that was declared before it.     *)
NamesAStruct(f) ==
  LET field == defs[f.struct].fields[f.field] IN
  IF field.struct > 0 THEN f.met
  ELSE /\ Meaning(IdlMeans, f.idl.ref[1]) # {}
       /\ Meaning(IdlMeans, f.idl.ref[1]) = Meaning(MsgMeans, ElementMsg(field)[1])

(* The same in full_ros2_msg: a header with that name follows *)
Followed ==
  \A i \in DOMAIN sections : \A n \in DOMAIN sections[i].fields :
    LET ref == sections[i].fields[n].ref IN
    Len(ref) = 2 => \E j \in DOMAIN sections : j > i /\ sections[j].header = << ref >>

(* Every reference of the IDL resolves: the comment on middle_segments      *)
(* (interface_gen.rs:143) says that empty segments of a middle leave valid  *)
(* modules behind.                                                          *)
ReferencesResolve == \A f \in idl_fields : NamesAStruct(f)

(* For middles without empty segments, as both ROS 2 modes are, the IDL is  *)
(* balanced and resolves, and so does the .msg text, primitives mean the    *)
(* same in both.                                                            *)
TextsResolve ==
  /\ Balanced
  /\ (\A i \in DOMAIN mode.middle : mode.middle[i] # Empty) =>
        ReferencesResolve
  /\ at[1] > Len(defs) => Followed
=============================================================================
