---------------------------- MODULE DeriveMacros ----------------------------
(***************************************************************************)
(* The derive macros Topic and DdsInterface (dds_derive/src/lib.rs).  Both *)
(* expand the same struct, in any order and each without knowing of the    *)
(* other; what DDS is told (the key holder, the type name) and what the    *)
(* generated IDL says must agree.  A program has two structs, of which the *)
(* first may have the second as the type of a field.                       *)
(***************************************************************************)
EXTENDS Naturals, Sequences, Lists

CONSTANT Structs   \* the pairs of structs considered

(* Types as the macros see them, by their syntax: a path, an array of n      *)
(* elements, or anything else; u32 stands for the primitives of fixed width *)
Portable == {"u32"}
Unportable == {"usize", "isize", "u128", "i128"}
Named == Portable \cup Unportable \cup {"String", "Vec<T>", "Enum", "Inner"}
FieldTypes == [kind : {"path"}, of : Named, n : {1}]
           \cup [kind : {"array"}, of : Named \cup {"[T; N]"}, n : 0..1]
           \cup [kind : {"other"}, of : {"&T"}, n : {1}]

(* A name is the classes of its characters.  A keyword, which is in lower   *)
(* case, is one character of a class of its own, named for its language.    *)
IDL_KEYWORDS == {"idl"}
C_CPP_KEYWORDS == {"c_cpp"}
PYTHON_KEYWORDS == {"python"}
Keywords == IDL_KEYWORDS \cup C_CPP_KEYWORDS \cup PYTHON_KEYWORDS
Lower == {"a"} \cup Keywords
Classes == Lower \cup {"A", "1", "underscore", "-"}

KeyAttributes == {"no", "topic_key", "topic_key_enum"}

(* A struct, its attributes and fields.  Not every key has a value.         *)
ASSUME StructsAssumption ==
  \A pair \in Structs, i \in 1..2 :
    /\ pair[i].fields \in
         Seq([name : Seq(Classes), type : FieldTypes, key : KeyAttributes])
    /\ Len(pair[i].attrs) \in Nat /\ DOMAIN pair[i].attrs = 1..Len(pair[i].attrs)
    /\ \A k \in DOMAIN pair[i].attrs :
         pair[i].attrs[k].key = "package" => pair[i].attrs[k].value \in Seq(Classes)

VARIABLES
  structs,    \* the two
  topics,     \* what Topic made of each: "none", an error or a record
  interfaces  \* what DdsInterface made of each

deriveVars == << structs, topics, interfaces >>

---------------------------------------------------------------------------
(* Classification of a field by its attribute and its type                  *)

is_key(field) == field.key \in {"topic_key", "topic_key_enum"}
is_key_enum(field) == field.key = "topic_key_enum"

is_primitive_type_path(name) == name \in Portable \cup Unportable \cup {"String"}
is_primitive(field) ==
  field.type.kind = "path" /\ is_primitive_type_path(field.type.of)

is_variable_length(field) ==
  field.type.kind = "path" /\ field.type.of \in {"String", "Vec<T>"}

IsArray(field) == field.type.kind = "array"

(* A path whose last segment has no arguments                               *)
IsPlainPath(field) == field.type.kind = "path" /\ field.type.of # "Vec<T>"

validate_key_field_type(field) ==
  /\ field.name # << >>
  /\ field.type.of \notin Unportable
  /\ IF is_key_enum(field) THEN IsPlainPath(field)
     ELSE \/ IsPlainPath(field)
          \/ IsArray(field) /\ is_primitive_type_path(field.type.of)

(* Mutant of HoldsString: only a String by itself is of variable length     *)
HoldsStringByItself(field) == is_variable_length(field)

(* The field makes variable_length true                                     *)
HoldsString(field) ==
  \/ (is_primitive(field) \/ is_key_enum(field)) /\ is_variable_length(field)
  \/ IsArray(field) /\ field.type.of = "String"

Failed(why) == [error |-> why]

KeyFields(item) == Kept(item.fields, { f \in ToSet(item.fields) : is_key(f) })

(* The key fields' names; whether the holder's length is known to vary;     *)
(* whether that of the second struct's holder counts as well                *)
build_key_holder_struct(item) ==
  LET keys == KeyFields(item)
      Direct(field) == is_primitive(field) \/ is_key_enum(field) IN
  IF \E i \in DOMAIN keys : ~validate_key_field_type(keys[i])
  THEN Failed("key")
  ELSE IF \E i \in DOMAIN keys :
            ~Direct(keys[i]) /\ keys[i].type.kind \notin {"path", "array"}
  THEN Failed("unreachable")
  ELSE [ error     |-> "none",
         fields    |-> [i \in DOMAIN keys |-> keys[i].name],
         variable  |-> \E i \in DOMAIN keys : HoldsString(keys[i]),
         contained |-> \E i \in DOMAIN keys : ~Direct(keys[i])
                         /\ keys[i].type.kind = "path"
                         /\ keys[i].type.of = "Inner" ]

---------------------------------------------------------------------------
(* Names                                                                    *)

validate_lower_snake_case(chars) ==
  LET Fits(prev, c) == IF c = "underscore" THEN prev # c ELSE c \in Lower \cup {"1"}
      Step(prev, c) == IF prev # "bad" /\ Fits(prev, c) THEN c ELSE "bad" IN
  /\ chars # << >> /\ Head(chars) \in Lower
  /\ FoldLeft(Step, "a", Tail(chars)) # "bad"
  /\ Last(chars) # "underscore"

validate_ros_type_name(chars) ==
  /\ chars # << >> /\ Head(chars) = "A"
  /\ \A i \in DOMAIN chars : chars[i] \in Lower \cup {"A", "1"}

is_reserved_keyword(chars) == Len(chars) = 1 /\ chars[1] \in Keywords

validate_msg_field_name(chars) ==
  validate_lower_snake_case(chars) /\ ~is_reserved_keyword(chars)

escape_idl_identifier(chars) ==
  IF is_reserved_keyword(chars) THEN << "underscore" >> \o chars ELSE chars

---------------------------------------------------------------------------
(* The arguments of #[cdds(...)], of all its lines, in order                *)

NoAttrs ==
  [error |-> "none", fixed_size |-> FALSE, package |-> << >>, name |-> << >>]

(* << >> stands for None: a literal is << its value >>                      *)
parse_cdds_attrs(attrs) ==
  LET Step(result, arg) ==
        IF result.error # "none" THEN result
        ELSE CASE arg.key = "fixed_size" /\ ~result.fixed_size ->
                    [result EXCEPT !.fixed_size = TRUE]
               [] arg.key = "package" /\ result.package = << >> /\ arg.literal ->
                    [result EXCEPT !.package = << arg.value >>]
               [] arg.key = "name" /\ result.name = << >> /\ arg.literal ->
                    [result EXCEPT !.name = << arg.value >>]
               [] OTHER -> Failed("attrs") IN
  FoldLeft(Step, NoAttrs, attrs)

(* unwrap_or_else: the struct's own name                                    *)
NameOr(cdds, item) == IF cdds.name = << >> THEN item.ident ELSE cdds.name[1]

---------------------------------------------------------------------------
(* The expansions: an error or what the generated code says                 *)

derive_topic(item) ==
  LET holder == build_key_holder_struct(item)
      cdds == parse_cdds_attrs(item.attrs) IN
  IF item.generic THEN Failed("generic")
  ELSE IF item.reserved = "Topic" THEN Failed("reserved")
  ELSE IF holder.error # "none" THEN holder
  ELSE IF cdds.error # "none" THEN cdds
  ELSE [ error |-> "none", keys |-> holder.fields,
         variable |-> holder.variable, contained |-> holder.contained,
         fixed_size |-> cdds.fixed_size,
         typename |-> IF cdds.package = << >> THEN << >>
                      ELSE << cdds.package[1], NameOr(cdds, item) >> ]

derive_dds_interface(item) ==
  LET cdds == parse_cdds_attrs(item.attrs)
      keys == KeyFields(item) IN
  IF item.generic THEN Failed("generic")
  ELSE IF item.reserved = "DdsInterface" THEN Failed("reserved")
  ELSE IF cdds.error # "none" THEN cdds
  ELSE IF cdds.package = << >> THEN Failed("package")
  ELSE IF ~validate_lower_snake_case(cdds.package[1]) THEN Failed("package")
  ELSE IF item.shape # "named" THEN Failed("unnamed")
  ELSE IF item.fields = << >> THEN Failed("empty")
  ELSE IF ~validate_ros_type_name(NameOr(cdds, item)) THEN Failed("type_name")
  ELSE IF \E i \in DOMAIN item.fields :
            ~validate_msg_field_name(item.fields[i].name) THEN Failed("field_name")
  ELSE IF \E i \in DOMAIN item.fields :
            IsArray(item.fields[i]) /\ item.fields[i].type.n = 0 THEN Failed("zero")
  ELSE IF \E i \in DOMAIN keys :
            ~validate_key_field_type(keys[i]) THEN Failed("key")
  ELSE [ error |-> "none", keys |-> [i \in DOMAIN keys |-> keys[i].name],
         msg_ref |-> << cdds.package[1], NameOr(cdds, item) >>,
         idl_module |-> escape_idl_identifier(cdds.package[1]),
         members |-> [i \in DOMAIN item.fields |-> item.fields[i].name] ]

Pending == Failed("not_expanded")

DeriveInit ==
  /\ structs \in Structs
  /\ topics = << Pending, Pending >>
  /\ interfaces = << Pending, Pending >>

ExpandTopic(i) ==
  /\ topics[i] = Pending
  /\ topics' = [topics EXCEPT ![i] = derive_topic(structs[i])]
  /\ UNCHANGED << structs, interfaces >>

ExpandDdsInterface(i) ==
  /\ interfaces[i] = Pending
  /\ interfaces' = [interfaces EXCEPT ![i] = derive_dds_interface(structs[i])]
  /\ UNCHANGED << structs, topics >>

DeriveNext == \E i \in 1..2 : ExpandTopic(i) \/ ExpandDdsInterface(i)

DeriveSpec == DeriveInit /\ [][DeriveNext]_deriveVars

---------------------------------------------------------------------------
Derived(outcome) == outcome.error = "none"

(* force_md5_keyhash of the i-th struct: is_variable_length of its holder   *)
force_md5_keyhash(i) ==
  \/ topics[i].variable
  \/ i = 1 /\ topics[i].contained /\ topics[2].variable

(* There is a String in the key                                             *)
InKey(i, name) ==
  \E k \in DOMAIN structs[i].fields :
    is_key(structs[i].fields[k]) /\ structs[i].fields[k].type.of = name
      /\ (name = "Inner" => ~is_key_enum(structs[i].fields[k]))

StringInKey(i) ==
  \/ InKey(i, "String")
  \/ i = 1 /\ InKey(1, "Inner") /\ InKey(2, "String")

(* [a-z][a-z0-9_]* without "__" and a trailing "_": segments of letters and *)
(* digits, each with one "_" in front of the next                           *)
SnakeCase(chars) ==
  /\ chars # << >> /\ chars[1] \in Lower
  /\ \A i \in DOMAIN chars :
       \/ chars[i] \in Lower \cup {"1"}
       \/ chars[i] = "underscore" /\ i < Len(chars) /\ chars[i + 1] \in Lower \cup {"1"}

(* The two expansions of one struct agree although neither sees the other:  *)
(* on which key types they reject, on the key fields and their order, and   *)
(* on the type's name.  No key slips past the validation into the macro's   *)
(* unreachable!, the MD5 key hash is forced exactly if a String is in the   *)
(* key, directly, in an array or in a key struct, and the names that end up *)
(* in an IDL are those ROS 2 allows: the package as it is or escaped, and    *)
(* never a keyword of IDL, C, C++ or Python.                                *)
DerivesAgree ==
  \A i \in 1..2 :
    LET t == topics[i]
        d == interfaces[i] IN
    /\ t.error # "unreachable"
    /\ t.error = "key" => ~Derived(d)
    /\ d.error = "key" => ~Derived(t)
    /\ Derived(t) /\ Derived(d) =>
         t.keys = d.keys /\ t.typename = d.msg_ref
    /\ Derived(d) =>
         /\ SnakeCase(d.msg_ref[1])
         /\ \A k \in DOMAIN d.members :
              SnakeCase(d.members[k]) /\ d.members[k] \notin [1..1 -> Keywords]
         /\ d.idl_module \notin [1..1 -> Keywords]
         /\ d.idl_module \in {d.msg_ref[1], << "underscore" >> \o d.msg_ref[1]}
    /\ Derived(topics[1]) /\ Derived(topics[2]) =>
         (force_md5_keyhash(i) <=> StringInKey(i))
=============================================================================
