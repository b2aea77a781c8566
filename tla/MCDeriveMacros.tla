--------------------------- MODULE MCDeriveMacros ---------------------------
(* Small programs for DeriveMacros.                                         *)
EXTENDS DeriveMacros

Letter == << "a" >>
Capital == << "A" >>

Package == [key |-> "package", literal |-> TRUE, value |-> Letter]

PathTo(name) == [kind |-> "path", of |-> name, n |-> 1]

FieldOf(type, key) ==
  [name |-> Letter, type |-> type, key |-> key]

Struct(fields) ==
  [generic |-> FALSE, reserved |-> "no", ident |-> Capital, shape |-> "named",
   attrs |-> << Package >>, fields |-> fields]

Plain == Struct(<< FieldOf(PathTo("u32"), "no") >>)
Keyed == Struct(<< FieldOf(PathTo("String"), "topic_key") >>)

(* Every type of a field next to some others, over both kinds of inner keys *)
Others ==
  { [FieldOf(type, key) EXCEPT !.name = << "a", "1" >>] :
      type \in {PathTo("u32"), PathTo("String"), PathTo("Inner")}, key \in KeyAttributes }

ByKeys ==
  { Struct(<< FieldOf(type, key), other >>) :
      type \in FieldTypes, key \in KeyAttributes, other \in Others }

(* Every name of up to three characters, wherever there is one               *)
CharsUpTo(n) == UNION { [1..k -> Classes] : k \in 0..n }

ByName ==
  UNION { {
      [Plain EXCEPT !.attrs = << [Package EXCEPT !.value = chars] >>],
      [Plain EXCEPT !.attrs = << Package, [Package EXCEPT !.key = "name", !.value = chars] >>],
      [Plain EXCEPT !.ident = chars],
      [Plain EXCEPT !.fields[1].name = chars]
    } : chars \in CharsUpTo(3) \ {<< >>} }

(* Every list of up to three arguments, and the structs that are refused     *)
Arguments ==
  [key : {"package", "name"}, literal : BOOLEAN, value : {Letter, Capital}]
  \cup { [key |-> k] : k \in {"fixed_size", "typename", "unknown"} }

ByAttrs ==
  { [Keyed EXCEPT !.attrs = a] : a \in UNION { [1..n -> Arguments] : n \in 0..3 } }

Refused ==
  { [Keyed EXCEPT !.generic = g, !.reserved = r, !.fields = f] :
      g \in BOOLEAN, r \in {"no", "Topic", "DdsInterface"}, f \in {<< >>, Keyed.fields} }
  \cup
  { [Plain EXCEPT !.shape = "tuple",
                  !.fields = << [FieldOf(PathTo("u32"), k) EXCEPT !.name = << >>] >>] : k \in KeyAttributes }

SmallStructs ==
  (ByKeys \X {Plain, Keyed}) \cup ((ByName \cup ByAttrs \cup Refused) \X {Plain})
=============================================================================
