---------------------------- MODULE MCIdlModules ----------------------------
(* Three structs of one or two packages: all primitives, then a field of    *)
(* the first struct, then fields of both, plain, in a Vec and in an array   *)
EXTENDS IdlModules

StructField(t, shape) ==
  [struct |-> t, prim |-> "bool", shape |-> shape, length |-> IF shape = "array" THEN 4 ELSE 0]

PrimitiveFields ==
  FoldSet(LAMBDA p, fields : Append(fields, [StructField(0, "plain") EXCEPT !.prim = p[1]]),
          << >>, Primitives)

OneStruct == << [package |-> "p", name |-> "A", fields |-> PrimitiveFields] >>

SmallDefinitions ==
  {OneStruct} \cup
  { OneStruct \o
    << [package |-> p, name |-> "B", fields |-> << StructField(1, s) >>],
       [package |-> "q", name |-> "C", fields |-> << StructField(2, r), StructField(1, s) >>] >> :
    p \in {"p", "q"}, r, s \in {"plain", "vec", "array"} }

(* Both modes of ROS 2, a mode of its own, and middles with empty segments  *)
SmallModes ==
  {Raw, ros2idl, ros2dds, WithMiddle(<< Empty >>), WithMiddle(<< "a", Empty, "b" >>)}
=============================================================================
