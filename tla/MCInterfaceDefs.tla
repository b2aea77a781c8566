-------------------------- MODULE MCInterfaceDefs --------------------------
(* Small programs for InterfaceDefs.                                        *)
EXTENDS InterfaceDefs

FieldsOf(S) == UNION { [1..k -> S] : k \in 0..2 }

(* Three types with up to two fields, in every graph; the third may share   *)
(* the name of another one, with the same or another text                   *)
ThreeTypes ==
  [ fields : [{1, 2, 3} -> FieldsOf({1, 2, 3})],
    name   : { [t \in {1, 2, 3} |-> IF t = 3 THEN n ELSE t] : n \in {1, 2, 3} },
    own    : { [t \in {1, 2, 3} |-> IF t = 3 THEN x ELSE 0] : x \in {0, 1} } ]

AProgram ==
  [ fields |-> << << >>, << >>, << >> >>, name |-> << 1, 2, 3 >>,
    own |-> << 0, 0, 0 >> ]
=============================================================================
