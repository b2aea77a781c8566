------------------------------- MODULE Lists --------------------------------
(***************************************************************************)
(* Iterator::filter and Array.filter, sorted and Array.sort: what is       *)
(* tested and compared are sets, which can be reasoned about.  TLAPS sees  *)
(* nothing of SelectSeq and SortSeq.                                       *)
(***************************************************************************)
EXTENDS SequencesExt

Kept(values, passing) ==
  FoldLeft(LAMBDA kept, value : IF value \in passing THEN Append(kept, value) ELSE kept,
           << >>, values)

Arranged(S, before) ==
  CHOOSE list \in [1..Cardinality(S) -> S] :
    /\ \A x \in S : \E i \in DOMAIN list : list[i] = x
    /\ \A i, j \in DOMAIN list : i < j => << list[i], list[j] >> \in before
=============================================================================
