---------------------------- MODULE MCSampleRefs ----------------------------
(* SampleRefs with every division of a few slots among the buffers *)
EXTENDS SampleRefs, Folds, Functions, TLC

CONSTANTS
  MaxSlots,      \* slots in all buffers together
  MaxReferences  \* references that are held at a time

MCLengths ==
  { l \in [SampleBuffers -> 0..Capacity] :
      MapThenFoldSet(+, 0, LAMBDA b : l[b], LAMBDA S : CHOOSE b \in S : TRUE,
                     SampleBuffers) = MaxSlots }

(* The states explored: no more than MaxReferences are counted, and memory   *)
(* is as the model has it                                                    *)
FewReferences ==
  ~torn /\ FoldFunction(+, 0, refc) <= MaxReferences

Symmetry ==
  Permutations(Serdatas) \cup Permutations(Readers) \cup Permutations(SampleBuffers)
=============================================================================
