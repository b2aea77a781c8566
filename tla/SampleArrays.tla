---------------------------- MODULE SampleArrays ----------------------------
(***************************************************************************)
(* The operations of a sertype that the C library calls with samples       *)
(* (sertype.rs): the arrays of sample pointers it lends, which Rust        *)
(* allocates, resizes and frees, and the two steps that put a sample into  *)
(* a buffer of shared memory.  The references of the samples of a          *)
(* SampleBuffer are SampleRefs' matter.                                    *)
(***************************************************************************)
EXTENDS Naturals, Sequences, FiniteSets, SequencesExt

CONSTANTS MaxCount,  \* bound: samples of an array
          MaxBoxes,  \* bound: boxes made
          Sizes      \* sizes of serialized samples and of the buffers for them

ASSUME SampleArraysAssumption ==
  MaxCount \in Nat /\ MaxBoxes \in Nat /\ Sizes \subseteq Nat

VARIABLES
  array,     \* the array C holds: << boxes >>, or << >> for a null pointer
  heap,      \* heap[x]: "none", "live" or "freed", the x-th Box<Sample<T>>
  bound,     \* boxes whose sample holds a serdata
  arrayrefs, \* references the samples of the array hold by ddsi_serdata.refc
  aborted,   \* an assertion failed in a function called from C
  put        \* what serialize_into was last called with, and its outcome

arrayVars == << array, heap, bound, arrayrefs, aborted, put >>

Boxes == 1..MaxBoxes
NullArray == << >>
Samples == IF array = NullArray THEN << >> ELSE array[1]
NoPut == [size |-> 0, dst |-> 0, written |-> 0, ok |-> FALSE]

ArraysInit ==
  /\ array = NullArray /\ heap = [x \in Boxes |-> "none"]
  /\ bound = {} /\ arrayrefs = 0 /\ aborted = FALSE /\ put = NoPut

---------------------------------------------------------------------------
(* Box::default() n times *)
NewBoxes(n) ==
  LET unused == { x \in Boxes : heap[x] = "none" }
      first == IF unused = {} THEN 0 ELSE CHOOSE x \in unused : \A y \in unused : x <= y
  IN [i \in 1..n |-> first + i - 1]

Available(n) == Cardinality({ x \in Boxes : heap[x] = "none" }) >= n

(* Dropping boxes releases what their samples hold *)
HeapWithout(xs) == [x \in Boxes |-> IF x \in xs THEN "freed" ELSE heap[x]]
HeapWith(xs) == [x \in Boxes |-> IF x \in xs THEN "live" ELSE heap[x]]

DropBoxes(xs) ==
  /\ heap' = HeapWithout(xs)
  /\ bound' = bound \ xs
  /\ arrayrefs' = arrayrefs - Cardinality(bound \cap xs)

(* Mutant of Shrunk: truncate, which does not know that pointers own boxes *)
ShrunkByTruncate(n) ==
  /\ array' = << SubSeq(Samples, 1, n) >>
  /\ UNCHANGED << heap, bound, arrayrefs >>

(* The surplus is drained and freed *)
Shrunk(n) ==
  /\ array' = << SubSeq(Samples, 1, n) >>
  /\ DropBoxes({ Samples[i] : i \in (n + 1)..Len(Samples) })

Extended(n) ==
  LET new == NewBoxes(n - Len(Samples)) IN
  /\ Available(n - Len(Samples))
  /\ array' = << Samples \o new >>
  /\ heap' = HeapWith(ToSet(new))
  /\ UNCHANGED << bound, arrayrefs >>

(* sertype_realloc_samples: an old array of no samples has an address, too, *)
(* and fails its assertion                                                  *)
sertype_realloc_samples(n) ==
  /\ ~aborted
  /\ \/ /\ array # NullArray /\ Samples = << >>
        /\ aborted' = TRUE
        /\ UNCHANGED << array, heap, bound, arrayrefs >>
     \/ /\ array = NullArray \/ Samples # << >>
        /\ IF n < Len(Samples) THEN Shrunk(n) ELSE Extended(n)
        /\ UNCHANGED aborted
  /\ UNCHANGED put

(* DDS_FREE_ALL: the array goes with its boxes.  For an array of none the   *)
(* function returns early; no memory is behind it.                          *)
FreeAll ==
  /\ ~aborted /\ array # NullArray
  /\ array' = NullArray
  /\ DropBoxes(ToSet(Samples))
  /\ UNCHANGED << aborted, put >>

(* DDS_FREE_CONTENTS: Sample::free_contents of each *)
FreeContentsOnly ==
  /\ ~aborted /\ Samples # << >>
  /\ bound' = bound \ ToSet(Samples)
  /\ arrayrefs' = arrayrefs - Cardinality(bound \cap ToSet(Samples))
  /\ UNCHANGED << array, heap, aborted, put >>

(* sertype_zero_samples leaves the samples as they are *)
sertype_zero_samples ==
  /\ ~aborted /\ Samples # << >>
  /\ UNCHANGED arrayVars

(* C converts a serdata into a sample it has freed or not used yet *)
ConvertInto(i) ==
  /\ ~aborted /\ i \in DOMAIN Samples /\ Samples[i] \notin bound
  /\ bound' = bound \cup {Samples[i]}
  /\ arrayrefs' = arrayrefs + 1
  /\ UNCHANGED << array, heap, aborted, put >>

---------------------------------------------------------------------------
(* sertype_get_serialized_size: of the whole CDR, its header included *)
sertype_get_serialized_size(cdr) == cdr

(* sertype_serialize_into: the CDR, or nothing and an error if it does not  *)
(* fit.  C may lend a buffer that is larger, or one for another sample.     *)
sertype_serialize_into(cdr, dst) ==
  /\ ~aborted
  /\ LET fits == sertype_get_serialized_size(cdr) <= dst IN
     put' = [ size |-> cdr, dst |-> dst, ok |-> fits,
              written |-> IF fits THEN cdr ELSE 0 ]
  /\ UNCHANGED << array, heap, bound, arrayrefs, aborted >>

ArraysNext ==
  \/ \E n \in 0..MaxCount : sertype_realloc_samples(n)
  \/ FreeAll \/ FreeContentsOnly \/ sertype_zero_samples
  \/ \E i \in 1..MaxCount : ConvertInto(i)
  \/ \E cdr, dst \in Sizes : sertype_serialize_into(cdr, dst)

ArraysSpec == ArraysInit /\ [][ArraysNext]_arrayVars

---------------------------------------------------------------------------
(* The boxes that live are those of the array, each once: none leaks when   *)
(* the array shrinks or goes, none is freed twice or still used.  Each      *)
(* reference of theirs is held by a sample that can give it back.  And only *)
(* a whole CDR is reported as written (sertype.rs:239, 288, 407).           *)
ArraysSound ==
  /\ { x \in Boxes : heap[x] = "live" } = ToSet(Samples)
  /\ Cardinality(ToSet(Samples)) = Len(Samples)
  /\ bound \subseteq ToSet(Samples) /\ arrayrefs = Cardinality(bound)
  /\ put.written <= put.dst /\ (put.ok => put.written = put.size)
=============================================================================
