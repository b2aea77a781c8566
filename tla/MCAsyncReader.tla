--------------------------- MODULE MCAsyncReader ---------------------------
(* Instances of AsyncReader for TLC *)
EXTENDS AsyncReader, TLC

CONSTANTS r1, t1, t2

(* One reader with the shortest grace period that takes time to expire *)
OneTimeout == r1 :> 1
OneTask == t1 :> r1

(* A task that takes and one that reads, on the same reader *)
SharedReader == t1 :> r1 @@ t2 :> r1

===========================================================================
