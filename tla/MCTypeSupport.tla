--------------------------- MODULE MCTypeSupport ---------------------------
(* Hashes of three keys for TypeSupport, two of them the same               *)
EXTENDS TypeSupport

SmallMurmur == << 1, 2, 2 >>
=============================================================================
