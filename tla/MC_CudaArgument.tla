-------------------------- MODULE MC_CudaArgument --------------------------
(***************************************************************************)
(* Instances of CudaArgument: two nodes, and an argument that mirrors a    *)
(* large and a small buffer or one raw object.  Two contents of the same    *)
(* size may be exchanged.                                                  *)
(***************************************************************************)
EXTENDS CudaArgument, TLC

CONSTANTS b1, b2, r1, short, long, other, raw

SomeSizeOf == (short :> 1) @@ (long :> 2) @@ (other :> 2) @@ (raw :> 1)
SameSize == Permutations({long, other})
SomeRoom   == (b1 :> 2) @@ (b2 :> 1) @@ (r1 :> 1)
=============================================================================
