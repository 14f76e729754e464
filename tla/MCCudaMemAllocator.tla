-------------------------- MODULE MCCudaMemAllocator --------------------------
(***************************************************************************)
(* CudaMemAllocator on a buffer of a few units.                            *)
(***************************************************************************)
EXTENDS CudaMemAllocator

\* A size that is refused, sizes that are rounded up, and exact multiples.
MCRequests == {0, 1, 2, 3, 5}
=============================================================================
