--------------------------- MODULE MCGPUMemoryCache ---------------------------
(***************************************************************************)
(* Bounds for GPUMemoryCache: two columns and a pool that holds the        *)
(* smaller copies of three blocks, so that a third load has to evict.      *)
(***************************************************************************)
EXTENDS GPUMemoryCache

CONSTANTS a, b

MCSpans == {<<1, 0>>, <<2, 0>>}
=============================================================================
