-------------------------- MODULE MCGpuSqlDispatcher --------------------------
(***************************************************************************)
(* Bounds for GpuSqlDispatcher: three devices, so that two threads signal  *)
(* and one may have no block, and up to four blocks, so that one device    *)
(* has two.                                                                *)
(***************************************************************************)
EXTENDS GpuSqlDispatcher
=============================================================================
