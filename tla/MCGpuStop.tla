----------------------------- MODULE MCGpuStop -----------------------------
(* Instances of GpuStop for TLC: the constants are in the .cfg file.       *)
EXTENDS GpuStop
=============================================================================
