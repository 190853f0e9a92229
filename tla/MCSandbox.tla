----------------------------- MODULE MCSandbox -----------------------------
\* Sandbox for TLC: the limits as functions, and the symmetries.
EXTENDS Sandbox, TLC

CONSTANTS RunningCpu, RunningGpu, TotalCpu, TotalGpu

MCMaxRunning == [k \in Kinds |-> IF k = "cpu" THEN RunningCpu ELSE RunningGpu]
MCMaxTotal == [k \in Kinds |-> IF k = "cpu" THEN TotalCpu ELSE TotalGpu]

Symmetry == Permutations(Requests) \cup Permutations(Workers) \cup Permutations(Names)
=============================================================================
