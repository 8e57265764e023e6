---------------------------- MODULE MCTelemetry -----------------------------
(* Telemetry on small instances.                                             *)
EXTENDS Telemetry, TLC

CONSTANTS t1, t2, s1, s2

\* The second task starts inside of the blocks of the first and enters one.
MCMaxBlocks == t1 :> 2 @@ t2 :> 1

\* No definition tells one span from another.
SpanSymmetry == Permutations(Spans)
=============================================================================
