--------------------------- MODULE MCObservability --------------------------
(* Observability on small instances.                                         *)
EXTENDS Observability

CONSTANTS t1, t2, b1, b2, m1

\* Every bundle has the same configuration and identity.
MCFingerprint == [b \in Bundles |-> "A"]
MCEnabled == [b \in Bundles |-> {"logs"}]
MCNoSignal == [b \in Bundles |-> {}]
=============================================================================
