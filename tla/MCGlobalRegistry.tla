-------------------------- MODULE MCGlobalRegistry --------------------------
(* GlobalRegistry on small instances.                                        *)
EXTENDS GlobalRegistry

CONSTANTS t1, t2, t3, b1, b2, b3

\* b1 and b2 are identical, b3 is not.
MCFingerprint == [b \in Bundles |-> IF b = b3 THEN "B" ELSE "A"]
\* No signal is enabled: the outcomes of the SDK calls are ProviderBundle's.
MCEnabled == [b \in Bundles |-> {}]
=============================================================================
