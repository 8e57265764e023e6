-------------------------- MODULE MCProviderBundle --------------------------
(* ProviderBundle on small instances.                                        *)
EXTENDS ProviderBundle

CONSTANTS t1, t2, b1

MCThreads == {t1, t2}
MCBundles == {b1}
MCInterruptible == {t1}
\* The metrics signal is disabled: its provider has no reader.
MCEnabled == [b \in MCBundles |-> {"traces", "logs"}]
=============================================================================
