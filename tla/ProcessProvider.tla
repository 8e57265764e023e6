-------------------------- MODULE ProcessProvider ---------------------------
(***************************************************************************)
(* What install_global_provider_bundle promises (its docstring: "Install   *)
(* once, reuse an identical installation, and fail on any conflict"):      *)
(* the process-wide installation is a register that is written once.  A    *)
(* caller asks for its bundle and is answered with the owner of the        *)
(* register when that is the same bundle or an identical one, and with a   *)
(* conflict when the owner differs or somebody else holds the providers of *)
(* the process.                                                            *)
(***************************************************************************)
EXTENDS FiniteSets

CONSTANTS
  Callers,      \* the calls of install_global_provider_bundle
  Abandoning,   \* those that may be interrupted
  Candidates,   \* the bundles that may be installed
  Nobody,       \* the register is empty
  Mark          \* Mark[b]: the fingerprint of b

VARIABLES
  owner,      \* the installed bundle
  occupied,   \* somebody has set one of the providers of the process
  want,       \* want[t]: the bundle that t asks for
  got         \* got[t]: the answer of t

vars == <<owner, occupied, want, got>>

NoAnswer    == [kind |-> "none", bundle |-> Nobody]
Conflict    == [kind |-> "conflict", bundle |-> Nobody]
Interrupted == [kind |-> "interrupted", bundle |-> Nobody]
Granted(b)  == [kind |-> "bundle", bundle |-> b]

Pending(t) == want[t] # Nobody /\ got[t] = NoAnswer

Init ==
  /\ owner = Nobody
  /\ occupied \in BOOLEAN
  /\ want = [t \in Callers |-> Nobody]
  /\ got = [t \in Callers |-> NoAnswer]

Ask(t, b) ==
  /\ want[t] = Nobody
  /\ want' = [want EXCEPT ![t] = b]
  /\ UNCHANGED <<owner, occupied, got>>

Occupy ==
  /\ occupied' = TRUE
  /\ UNCHANGED <<owner, want, got>>

\* The only write of the register: it was empty.
Claim(t) ==
  /\ Pending(t) /\ owner = Nobody
  /\ owner' = want[t]
  /\ UNCHANGED <<occupied, want, got>>

Reply(t, answer) ==
  /\ got' = [got EXCEPT ![t] = answer]
  /\ UNCHANGED <<owner, occupied, want>>

Grant(t) ==
  /\ Pending(t) /\ owner # Nobody /\ Mark[owner] = Mark[want[t]]
  /\ Reply(t, Granted(owner))

Refuse(t) ==
  /\ Pending(t)
  /\ IF owner = Nobody THEN occupied ELSE Mark[owner] # Mark[want[t]]
  /\ Reply(t, Conflict)

Abandon(t) == t \in Abandoning /\ Reply(t, Interrupted)

Respond(t) == Claim(t) \/ Grant(t) \/ Refuse(t) \/ Abandon(t)

Next ==
  \/ Occupy
  \/ \E t \in Callers : Respond(t) \/ \E b \in Candidates : Ask(t, b)

Spec == Init /\ [][Next]_vars

\* Whoever asks is answered.
Answered == \A t \in Callers : Pending(t) ~> ~Pending(t)

=============================================================================
