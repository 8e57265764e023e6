---------------------------- MODULE Observability ---------------------------
(***************************************************************************)
(* plugin.py: the Observability facades of a process, over the registry    *)
(* (GlobalRegistry) and the bundles (ProviderBundle) that they share.      *)
(*                                                                         *)
(* A facade builds one bundle and is named by it, so facade f starts with  *)
(* bundle f.  Installing a facade may replace its bundle by the one that   *)
(* is installed.  Facades take a lock only around the cache of meters.     *)
(***************************************************************************)
EXTENDS GlobalRegistry

CONSTANT Meters  \* the (name, version) pairs that meters are asked for with

ASSUME MetersAssumption == Meters # {}

Facades == Bundles

VARIABLES
  bundle,    \* bundle[f]: _bundle of facade f
  isGlobal,  \* isGlobal[f]: _global
  meters,    \* meters[f][n]: the bundle that the cached meter n is bound to
  fac,       \* fac[t]: the facade method that thread t is inside of
  closed,    \* closed[t]: what the last close of t returned or raised
  ended      \* the bundles that close was ever called of (a history)

facadeVars == <<bundle, isGlobal, meters, fac, closed, ended>>
allVars == <<processVars, facadeVars>>

-----------------------------------------------------------------------------
Outside == [op |-> "idle", facade |-> NoBundle, strict |-> FALSE]

FacFrame == [op : {"idle", "install", "mark", "close"},
             facade : Facades \cup {NoBundle}, strict : BOOLEAN]

Closing(kind, b, strict) == [kind |-> kind, bundle |-> b, strict |-> strict]

Closings == [kind : {"none", "report", "failed", "interrupted"},
             bundle : Bundles \cup {NoBundle}, strict : BOOLEAN]

\* The thread may call a method of a facade.
Ready(t) == fac[t] = Outside /\ Free(t)

\* __init__ of every facade.  A facade whose constructor raised, because the
\* runtime is not ready or the configuration is invalid, is not in Facades.
ObservabilityInit ==
  /\ RegistryInit
  /\ bundle = [f \in Facades |-> f]
  /\ isGlobal = [f \in Facades |-> FALSE]
  /\ meters = [f \in Facades |-> [n \in Meters |-> NoBundle]]
  /\ fac = [t \in Threads |-> Outside]
  /\ closed = [t \in Threads |-> Closing("none", NoBundle, FALSE)]
  /\ ended = {}

\* install_global_otel_provider, as called by the application or as the last
\* step of ObservabilityPluginFactory.create: _bundle is read and installed.
InstallGlobal(t, f) ==
  /\ Ready(t)
  /\ Install(t, bundle[f])
  /\ fac' = [fac EXCEPT ![t] = [Outside EXCEPT !.op = "install", !.facade = f]]
  /\ UNCHANGED <<bundle, isGlobal, meters, closed, ended>>

\* Mutant: the answer of the registry is ignored.
AssignNothing(t) ==
  /\ fac[t].op = "install" /\ reg[t].pc = "done" /\ answer[t].kind = "bundle"
  /\ fac' = [fac EXCEPT ![t].op = "mark"]
  /\ UNCHANGED <<processVars, bundle, isGlobal, meters, closed, ended>>

\* The registry has answered with a bundle: _bundle is assigned.
AssignBundle(t) ==
  /\ fac[t].op = "install" /\ reg[t].pc = "done" /\ answer[t].kind = "bundle"
  /\ bundle' = [bundle EXCEPT ![fac[t].facade] = answer[t].bundle]
  /\ fac' = [fac EXCEPT ![t].op = "mark"]
  /\ UNCHANGED <<processVars, isGlobal, meters, closed, ended>>

\* The registry has raised: the facade keeps its bundle, which is shut down.
InstallRaised(t) ==
  /\ fac[t].op = "install" /\ reg[t].pc = "done" /\ answer[t].kind # "bundle"
  /\ fac' = [fac EXCEPT ![t] = Outside]
  /\ UNCHANGED <<processVars, bundle, isGlobal, meters, closed, ended>>

MarkGlobal(t) ==
  /\ fac[t].op = "mark"
  /\ isGlobal' = [isGlobal EXCEPT ![fac[t].facade] = TRUE]
  /\ fac' = [fac EXCEPT ![t] = Outside]
  /\ UNCHANGED <<processVars, bundle, meters, closed, ended>>

\* meter: the first call makes a meter of the facade's present bundle, later
\* ones return that meter, whatever the bundle has become.
Meter(t, f, n) ==
  /\ Ready(t)
  /\ meters[f][n] = NoBundle
  /\ meters' = [meters EXCEPT ![f][n] = bundle[f]]
  /\ UNCHANGED <<processVars, bundle, isGlobal, fac, closed, ended>>

ForceFlush(t, f) ==
  /\ t \in Users /\ Ready(t)
  /\ StartFlush(t, bundle[f])
  /\ UNCHANGED <<registryVars, facadeVars>>

\* close: _bundle is read once and shut down.
Close(t, f, strict) ==
  /\ t \in Users /\ Ready(t)
  /\ Shutdown(t, bundle[f])
  /\ fac' = [fac EXCEPT ![t] = [op |-> "close", facade |-> bundle[f], strict |-> strict]]
  /\ closed' = [closed EXCEPT ![t] = Closing("none", NoBundle, FALSE)]
  /\ ended' = ended \cup {bundle[f]}
  /\ UNCHANGED <<registryVars, bundle, isGlobal, meters>>

\* Mutant: require_clean is forgotten.
ClosedAnyhow(t) ==
  /\ fac[t].op = "close" /\ call[t] = Idle
  /\ LET kind == IF outcome[t].kind = "interrupted" THEN "interrupted" ELSE "report"
     IN closed' = [closed EXCEPT ![t] = Closing(kind, fac[t].facade, fac[t].strict)]
  /\ fac' = [fac EXCEPT ![t] = Outside]
  /\ UNCHANGED <<processVars, bundle, isGlobal, meters, ended>>

\* The report is judged when a clean one is required.
Closed(t) ==
  /\ fac[t].op = "close" /\ call[t] = Idle
  /\ LET o == outcome[t]
         kind == IF o.kind = "interrupted" THEN "interrupted"
                 ELSE IF fac[t].strict /\ ~Clean(o.report) THEN "failed" ELSE "report"
     IN closed' = [closed EXCEPT ![t] = Closing(kind, fac[t].facade, fac[t].strict)]
  /\ fac' = [fac EXCEPT ![t] = Outside]
  /\ UNCHANGED <<processVars, bundle, isGlobal, meters, ended>>

\* KeyboardInterrupt between the registry's answer and the two assignments.
InterruptFacade(t) ==
  /\ t \in Interruptible
  /\ fac[t].op \in {"install", "mark"} /\ reg[t].pc = "done"
  /\ fac' = [fac EXCEPT ![t] = Outside]
  /\ UNCHANGED <<processVars, bundle, isGlobal, meters, closed, ended>>

FacadeStep(t) == AssignBundle(t) \/ InstallRaised(t) \/ MarkGlobal(t) \/ Closed(t)

\* A step of the registry or of a bundle inside the method of a facade.
InnerStep(t) ==
  /\ InstallStep(t) \/ (CallStep(t) /\ UNCHANGED registryVars)
  /\ UNCHANGED facadeVars

ObservabilityNext ==
  \/ \E t \in Threads :
       \/ \E f \in Facades :
            \/ InstallGlobal(t, f)
            \/ ForceFlush(t, f)
            \/ \E strict \in BOOLEAN : Close(t, f, strict)
            \/ \E n \in Meters : Meter(t, f, n)
       \/ FacadeStep(t)
       \/ InnerStep(t)
       \/ InterruptFacade(t)
       \/ /\ InterruptInstall(t) \/ (Interrupt(t) /\ UNCHANGED registryVars)
          /\ UNCHANGED facadeVars
  \/ \E s \in Signals : SetForeign(s) /\ UNCHANGED facadeVars

ObservabilitySpec == ObservabilityInit /\ [][ObservabilityNext]_allVars

-----------------------------------------------------------------------------
ObservabilityTypeOK ==
  /\ bundle \in [Facades -> Bundles]
  /\ isGlobal \in [Facades -> BOOLEAN]
  /\ meters \in [Facades -> [Meters -> Bundles \cup {NoBundle}]]
  /\ fac \in [Threads -> FacFrame]
  /\ closed \in [Threads -> Closings]
  /\ ended \in SUBSET Bundles

\* is_global is never claimed by a facade that works on anything but the one
\* installed bundle, which nobody but a foreign library has displaced: however
\* installs of one or several facades interleave, fail or are interrupted.
GlobalFlagHonest ==
  \A f \in Facades : isGlobal[f] =>
    /\ bundle[f] = installation
    /\ \A s \in Signals : global[s] \in {bundle[f], Foreign}

\* b has a provider that was shut down though nobody has closed b.
Dead(b) == b \notin ended /\ \E s \in Signals : Touched(b, s)

\* The caller of t knows that the bundle it has installed may be gone, or is
\* not back yet.
Heard(t) ==
  \/ fac[t].op = "install"
  \/ answer[t].kind \in {"conflict", "interrupted"}
  \/ t \in Interruptible

\* No facade is left, unheard, with a bundle that was shut down.  The registry
\* shuts bundles down that others still hold; the facade of such a bundle gets
\* the installed one, which only a close can end, or its caller is told.
DeathsAreHeard ==
  \A f \in Facades : Dead(bundle[f]) =>
    /\ ~isGlobal[f]
    /\ \E t \in Threads : reg[t].bundle = bundle[f] /\ Heard(t)

\* A close that requires a clean report and returns one has behind it, for
\* every provider of the bundle, a flush and a shutdown that succeeded.
StrictCloseHonest ==
  \A t \in Threads : closed[t].kind = "report" /\ closed[t].strict =>
    \A s \in Signals :
      /\ "ok" \in flushes[closed[t].bundle][s]
      /\ "ok" \in shutdowns[closed[t].bundle][s]

\* After an installation every cached meter records into the installed bundle
\* (docs/architecture.md: an identical fingerprint "reuses the installed
\* bundle").
MetersFollow ==
  \A f \in Facades, n \in Meters :
    isGlobal[f] /\ meters[f][n] # NoBundle => meters[f][n] = installation

-----------------------------------------------------------------------------
(* The inductive invariant.                                                 *)

\* Whoever is answered with a bundle is answered with the installed one.
AnswersInstalled ==
  \A t \in Threads : answer[t].kind = "bundle" =>
    answer[t].bundle = installation /\ installation # NoBundle

\* A facade that is about to be marked works on the installed bundle.
KnowsInstalled(t) ==
  /\ fac[t].op # "idle" => fac[t].facade \in Facades
  /\ fac[t].op = "mark" => bundle[fac[t].facade] = installation /\ installation # NoBundle

\* Each flag of r is the outcome of an SDK call on a provider of b.
Backed(r, b) ==
  \A s \in Signals :
    Verdict(r.flushed[s]) \in flushes[b][s] /\ Verdict(r.down[s]) \in shutdowns[b][s]

\* The shutdown that a close has called goes on, was interrupted or has
\* returned a report of that bundle.
KnowsClose(t) ==
  fac[t].op = "close" =>
    /\ reg[t].pc \in {"idle", "done"}
    /\ \/ call[t].op = "shutdown" /\ call[t].bundle = fac[t].facade
       \/ call[t] = Idle /\ outcome[t].kind = "interrupted"
       \/ /\ call[t] = Idle /\ outcome[t].kind = "report"
          /\ Backed(outcome[t].report, fac[t].facade)

FlagKept(f) == isGlobal[f] => bundle[f] = installation /\ installation # NoBundle

\* A shutdown that no close has asked for is that of an installation.
KnowsWhy(t) ==
  call[t].op = "shutdown" =>
    \/ call[t].bundle \in ended
    \/ reg[t].pc = "discarding" /\ call[t].bundle = reg[t].bundle

\* A thread installs the bundle that the facade was made with, or the installed
\* one; a facade whose own bundle lost has the installed one, or t has heard.
KnowsLoss(t) ==
  /\ reg[t].pc \notin {"idle", "done"} => fac[t].op = "install"
  /\ fac[t].op = "install" => reg[t].pc # "idle"
  /\ reg[t].pc = "done" => answer[t].kind # "none"
  /\ fac[t].op = "install" => reg[t].bundle \in {fac[t].facade, installation}
  /\ reg[t].pc # "idle" /\ reg[t].bundle # installation =>
       Heard(t) \/ bundle[reg[t].bundle] = installation

\* A dead bundle is never on its way to be installed: what it has lost to is
\* still in the process.
Barred(t) ==
  reg[t].pc \in {"look", "set", "record"} /\ Dead(reg[t].bundle) =>
    /\ reg[t].pc = "look"
    /\ \/ reg[t].foreign
       \/ \E i \in 1..3 : i >= reg[t].at /\ global[FlushOrder[i]] # Proxy

\* A dead bundle has lost an installation.
Lost(b) ==
  Dead(b) =>
    /\ b # installation
    /\ installation # NoBundle \/ Occupied
    /\ \E t \in Threads : reg[t].bundle = b

DeathInv ==
  /\ \A t \in Threads : KnowsWhy(t) /\ KnowsLoss(t) /\ Barred(t)
  /\ \A f \in Facades : bundle[f] \in {f, installation}
  /\ \A b \in Bundles : Lost(b)

ObservabilityInv ==
  /\ ObservabilityTypeOK /\ AnswersInstalled /\ StrictCloseHonest
  /\ \A t \in Threads : KnowsInstalled(t) /\ KnowsClose(t)
  /\ \A t \in Threads : closed[t].kind = "report" => closed[t].bundle \in Bundles
  /\ \A f \in Facades : FlagKept(f)

=============================================================================
