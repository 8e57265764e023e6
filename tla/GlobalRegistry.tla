--------------------------- MODULE GlobalRegistry ---------------------------
(***************************************************************************)
(* providers/global_registry.py: the process-wide installation of one      *)
(* ProviderBundle, under a module lock, over the set-once globals of the   *)
(* OpenTelemetry API that other libraries of the process may write too.    *)
(*                                                                         *)
(* A thread stands for one call of install_global_provider_bundle; a       *)
(* thread that installs twice is two of them.  Before and after it, a      *)
(* thread may flush and shut down any bundle (ProviderBundle).             *)
(***************************************************************************)
EXTENDS ProviderBundle

CONSTANTS
  NoThread,     \* the lock is free
  Fingerprint,  \* Fingerprint[b]: equal iff configuration and identity are
  Proxy,        \* the API's placeholder provider of a signal
  Users,        \* threads that flush and shut down bundles directly
  Foreign,      \* a provider somebody else has set
  EarlyForeign, \* signals for which that may have happened before
  LateForeign   \* signals for which it may happen while the plugin runs

ASSUME RegistryAssumption ==
  /\ NoThread \notin Threads
  /\ DOMAIN Fingerprint = Bundles
  /\ Proxy # Foreign /\ {Proxy, Foreign} \cap (Bundles \cup {NoBundle}) = {}
  /\ Users \subseteq Threads
  /\ EarlyForeign \subseteq Signals /\ LateForeign \subseteq Signals

VARIABLES
  lock,          \* _lock: the thread that holds it
  installation,  \* _installation: its bundle
  global,        \* global[s]: the provider the API holds for signal s
  reg,           \* reg[t]: the frame of install_global_provider_bundle
  answer         \* answer[t]: what that call returned or raised, once it has

registryVars == <<lock, installation, global, reg, answer>>
processVars == <<bundleVars, registryVars>>

-----------------------------------------------------------------------------
(* Frames.  "verdict" is the answer the thread has settled on, "at" counts  *)
(* the signals looked at or set, in the order of FlushOrder.                *)

Answer(kind, b) == [kind |-> kind, bundle |-> b]
NoAnswer == Answer("none", NoBundle)
Conflict == Answer("conflict", NoBundle)
Interrupted == Answer("interrupted", NoBundle)
Answers == [kind : {"none", "bundle", "conflict", "interrupted"},
            bundle : Bundles \cup {NoBundle}]

Steps == {"idle", "wait", "check", "look", "set", "record", "discard",
          "discarding", "release", "done"}

RegFrame == [pc : Steps, bundle : Bundles \cup {NoBundle}, at : 1..4,
             foreign : BOOLEAN, verdict : Answers]

Asking(pc, b) == [pc |-> pc, bundle |-> b, at |-> 1, foreign |-> FALSE,
                  verdict |-> NoAnswer]

NotStarted == Asking("idle", NoBundle)

\* The thread is outside install_global_provider_bundle and outside any call
\* on a bundle.
Free(t) == reg[t].pc \in {"idle", "done"} /\ call[t] = Idle

GoTo(t, pc) == reg' = [reg EXCEPT ![t] = [reg[t] EXCEPT !.pc = pc]]

Settle(t, pc, verdict) ==
  reg' = [reg EXCEPT ![t] = [reg[t] EXCEPT !.pc = pc, !.verdict = verdict]]

-----------------------------------------------------------------------------
RegistryInit ==
  /\ BundleInit
  /\ lock = NoThread
  /\ installation = NoBundle
  /\ \E S \in SUBSET EarlyForeign :
       global = [s \in Signals |-> IF s \in S THEN Foreign ELSE Proxy]
  /\ reg = [t \in Threads |-> NotStarted]
  /\ answer = [t \in Threads |-> NoAnswer]

\* The fingerprint is computed and the thread waits for the lock.
Install(t, b) ==
  /\ reg[t].pc = "idle" /\ call[t] = Idle
  /\ reg' = [reg EXCEPT ![t] = Asking("wait", b)]
  /\ UNCHANGED <<bundleVars, lock, installation, global, answer>>

\* Mutant: the lock is not waited for.
AcquireUnlocked(t) ==
  /\ reg[t].pc = "wait"
  /\ lock' = t
  /\ GoTo(t, "check")
  /\ UNCHANGED <<bundleVars, installation, global, answer>>

Acquire(t) ==
  /\ reg[t].pc = "wait" /\ lock = NoThread
  /\ lock' = t
  /\ GoTo(t, "check")
  /\ UNCHANGED <<bundleVars, installation, global, answer>>

Twin(b) == Fingerprint[b] = Fingerprint[installation]

\* Another configuration is installed.
FoundOther(t) ==
  /\ reg[t].pc = "check" /\ installation # NoBundle /\ ~Twin(reg[t].bundle)
  /\ Settle(t, "discard", Conflict)
  /\ UNCHANGED <<bundleVars, lock, installation, global, answer>>

\* Mutant: the bundle that is not needed is left running.
FoundTwinLeaks(t) ==
  /\ reg[t].pc = "check" /\ installation # NoBundle /\ Twin(reg[t].bundle)
  /\ installation # reg[t].bundle
  /\ Settle(t, "release", Answer("bundle", installation))
  /\ UNCHANGED <<bundleVars, lock, installation, global, answer>>

\* Mutant: the bundle is not compared with the installed one.
FoundTwinOrSelf(t) ==
  /\ reg[t].pc = "check" /\ installation # NoBundle /\ Twin(reg[t].bundle)
  /\ Settle(t, "discard", Answer("bundle", installation))
  /\ UNCHANGED <<bundleVars, lock, installation, global, answer>>

\* An identical bundle is installed: this one is not needed.
FoundTwin(t) ==
  /\ reg[t].pc = "check" /\ installation # NoBundle /\ Twin(reg[t].bundle)
  /\ installation # reg[t].bundle
  /\ Settle(t, "discard", Answer("bundle", installation))
  /\ UNCHANGED <<bundleVars, lock, installation, global, answer>>

\* This very bundle is installed: it is left alone.
FoundSelf(t) ==
  /\ reg[t].pc = "check" /\ installation = reg[t].bundle
  /\ Settle(t, "release", Answer("bundle", installation))
  /\ UNCHANGED <<bundleVars, lock, installation, global, answer>>

FoundNone(t) ==
  /\ reg[t].pc = "check" /\ installation = NoBundle
  /\ GoTo(t, "look")
  /\ UNCHANGED <<bundleVars, lock, installation, global, answer>>

\* Mutant: the last provider decides, instead of any.
LookLast(t) ==
  LET r == reg[t] IN
  /\ r.pc = "look" /\ r.at \in 1..3
  /\ reg' = [reg EXCEPT ![t] = [r EXCEPT !.at = @ + 1,
               !.foreign = global[FlushOrder[r.at]] # Proxy]]
  /\ UNCHANGED <<bundleVars, lock, installation, global, answer>>

\* One provider of the process is read.
Look(t) ==
  LET r == reg[t] IN
  /\ r.pc = "look" /\ r.at \in 1..3
  /\ reg' = [reg EXCEPT ![t] = [r EXCEPT !.at = @ + 1,
               !.foreign = @ \/ global[FlushOrder[r.at]] # Proxy]]
  /\ UNCHANGED <<bundleVars, lock, installation, global, answer>>

\* Mutant: a provider that is not a proxy is waited for to go away.
DecideRetries(t) ==
  /\ reg[t].pc = "look" /\ reg[t].at = 4
  /\ IF reg[t].foreign
     THEN reg' = [reg EXCEPT ![t] = [reg[t] EXCEPT !.foreign = FALSE, !.at = 1]]
     ELSE reg' = [reg EXCEPT ![t] = [reg[t] EXCEPT !.pc = "set", !.at = 1]]
  /\ UNCHANGED <<bundleVars, lock, installation, global, answer>>

\* Mutant: the conflict is not raised.
DecideSilently(t) ==
  /\ reg[t].pc = "look" /\ reg[t].at = 4
  /\ IF reg[t].foreign
     THEN Settle(t, "discard", Answer("bundle", reg[t].bundle))
     ELSE reg' = [reg EXCEPT ![t] = [reg[t] EXCEPT !.pc = "set", !.at = 1]]
  /\ UNCHANGED <<bundleVars, lock, installation, global, answer>>

\* Any provider that is not a proxy is a conflict.
Decide(t) ==
  /\ reg[t].pc = "look" /\ reg[t].at = 4
  /\ IF reg[t].foreign
     THEN Settle(t, "discard", Conflict)
     ELSE reg' = [reg EXCEPT ![t] = [reg[t] EXCEPT !.pc = "set", !.at = 1]]
  /\ UNCHANGED <<bundleVars, lock, installation, global, answer>>

\* The API keeps the first provider that it is given; a later one is dropped
\* with a log line and no error.
SetOnce(s, p) ==
  global' = IF global[s] = Proxy THEN [global EXCEPT ![s] = p] ELSE global

Set(t) ==
  LET r == reg[t] IN
  /\ r.pc = "set" /\ r.at \in 1..3
  /\ SetOnce(FlushOrder[r.at], r.bundle)
  /\ reg' = [reg EXCEPT ![t] = [r EXCEPT !.at = @ + 1,
               !.pc = IF r.at = 3 THEN "record" ELSE "set"]]
  /\ UNCHANGED <<bundleVars, lock, installation, answer>>

Record(t) ==
  /\ reg[t].pc = "record"
  /\ installation' = reg[t].bundle
  /\ Settle(t, "release", Answer("bundle", reg[t].bundle))
  /\ UNCHANGED <<bundleVars, lock, global, answer>>

\* bundle.shutdown(), with the lock held.
Discard(t) ==
  /\ reg[t].pc = "discard"
  /\ Shutdown(t, reg[t].bundle)
  /\ GoTo(t, "discarding")
  /\ UNCHANGED <<lock, installation, global, answer>>

\* The shutdown has returned, or an interrupt has left it.
Discarded(t) ==
  /\ reg[t].pc = "discarding" /\ call[t] = Idle
  /\ Settle(t, "release", IF outcome[t].kind = "interrupted"
                          THEN Interrupted ELSE reg[t].verdict)
  /\ UNCHANGED <<bundleVars, lock, installation, global, answer>>

\* The lock is left by the return, the conflict or the interrupt alike.
Release(t) ==
  /\ reg[t].pc = "release"
  /\ lock' = NoThread
  /\ answer' = [answer EXCEPT ![t] = reg[t].verdict]
  /\ GoTo(t, "done")
  /\ UNCHANGED <<bundleVars, installation, global>>

\* KeyboardInterrupt between two steps.  Nothing is rolled back: providers
\* already set stay set, and a bundle not yet shut down keeps running.
InterruptInstall(t) ==
  /\ t \in Interruptible /\ call[t] = Idle
  /\ \/ /\ reg[t].pc \in {"check", "look", "set", "record", "discard"}
        /\ Settle(t, "release", Interrupted)
        /\ UNCHANGED answer
     \/ /\ reg[t].pc = "wait"
        /\ Settle(t, "done", Interrupted)
        /\ answer' = [answer EXCEPT ![t] = Interrupted]
  /\ UNCHANGED <<bundleVars, lock, installation, global>>

\* Another library sets a provider of the process.
SetForeign(s) ==
  /\ s \in LateForeign
  /\ SetOnce(s, Foreign)
  /\ UNCHANGED <<bundleVars, lock, installation, reg, answer>>

InstallStep(t) ==
  \/ Acquire(t)
  \/ FoundOther(t) \/ FoundTwin(t) \/ FoundSelf(t) \/ FoundNone(t)
  \/ Look(t) \/ Decide(t)
  \/ Set(t) \/ Record(t)
  \/ Discard(t) \/ Discarded(t)
  \/ Release(t)

\* A flush or a close of a bundle, and the steps of any call on a bundle.
Use(t, b) == t \in Users /\ Free(t) /\ (StartFlush(t, b) \/ Shutdown(t, b))

RegistryNext ==
  \/ \E t \in Threads :
       \/ \E b \in Bundles : Install(t, b)
       \/ InstallStep(t)
       \/ InterruptInstall(t)
       \/ (CallStep(t) \/ Interrupt(t)) /\ UNCHANGED registryVars
       \/ \E b \in Bundles : Use(t, b) /\ UNCHANGED registryVars
  \/ \E s \in Signals : SetForeign(s)

\* A thread inside a call keeps running, and gets the lock at last: there are
\* finitely many installations, and each gives the lock back.
RegistryFairness ==
  \A t \in Threads :
    /\ WF_processVars(InstallStep(t))
    /\ WF_processVars(CallStep(t) /\ UNCHANGED registryVars)

RegistrySpec == RegistryInit /\ [][RegistryNext]_processVars /\ RegistryFairness

-----------------------------------------------------------------------------
\* What may be found in the place of a provider that was seen or set.
Displaced(s) == IF s \in LateForeign THEN {Foreign} ELSE {}

RegistryTypeOK ==
  /\ lock \in Threads \cup {NoThread}
  /\ installation \in Bundles \cup {NoBundle}
  /\ global \in [Signals -> {Proxy, Foreign} \cup Bundles]
  /\ reg \in [Threads -> RegFrame]
  /\ answer \in [Threads -> Answers]

\* The three providers of the process never come from two bundles of this
\* plugin, and once an installation is recorded each of them is its, unless
\* somebody else may set that one at any time: competing and interrupted
\* installations do not mix.
GlobalsNeverMixed ==
  /\ \A s1, s2 \in Signals :
       global[s1] \in Bundles /\ global[s2] \in Bundles => global[s1] = global[s2]
  /\ installation # NoBundle =>
       \A s \in Signals : global[s] \in {installation} \cup Displaced(s)

\* A recorded installation really is the one the process uses, for all three
\* signals ("fail on any conflict").
InstalledIsGlobal ==
  installation # NoBundle => \A s \in Signals : global[s] = installation

\* A caller that is told to use another bundle, or that there is a conflict,
\* has had its own bundle shut down: no exporter thread is left behind.
LosersAreClosed ==
  \A t \in Threads :
    LET a == answer[t]
        mine == reg[t].bundle IN
    a.kind = "conflict" \/ (a.kind = "bundle" /\ a.bundle # mine)
      => report[mine] # NoReport

\* The registry never shuts down the bundle that it hands out, in particular
\* not when the installed bundle is installed again.
InstalledIsSpared ==
  \A t \in Threads :
    reg[t].pc \in {"discard", "discarding"} => reg[t].bundle # installation

-----------------------------------------------------------------------------
(* The inductive invariant: what the thread that holds the lock knows.      *)

InLock == {"check", "look", "set", "record", "discard", "discarding", "release"}

LockHeld == \A t \in Threads : reg[t].pc \in InLock <=> lock = t

Occupied == \E s \in Signals : global[s] # Proxy

\* The answer a may be given to a thread that asked for b.
Justified(a, b) ==
  \/ /\ installation # NoBundle /\ Twin(b)
     /\ a = Answer("bundle", installation)
  \/ /\ IF installation = NoBundle THEN Occupied ELSE ~Twin(b)
     /\ a = Conflict

\* b is spared, or it has been shut down.
Disposed(a, b) == a # Answer("bundle", b) => report[b] # NoReport

Seen(i, p) == global[FlushOrder[i]] \in {p} \cup Displaced(FlushOrder[i])

Asked(t) == reg[t].pc = "idle" <=> reg[t].bundle = NoBundle

\* Nothing is installed, and the providers are as they were seen or set.
KnowsProviders(t) ==
  LET r == reg[t] IN
  /\ r.pc \in {"wait", "check"} => r.at = 1 /\ ~r.foreign
  /\ r.pc \in {"look", "set", "record"} => installation = NoBundle
  /\ r.pc = "look" /\ r.foreign => Occupied
  /\ r.pc = "look" /\ ~r.foreign => \A i \in 1..3 : i < r.at => Seen(i, Proxy)
  /\ r.pc = "set" => \A i \in 1..3 : Seen(i, IF i < r.at THEN r.bundle ELSE Proxy)
  /\ r.pc = "record" => \A i \in 1..3 : Seen(i, r.bundle)

\* The bundle to discard is not the installed one, and the answer is right.
KnowsVerdict(t) ==
  LET r == reg[t]
      b == r.bundle IN
  /\ r.pc \in {"discard", "discarding"} => b # installation /\ Justified(r.verdict, b)
  /\ r.pc = "release" =>
       \/ t \in Interruptible /\ r.verdict = Interrupted
       \/ Justified(r.verdict, b) /\ Disposed(r.verdict, b)

\* The shutdown of the bundle goes on, was interrupted or has left a report.
KnowsShutdown(t) ==
  reg[t].pc = "discarding" =>
    \/ call[t].op = "shutdown" /\ call[t].bundle = reg[t].bundle
    \/ call[t] = Idle /\ outcome[t].kind = "interrupted" /\ t \in Interruptible
    \/ /\ call[t] = Idle /\ outcome[t].kind = "report"
       /\ report[reg[t].bundle] # NoReport

Knows(t) == Asked(t) /\ KnowsProviders(t) /\ KnowsVerdict(t) /\ KnowsShutdown(t)

Answered(t) ==
  LET a == answer[t]
      b == reg[t].bundle IN
  /\ reg[t].pc = "done" <=> a # NoAnswer
  /\ a \in {NoAnswer, Interrupted} \/ Disposed(a, b)

RegistryInv ==
  /\ RegistryTypeOK /\ LockHeld /\ GlobalsNeverMixed
  /\ \A t \in Threads : Knows(t) /\ Answered(t)

-----------------------------------------------------------------------------
(* The registry implements the write-once register of ProcessProvider.      *)

Register == INSTANCE ProcessProvider WITH
  Callers <- Threads, Abandoning <- Interruptible, Candidates <- Bundles,
  Nobody <- NoBundle, Mark <- Fingerprint,
  owner <- installation,
  occupied <- \E s \in Signals : global[s] # Proxy,
  want <- [t \in Threads |-> reg[t].bundle],
  got <- answer

\* Installed once, reused by identical callers, refused to all others.
IsRegister == Register!Spec

\* Every installation ends, whoever holds the lock, flushes or shuts down.
InstallReturns == Register!Answered

=============================================================================
