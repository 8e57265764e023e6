--------------------------- MODULE ProviderBundle ---------------------------
(***************************************************************************)
(* The lifecycle of a ProviderBundle (providers/factory.py): three         *)
(* OpenTelemetry providers that are flushed and shut down together, and    *)
(* the report that the shutdown leaves behind.                             *)
(*                                                                         *)
(* force_flush and shutdown take no lock.  Any number of threads may be    *)
(* inside them, on the same bundle, at the same time: a call is therefore  *)
(* a sequence of steps, one per SDK call and one per access to the shared  *)
(* field _shutdown_report.                                                 *)
(***************************************************************************)
EXTENDS Naturals, FiniteSets

CONSTANTS
  Threads,        \* threads of the application
  Interruptible,  \* those that KeyboardInterrupt can reach (the main thread)
  Bundles,        \* the bundles the process builds
  NoBundle,       \* a frame that works on no bundle
  NoReport,       \* _shutdown_report is None
  Enabled,        \* Enabled[b]: config.signals of bundle b
  Faulty          \* signals whose exporter may fail or time out

Signals == {"traces", "metrics", "logs"}

\* One outcome of every SDK call: three flushed flags, three shutdown flags.
Report == [flushed : [Signals -> BOOLEAN], down : [Signals -> BOOLEAN]]

ASSUME BundleAssumption ==
  /\ Interruptible \subseteq Threads
  /\ NoBundle \notin Bundles
  /\ NoReport \notin Report
  /\ Enabled \in [Bundles -> SUBSET Signals]
  /\ Faulty \subseteq Signals

VARIABLES
  report,     \* report[b]: _shutdown_report of bundle b
  call,       \* call[t]: the frame of thread t inside force_flush or shutdown
  outcome,    \* outcome[t]: what the last call of t returned or raised, once it has
  flushes,    \* flushes[b][s]: outcomes of force_flush of provider s so far
  shutdowns   \* shutdowns[b][s]: outcomes of shutdown of provider s so far

bundleVars == <<report, call, outcome, flushes, shutdowns>>

-----------------------------------------------------------------------------
(* Frames.  "at" is the next step of the call: 0 the nested force_flush of  *)
(* shutdown is entered, 1..3 the three flushes, 4..6 the three shutdowns,   *)
(* 7 the assignment of _shutdown_report, 8 the return of its value.  A      *)
(* force_flush that is not nested returns at 4.                             *)

FlushOrder == <<"traces", "metrics", "logs">>
DownOrder  == <<"logs", "metrics", "traces">>

NoFlags == [s \in Signals |-> FALSE]

Enter(op, b, at, borrowed) ==
  [op |-> op, bundle |-> b, at |-> at, borrowed |-> borrowed,
   flushed |-> NoFlags, down |-> NoFlags]

Idle == Enter("idle", NoBundle, 0, FALSE)

Frame == [op : {"idle", "force_flush", "shutdown"}, bundle : Bundles \cup {NoBundle},
          at : 0..8, borrowed : BOOLEAN,
          flushed : [Signals -> BOOLEAN], down : [Signals -> BOOLEAN]]

Result(kind, r) == [kind |-> kind, report |-> r]

Results == [kind : {"none", "invalid", "flags", "report", "interrupted"},
            report : Report \cup {NoReport}]

\* ShutdownReport.clean
Clean(r) == \A s \in Signals : r.flushed[s] /\ r.down[s]

-----------------------------------------------------------------------------
(* The SDK.  _safe_bool and _safe_shutdown turn an exception into False, so *)
(* an SDK call either succeeds or fails.  A provider without a processor    *)
(* has nothing to fail; one that was shut down may refuse to flush.         *)

Touched(b, s) == shutdowns[b][s] # {}

FlushResults(b, s) ==
  IF s \in Enabled[b] /\ (s \in Faulty \/ Touched(b, s)) THEN BOOLEAN ELSE {TRUE}

ShutdownResults(b, s) ==
  IF s \in Enabled[b] \cap Faulty THEN BOOLEAN ELSE {TRUE}

Verdict(ok) == IF ok THEN "ok" ELSE "failed"

-----------------------------------------------------------------------------
BundleInit ==
  /\ report = [b \in Bundles |-> NoReport]
  /\ call = [t \in Threads |-> Idle]
  /\ outcome = [t \in Threads |-> Result("none", NoReport)]
  /\ flushes = [b \in Bundles |-> [s \in Signals |-> {}]]
  /\ shutdowns = [b \in Bundles |-> [s \in Signals |-> {}]]

\* _timeout rejects the argument before anything else is looked at.
RejectTimeout(t) ==
  /\ call[t] = Idle
  /\ outcome' = [outcome EXCEPT ![t] = Result("invalid", NoReport)]
  /\ UNCHANGED <<report, call, flushes, shutdowns>>

\* force_flush called from outside: the timeout is valid and the report is
\* looked at once; later steps borrow its flags if there was one.
StartFlush(t, b) ==
  /\ call[t] = Idle
  /\ call' = [call EXCEPT ![t] = Enter("force_flush", b, 1, report[b] # NoReport)]
  /\ outcome' = [outcome EXCEPT ![t] = Result("none", NoReport)]
  /\ UNCHANGED <<report, flushes, shutdowns>>

\* shutdown finds a report and returns it.
ReturnCached(t, b) ==
  /\ call[t] = Idle
  /\ report[b] # NoReport
  /\ outcome' = [outcome EXCEPT ![t] = Result("report", report[b])]
  /\ UNCHANGED <<report, call, flushes, shutdowns>>

\* Mutant: the nested force_flush is left out.
StartShutdownUnflushed(t, b) ==
  /\ call[t] = Idle
  /\ report[b] = NoReport
  /\ call' = [call EXCEPT ![t] = Enter("shutdown", b, 4, FALSE)]
  /\ outcome' = [outcome EXCEPT ![t] = Result("none", NoReport)]
  /\ UNCHANGED <<report, flushes, shutdowns>>

\* Mutant: the report of an earlier shutdown is not looked for.
StartShutdownAgain(t, b) ==
  /\ call[t] = Idle
  /\ call' = [call EXCEPT ![t] = Enter("shutdown", b, 0, FALSE)]
  /\ outcome' = [outcome EXCEPT ![t] = Result("none", NoReport)]
  /\ UNCHANGED <<report, flushes, shutdowns>>

\* shutdown finds no report and goes on.
StartShutdown(t, b) ==
  /\ call[t] = Idle
  /\ report[b] = NoReport
  /\ call' = [call EXCEPT ![t] = Enter("shutdown", b, 0, FALSE)]
  /\ outcome' = [outcome EXCEPT ![t] = Result("none", NoReport)]
  /\ UNCHANGED <<report, flushes, shutdowns>>

Shutdown(t, b) == ReturnCached(t, b) \/ StartShutdown(t, b)

\* The force_flush nested in shutdown looks at the report again.
EnterFlush(t) ==
  LET b == call[t].bundle IN
  /\ call[t].op = "shutdown" /\ call[t].at = 0
  /\ call' = [call EXCEPT ![t] = Enter("shutdown", b, 1, report[b] # NoReport)]
  /\ UNCHANGED <<report, outcome, flushes, shutdowns>>

\* Mutant: the loop does not get past a signal that is disabled.
FlushSignalStuck(t) ==
  LET c == call[t]
      s == FlushOrder[c.at] IN
  /\ c.op # "idle" /\ c.at \in 1..3 /\ ~c.borrowed
  /\ s \in Enabled[c.bundle]
  /\ \E ok \in FlushResults(c.bundle, s) :
       /\ call' = [call EXCEPT ![t] = [c EXCEPT !.at = @ + 1, !.flushed[s] = ok]]
       /\ flushes' = [flushes EXCEPT ![c.bundle][s] = @ \cup {Verdict(ok)}]
  /\ UNCHANGED <<report, outcome, shutdowns>>

\* One provider is flushed; a failure does not keep the next from its turn.
FlushSignal(t) ==
  LET c == call[t]
      s == FlushOrder[c.at] IN
  /\ c.op # "idle" /\ c.at \in 1..3 /\ ~c.borrowed
  /\ \E ok \in FlushResults(c.bundle, s) :
       /\ call' = [call EXCEPT ![t] = [c EXCEPT !.at = @ + 1, !.flushed[s] = ok]]
       /\ flushes' = [flushes EXCEPT ![c.bundle][s] = @ \cup {Verdict(ok)}]
  /\ UNCHANGED <<report, outcome, shutdowns>>

\* One flag is read from the report that the call found when it started.
BorrowFlag(t) ==
  LET c == call[t]
      s == FlushOrder[c.at] IN
  /\ c.op # "idle" /\ c.at \in 1..3 /\ c.borrowed
  /\ call' = [call EXCEPT ![t] = [c EXCEPT
                !.at = @ + 1, !.flushed[s] = report[c.bundle].flushed[s]]]
  /\ UNCHANGED <<report, outcome, flushes, shutdowns>>

ReturnFlags(t) ==
  /\ call[t].op = "force_flush" /\ call[t].at = 4
  /\ call' = [call EXCEPT ![t] = Idle]
  /\ outcome' = [outcome EXCEPT ![t] = Result("flags", NoReport)]
  /\ UNCHANGED <<report, flushes, shutdowns>>

\* Mutant: a provider that fails keeps the others from being shut down.
ShutdownSignalAborts(t) ==
  LET c == call[t]
      s == DownOrder[c.at - 3] IN
  /\ c.op = "shutdown" /\ c.at \in 4..6
  /\ \E ok \in ShutdownResults(c.bundle, s) :
       /\ call' = [call EXCEPT ![t] = [c EXCEPT
                     !.at = IF ok THEN @ + 1 ELSE 7, !.down[s] = ok]]
       /\ shutdowns' = [shutdowns EXCEPT ![c.bundle][s] = @ \cup {Verdict(ok)}]
  /\ UNCHANGED <<report, outcome, flushes>>

\* One provider is shut down, logs first, whatever became of the others.
ShutdownSignal(t) ==
  LET c == call[t]
      s == DownOrder[c.at - 3] IN
  /\ c.op = "shutdown" /\ c.at \in 4..6
  /\ \E ok \in ShutdownResults(c.bundle, s) :
       /\ call' = [call EXCEPT ![t] = [c EXCEPT !.at = @ + 1, !.down[s] = ok]]
       /\ shutdowns' = [shutdowns EXCEPT ![c.bundle][s] = @ \cup {Verdict(ok)}]
  /\ UNCHANGED <<report, outcome, flushes>>

\* The report is assigned, over another thread's report if there is one.
Publish(t) ==
  LET c == call[t] IN
  /\ c.op = "shutdown" /\ c.at = 7
  /\ report' = [report EXCEPT ![c.bundle] = [flushed |-> c.flushed, down |-> c.down]]
  /\ call' = [call EXCEPT ![t] = [c EXCEPT !.at = 8]]
  /\ UNCHANGED <<outcome, flushes, shutdowns>>

\* The field is read back: it may hold a later report by now.
ReturnReport(t) ==
  LET c == call[t] IN
  /\ c.op = "shutdown" /\ c.at = 8
  /\ outcome' = [outcome EXCEPT ![t] = Result("report", report[c.bundle])]
  /\ call' = [call EXCEPT ![t] = Idle]
  /\ UNCHANGED <<report, flushes, shutdowns>>

\* "except Exception" does not catch KeyboardInterrupt: the call is left where
\* it is, and an SDK shutdown it was inside of may or may not have begun.
Interrupt(t) ==
  LET c == call[t] IN
  /\ t \in Interruptible /\ c.op # "idle"
  /\ \/ UNCHANGED shutdowns
     \/ /\ c.op = "shutdown" /\ c.at \in 4..6
        /\ shutdowns' = [shutdowns EXCEPT
             ![c.bundle][DownOrder[c.at - 3]] = @ \cup {"interrupted"}]
  /\ call' = [call EXCEPT ![t] = Idle]
  /\ outcome' = [outcome EXCEPT ![t] = Result("interrupted", NoReport)]
  /\ UNCHANGED <<report, flushes>>

\* The steps of a call that has started.
CallStep(t) ==
  \/ EnterFlush(t)
  \/ FlushSignal(t)
  \/ BorrowFlag(t)
  \/ ReturnFlags(t)
  \/ ShutdownSignal(t)
  \/ Publish(t)
  \/ ReturnReport(t)

BundleNext ==
  \E t \in Threads :
    \/ RejectTimeout(t)
    \/ \E b \in Bundles : StartFlush(t, b) \/ Shutdown(t, b)
    \/ CallStep(t)
    \/ Interrupt(t)

\* A thread that is inside a call keeps running: every SDK call returns,
\* because exporters and worker joins have timeouts.
BundleFairness == \A t \in Threads : WF_bundleVars(CallStep(t))

BundleSpec == BundleInit /\ [][BundleNext]_bundleVars /\ BundleFairness

-----------------------------------------------------------------------------
BundleTypeOK ==
  /\ report \in [Bundles -> Report \cup {NoReport}]
  /\ call \in [Threads -> Frame]
  /\ outcome \in [Threads -> Results]
  /\ flushes \in [Bundles -> [Signals -> SUBSET {"ok", "failed"}]]
  /\ shutdowns \in [Bundles -> [Signals -> SUBSET {"ok", "failed", "interrupted"}]]

\* No provider is shut down before a flush of all three providers of its
\* bundle was tried, by this call or by the call whose report it borrows
\* (shutdown flushes first, lines 137-141; docs/architecture.md: "Provider
\* shutdown flushes all three signals").
FlushBeforeShutdown ==
  \A b \in Bundles, s \in Signals :
    Touched(b, s) => \A other \in Signals : flushes[b][other] # {}

\* A flag of a published report is the outcome of an SDK call that was really
\* made on that provider, however the calls of several threads interleave:
\* in particular a bundle with a report has no provider left running.
ReportHonest ==
  \A b \in Bundles : report[b] # NoReport =>
    \A s \in Signals :
      /\ Verdict(report[b].flushed[s]) \in flushes[b][s]
      /\ Verdict(report[b].down[s]) \in shutdowns[b][s]

\* What a call has noted is what happened: each flag up to its present step is
\* the outcome of an SDK call on its bundle, its own or the one it borrows.
FrameHonest(c) ==
  /\ c.op # "idle" => c.bundle \in Bundles
  /\ c.op # "idle" /\ (c.borrowed \/ c.at = 8) => report[c.bundle] # NoReport
  /\ \A i \in 1..3 : c.op # "idle" /\ c.at > i =>
       Verdict(c.flushed[FlushOrder[i]]) \in flushes[c.bundle][FlushOrder[i]]
  /\ \A i \in 1..3 : c.op = "shutdown" /\ c.at > i + 3 =>
       Verdict(c.down[DownOrder[i]]) \in shutdowns[c.bundle][DownOrder[i]]

FramesHonest == \A t \in Threads : FrameHonest(call[t])

\* The inductive invariant behind FlushBeforeShutdown and ReportHonest.
BundleInv == BundleTypeOK /\ FramesHonest /\ FlushBeforeShutdown /\ ReportHonest

\* b has a report, and every call on b that is still going on is a force_flush
\* that has found it.
Settled(b) ==
  /\ report[b] # NoReport
  /\ \A t \in Threads : call[t].bundle = b =>
       call[t].op = "force_flush" /\ call[t].borrowed

\* Once the racing calls have drained, close is final: whatever is called from
\* then on, a bundle stays settled, no provider of it is touched again, and its
\* report stays.
CloseIsFinal ==
  [][\A b \in Bundles : Settled(b) =>
       /\ Settled(b)'
       /\ report'[b] = report[b]
       /\ flushes'[b] = flushes[b]
       /\ shutdowns'[b] = shutdowns[b]]_bundleVars

\* Every force_flush and every shutdown returns or raises.
CallReturns == \A t \in Threads : call[t].op # "idle" ~> call[t].op = "idle"

=============================================================================
