------------------------- MODULE ObservabilityProofs ------------------------
(***************************************************************************)
(* Theorems about the facades of a process, for any threads, facades,      *)
(* fingerprints, meters and foreign providers.  A step of the process is a *)
(* step of the registry or leaves it alone, so what is proved of registry  *)
(* and bundles holds of the whole; what the facades add rests on it.       *)
(***************************************************************************)
EXTENDS Observability, GlobalRegistryProofs

-----------------------------------------------------------------------------
(* A step of the facades is a step of the registry, or leaves it alone.     *)

LEMMA ReadyMayUse ==
  ASSUME ObservabilityTypeOK, NEW t \in Threads, NEW f \in Facades, t \in Users, Ready(t),
         StartFlush(t, bundle[f]) \/ Shutdown(t, bundle[f])
  PROVE  \E b \in Bundles : Use(t, b)
<1>1. bundle[f] \in Bundles
  BY DEF ObservabilityTypeOK
<1> QED
  BY <1>1 DEF Use, Ready

\* The steps of thread t.
ProcessStep(t) ==
  \/ \E f \in Facades :
       \/ InstallGlobal(t, f)
       \/ ForceFlush(t, f)
       \/ \E strict \in BOOLEAN : Close(t, f, strict)
       \/ \E n \in Meters : Meter(t, f, n)
  \/ FacadeStep(t)
  \/ InnerStep(t)
  \/ InterruptFacade(t)
  \/ /\ InterruptInstall(t) \/ (Interrupt(t) /\ UNCHANGED registryVars)
     /\ UNCHANGED facadeVars

ForeignStep == \E s \in Signals : SetForeign(s) /\ UNCHANGED facadeVars

LEMMA NextIsProcessStep ==
  ASSUME ObservabilityNext
  PROVE  (\E t \in Threads : ProcessStep(t)) \/ ForeignStep
BY DEF ObservabilityNext, ProcessStep, ForeignStep

\* What the step of one thread does to registry and bundles.
LEMMA FacadeIsRegistry ==
  ASSUME ObservabilityTypeOK, NEW t \in Threads, ProcessStep(t)
  PROVE  UNCHANGED processVars \/ ThreadStep(t)
<1>1. ASSUME NEW f \in Facades, InstallGlobal(t, f)
      PROVE  \E b \in Bundles : Install(t, b)
  <2>1. bundle[f] \in Bundles
    BY DEF ObservabilityTypeOK
  <2> QED
    BY <1>1, <2>1 DEF InstallGlobal
<1>2. ASSUME NEW f \in Facades, ForceFlush(t, f) PROVE UseStep(t)
  BY <1>2, ReadyMayUse DEF ForceFlush, UseStep
<1>3. ASSUME NEW f \in Facades, NEW strict \in BOOLEAN, Close(t, f, strict)
      PROVE  UseStep(t)
  BY <1>3, ReadyMayUse DEF Close, UseStep
<1>4. ASSUME NEW f \in Facades, NEW n \in Meters, Meter(t, f, n)
      PROVE  UNCHANGED processVars
  BY <1>4 DEF Meter
<1>5. ASSUME FacadeStep(t) \/ InterruptFacade(t) PROVE UNCHANGED processVars
  BY <1>5 DEF FacadeStep, AssignBundle, InstallRaised, MarkGlobal, Closed, InterruptFacade
<1>6. ASSUME InnerStep(t) PROVE InstallStep(t) \/ UseStep(t)
  BY <1>6 DEF InnerStep, UseStep
<1>7. ASSUME InterruptInstall(t) \/ (Interrupt(t) /\ UNCHANGED registryVars)
      PROVE  InterruptInstall(t) \/ UseStep(t)
  BY <1>7 DEF UseStep
<1> QED
  BY <1>1, <1>2, <1>3, <1>4, <1>5, <1>6, <1>7 DEF ProcessStep, ThreadStep

LEMMA FacadeStepsAreRegistrySteps ==
  ASSUME ObservabilityTypeOK, [ObservabilityNext]_allVars
  PROVE  [RegistryNext]_processVars
<1>1. CASE UNCHANGED allVars
  BY <1>1 DEF allVars
<1>2. CASE ObservabilityNext
  <2>1. ASSUME ForeignStep PROVE RegistryNext
    BY <2>1 DEF ForeignStep, RegistryNext
  <2> QED
    BY <1>2, <2>1, NextIsProcessStep, FacadeIsRegistry, ThreadStepIsNext
<1> QED
  BY <1>1, <1>2

-----------------------------------------------------------------------------
(* Types.                                                                   *)

LEMMA OutsideIsFrame ==
  Outside \in FacFrame /\ Outside.op = "idle"
BY DEF Outside, FacFrame

LEMMA ClosingIsClosing ==
  ASSUME NEW kind \in {"none", "report", "failed", "interrupted"},
         NEW b \in Bundles \cup {NoBundle}, NEW strict \in BOOLEAN
  PROVE  Closing(kind, b, strict) \in Closings
BY DEF Closing, Closings

LEMMA FacFields ==
  ASSUME NEW x \in FacFrame
  PROVE  /\ x.op \in {"idle", "install", "mark", "close"}
         /\ x.facade \in Facades \cup {NoBundle} /\ x.strict \in BOOLEAN
         /\ \A op \in {"idle", "install", "mark", "close"} : [x EXCEPT !.op = op] \in FacFrame
BY DEF FacFrame

LEMMA ObservabilityTypeStep ==
  ASSUME RegistryInv, ObservabilityInv, ObservabilityNext
  PROVE  ObservabilityTypeOK'
<1>t. ObservabilityTypeOK
  BY DEF ObservabilityInv
<1>1. CASE UNCHANGED facadeVars
  BY <1>t, <1>1 DEF facadeVars, ObservabilityTypeOK
<1>2. ASSUME NEW t \in Threads, NEW f \in Facades, InstallGlobal(t, f)
      PROVE  ObservabilityTypeOK'
  <2>1. [Outside EXCEPT !.op = "install", !.facade = f] \in FacFrame
    BY DEF Outside, FacFrame
  <2> QED
    BY <1>t, <1>2, <2>1 DEF InstallGlobal, ObservabilityTypeOK
<1>3. ASSUME NEW t \in Threads, NEW f \in Facades, NEW strict \in BOOLEAN, Close(t, f, strict)
      PROVE  ObservabilityTypeOK'
  <2>1. [op |-> "close", facade |-> bundle[f], strict |-> strict] \in FacFrame
    BY <1>t DEF FacFrame, ObservabilityTypeOK, Facades
  <2> QED
    BY <1>t, <1>3, <2>1, ClosingIsClosing DEF Close, ObservabilityTypeOK
<1>4. ASSUME NEW t \in Threads, NEW f \in Facades, NEW n \in Meters, Meter(t, f, n)
      PROVE  ObservabilityTypeOK'
  BY <1>t, <1>4 DEF Meter, ObservabilityTypeOK
<1>5. ASSUME NEW t \in Threads, AssignBundle(t) PROVE ObservabilityTypeOK'
  <2>1. answer[t].bundle \in Bundles
    BY <1>5 DEF AssignBundle, ObservabilityInv, AnswersInstalled, RegistryInv, RegistryTypeOK
  <2>2. [fac[t] EXCEPT !.op = "mark"] \in FacFrame
    BY <1>t, FacFields DEF ObservabilityTypeOK
  <2> QED
    BY <1>t, <1>5, <2>1, <2>2 DEF AssignBundle, ObservabilityTypeOK
<1>6. ASSUME NEW t \in Threads, InstallRaised(t) \/ InterruptFacade(t)
      PROVE  ObservabilityTypeOK'
  BY <1>t, <1>6, OutsideIsFrame DEF InstallRaised, InterruptFacade, ObservabilityTypeOK
<1>7. ASSUME NEW t \in Threads, MarkGlobal(t) PROVE ObservabilityTypeOK'
  BY <1>t, <1>7, OutsideIsFrame DEF MarkGlobal, ObservabilityTypeOK
<1>8. ASSUME NEW t \in Threads, Closed(t) PROVE ObservabilityTypeOK'
  <2>1. PICK kind \in {"none", "report", "failed", "interrupted"} :
          closed' = [closed EXCEPT ![t] = Closing(kind, fac[t].facade, fac[t].strict)]
    BY <1>8 DEF Closed
  <2>2. Closing(kind, fac[t].facade, fac[t].strict) \in Closings
    BY <1>t, FacFields, ClosingIsClosing DEF ObservabilityTypeOK, Facades
  <2> QED
    BY <1>t, <1>8, <2>1, <2>2, OutsideIsFrame DEF Closed, ObservabilityTypeOK
<1> QED
  BY <1>1, <1>2, <1>3, <1>4, <1>5, <1>6, <1>7, <1>8
  DEF ObservabilityNext, FacadeStep, InnerStep, ForceFlush

-----------------------------------------------------------------------------
(* What the registry and the bundles keep.                                  *)

\* The installation is written once.
LEMMA InstallationStays ==
  ASSUME RegistryInv, RegistryNext, installation # NoBundle
  PROVE  installation' = installation
<1>1. ASSUME NEW t \in Threads, Record(t) PROVE FALSE
  BY <1>1 DEF Record, RegistryInv, Knows, KnowsProviders
<1>2. ASSUME NEW t \in Threads, InstallStep(t) PROVE installation' = installation
  BY <1>1, <1>2 DEF InstallStep, Acquire, FoundOther, FoundTwin, FoundSelf, FoundNone, Look,
     Decide, Set, Discard, Discarded, Release
<1> QED
  BY <1>2, NextSteps DEF Install, InterruptInstall, UseStep, registryVars, SetForeign

\* The verdict that a call of the registry gives becomes its answer.
LEMMA AnswersStep ==
  ASSUME RegistryInv, AnswersInstalled, RegistryNext
  PROVE  AnswersInstalled'
<1>t. RegistryTypeOK
  BY DEF RegistryInv
<1>1. CASE answer' = answer
  BY <1>1, InstallationStays DEF AnswersInstalled
<1>2. ASSUME NEW t \in Threads, Release(t) PROVE AnswersInstalled'
  <2>1. answer' = [answer EXCEPT ![t] = reg[t].verdict] /\ installation' = installation
    BY <1>2 DEF Release
  <2>2. reg[t].verdict = Interrupted \/ Justified(reg[t].verdict, reg[t].bundle)
    BY <1>2 DEF Release, RegistryInv, Knows, KnowsVerdict
  <2>3. reg[t].verdict.kind = "bundle" =>
          reg[t].verdict.bundle = installation /\ installation # NoBundle
    BY <2>2 DEF Justified, Answer, Interrupted, Conflict
  <2> QED
    BY <1>t, <2>1, <2>3 DEF AnswersInstalled, RegistryTypeOK
<1>3. ASSUME NEW t \in Threads, InterruptInstall(t) PROVE AnswersInstalled'
  <2>1. CASE answer' = answer
    BY <1>1, <2>1
  <2>2. CASE answer' = [answer EXCEPT ![t] = Interrupted]
    BY <1>t, <1>3, <2>2 DEF InterruptInstall, AnswersInstalled, RegistryTypeOK, Interrupted, Answer
  <2> QED
    BY <1>3, <2>1, <2>2 DEF InterruptInstall
<1>4. ASSUME NEW t \in Threads, InstallStep(t) PROVE AnswersInstalled'
  BY <1>1, <1>2, <1>4 DEF InstallStep, Acquire, FoundOther, FoundTwin, FoundSelf, FoundNone,
     Look, Decide, Set, Record, Discard, Discarded
<1> QED
  BY <1>1, <1>3, <1>4, NextSteps DEF Install, UseStep, registryVars, SetForeign

\* What has been seen of a bundle's SDK calls stays seen.
LEMMA OutcomesStay ==
  ASSUME RegistryInv, BundleInv, [RegistryNext]_processVars, NEW b \in Bundles, NEW s \in Signals
  PROVE  flushes[b][s] \subseteq flushes'[b][s] /\ shutdowns[b][s] \subseteq shutdowns'[b][s]
<1>1. CASE UNCHANGED processVars
  BY <1>1 DEF processVars, bundleVars
<1>2. CASE BundleNext
  BY <1>2, OutcomesGrow DEF BundleInv
<1>3. CASE UNCHANGED bundleVars
  BY <1>3 DEF bundleVars
<1> QED
  BY <1>1, <1>2, <1>3, BundlesStep

LEMMA BackedStays ==
  ASSUME RegistryInv, BundleInv, [RegistryNext]_processVars, NEW b \in Bundles, NEW r, Backed(r, b)
  PROVE  Backed(r, b)'
BY OutcomesStay DEF Backed

-----------------------------------------------------------------------------
(* A close follows the shutdown that it has called.                         *)

\* While the step of a thread leaves the call of t alone, t knows what it knew.
LEMMA CloseStays ==
  ASSUME RegistryInv, BundleInv, ObservabilityInv, [RegistryNext]_processVars, NEW t \in Threads,
         fac'[t] = fac[t], reg'[t] = reg[t], call'[t] = call[t], outcome'[t] = outcome[t]
  PROVE  KnowsClose(t)'
<1> SUFFICES ASSUME fac[t].op = "close"
             PROVE  /\ reg[t].pc \in {"idle", "done"}
                    /\ \/ call[t].op = "shutdown" /\ call[t].bundle = fac[t].facade
                       \/ call[t] = Idle /\ outcome[t].kind = "interrupted"
                       \/ /\ call[t] = Idle /\ outcome[t].kind = "report"
                          /\ Backed(outcome[t].report, fac[t].facade)'
  BY DEF KnowsClose, Backed
<1>1. KnowsClose(t) /\ fac[t].facade \in Bundles
  BY DEF ObservabilityInv, KnowsInstalled, Facades
<1>2. Backed(outcome[t].report, fac[t].facade) => Backed(outcome[t].report, fac[t].facade)'
  BY <1>1, BackedStays DEF Backed
<1> QED
  BY <1>1, <1>2 DEF KnowsClose

\* The step of a call of shutdown leaves it on its bundle, until its report is
\* returned.
LEMMA ShutdownGoesOn ==
  ASSUME BundleInv, NEW t \in Threads, CallStep(t), call[t].op = "shutdown"
  PROVE  \/ call'[t].op = "shutdown" /\ call'[t].bundle = call[t].bundle
         \/ /\ call'[t] = Idle /\ outcome'[t] = Result("report", report[call[t].bundle])
            /\ report[call[t].bundle] # NoReport
            /\ UNCHANGED <<flushes, shutdowns>>
<1>t. BundleTypeOK /\ FrameHonest(call[t])
  BY DEF BundleInv, FramesHonest
<1>f. call[t] \in Frame
  BY <1>t DEF BundleTypeOK
<1>1. CASE EnterFlush(t)
  BY <1>t, <1>1 DEF EnterFlush, Enter, BundleTypeOK
<1>2. CASE FlushSignal(t)
  BY <1>t, <1>f, <1>2 DEF FlushSignal, BundleTypeOK, Frame
<1>3. CASE BorrowFlag(t)
  BY <1>t, <1>f, <1>3 DEF BorrowFlag, BundleTypeOK, Frame
<1>4. CASE ReturnFlags(t)
  BY <1>4 DEF ReturnFlags
<1>5. CASE ShutdownSignal(t)
  BY <1>t, <1>f, <1>5 DEF ShutdownSignal, BundleTypeOK, Frame
<1>6. CASE Publish(t)
  BY <1>t, <1>f, <1>6 DEF Publish, BundleTypeOK, Frame
<1>7. CASE ReturnReport(t)
  BY <1>t, <1>7 DEF ReturnReport, FrameHonest, BundleTypeOK
<1> QED
  BY <1>1, <1>2, <1>3, <1>4, <1>5, <1>6, <1>7 DEF CallStep

\* A report that a bundle has is backed.
LEMMA ReportIsBacked ==
  ASSUME BundleInv, NEW b \in Bundles, report[b] # NoReport
  PROVE  Backed(report[b], b)
BY DEF BundleInv, ReportHonest, Backed

\* The thread of a close is in its call, or has come back from it.
LEMMA OwnCloseStep ==
  ASSUME RegistryInv, BundleInv, ObservabilityInv, [RegistryNext]_processVars, NEW t \in Threads,
         fac'[t] = fac[t], CallStep(t) \/ Interrupt(t), UNCHANGED registryVars
  PROVE  KnowsClose(t)'
<1> SUFFICES ASSUME fac[t].op = "close" PROVE KnowsClose(t)'
  BY DEF KnowsClose
<1>1. KnowsClose(t) /\ fac[t].facade \in Bundles /\ reg'[t] = reg[t]
  BY DEF ObservabilityInv, KnowsInstalled, Facades, registryVars
<1>2. call[t].op # "idle"
  BY DEF CallStep, EnterFlush, FlushSignal, BorrowFlag, ReturnFlags, ShutdownSignal, Publish,
     ReturnReport, Interrupt
<1>3. call[t].op = "shutdown" /\ call[t].bundle = fac[t].facade
  BY <1>1, <1>2 DEF KnowsClose, Idle, Enter
<1>4. CASE Interrupt(t)
  BY <1>1, <1>4 DEF Interrupt, KnowsClose, Result, BundleInv, BundleTypeOK
<1>5. CASE CallStep(t)
  <2>1. CASE call'[t].op = "shutdown" /\ call'[t].bundle = call[t].bundle
    BY <1>1, <1>3, <2>1 DEF KnowsClose
  <2>2. CASE /\ call'[t] = Idle /\ outcome'[t] = Result("report", report[call[t].bundle])
             /\ report[call[t].bundle] # NoReport
             /\ UNCHANGED <<flushes, shutdowns>>
    <3>1. outcome'[t].kind = "report" /\ outcome'[t].report = report[fac[t].facade]
      BY <1>3, <2>2 DEF Result
    <3>2. Backed(report[fac[t].facade], fac[t].facade)
      BY <1>1, <1>3, <2>2, ReportIsBacked
    <3> QED
      BY <1>1, <2>2, <3>1, <3>2 DEF KnowsClose, Backed
  <2> QED
    BY <1>3, <1>5, <2>1, <2>2, ShutdownGoesOn
<1> QED
  BY <1>4, <1>5

LEMMA CloseBegins ==
  ASSUME RegistryInv, BundleInv, ObservabilityInv, NEW t \in Threads, NEW f \in Facades,
         NEW strict \in BOOLEAN, Close(t, f, strict)
  PROVE  KnowsClose(t)'
<1>1. /\ reg'[t] = reg[t] /\ reg[t].pc \in {"idle", "done"} /\ bundle[f] \in Bundles
      /\ Shutdown(t, bundle[f])
  BY DEF Close, Ready, Free, registryVars, ObservabilityInv, ObservabilityTypeOK
<1>2. fac'[t].op = "close" /\ fac'[t].facade = bundle[f]
  BY DEF Close, ObservabilityInv, ObservabilityTypeOK
<1>3. CASE StartShutdown(t, bundle[f])
  BY <1>1, <1>2, <1>3 DEF StartShutdown, Enter, KnowsClose, BundleInv, BundleTypeOK
<1>4. CASE ReturnCached(t, bundle[f])
  <2>1. /\ call'[t] = Idle /\ outcome'[t] = Result("report", report[bundle[f]])
        /\ report[bundle[f]] # NoReport /\ UNCHANGED <<flushes, shutdowns>>
    BY <1>4 DEF ReturnCached, BundleInv, BundleTypeOK
  <2>2. Backed(report[bundle[f]], bundle[f])
    BY <1>1, <2>1, ReportIsBacked
  <2> QED
    BY <1>1, <1>2, <2>1, <2>2 DEF KnowsClose, Result, Backed
<1> QED
  BY <1>1, <1>3, <1>4 DEF Shutdown

\* A call of the registry has begun, so no close is going on.
LEMMA InstallingClosesNothing ==
  ASSUME ObservabilityInv, NEW t \in Threads, InstallStep(t) \/ InterruptInstall(t)
  PROVE  fac[t].op # "close"
<1>1. reg[t].pc \notin {"idle", "done"}
  BY DEF InstallStep, Acquire, FoundOther, FoundTwin, FoundSelf, FoundNone, Look, Decide, Set,
     Record, Discard, Discarded, Release, InterruptInstall
<1> QED
  BY <1>1 DEF ObservabilityInv, KnowsClose

\* What the facades of other threads do is nothing to the close of t.
LEMMA OtherCloseStep ==
  ASSUME RegistryInv, BundleInv, ObservabilityInv, [RegistryNext]_processVars,
         NEW t \in Threads, NEW u \in Threads, u # t, fac'[u] = fac[u],
         ThreadStep(t) \/ UNCHANGED processVars
  PROVE  KnowsClose(u)'
<1>1. /\ reg'[u] = reg[u] /\ call'[u] = call[u] /\ outcome'[u] = outcome[u]
  BY OthersUntouched DEF processVars, bundleVars, registryVars
<1> QED
  BY <1>1, CloseStays

LEMMA CloseStep ==
  ASSUME RegistryInv, BundleInv, ObservabilityInv, ObservabilityNext, NEW u \in Threads
  PROVE  KnowsClose(u)'
<1>t. ObservabilityTypeOK /\ [RegistryNext]_processVars
  BY FacadeStepsAreRegistrySteps DEF ObservabilityInv
<1>1. CASE ForeignStep
  <2>1. fac' = fac /\ reg' = reg /\ call' = call /\ outcome' = outcome
    BY <1>1 DEF ForeignStep, SetForeign, facadeVars, bundleVars
  <2> QED
    BY <1>t, <2>1, CloseStays
<1>2. ASSUME NEW t \in Threads, ProcessStep(t), u # t PROVE KnowsClose(u)'
  <2>1. fac'[u] = fac[u]
    BY <1>t, <1>2 DEF ProcessStep, InstallGlobal, ForceFlush, Close, Meter, FacadeStep,
       AssignBundle, InstallRaised, MarkGlobal, Closed, InnerStep, InterruptFacade, facadeVars,
       ObservabilityTypeOK
  <2> QED
    BY <1>t, <1>2, <2>1, FacadeIsRegistry, OtherCloseStep
<1>3. ASSUME ProcessStep(u) PROVE KnowsClose(u)'
  <2>1. ASSUME NEW f \in Facades, InstallGlobal(u, f) PROVE KnowsClose(u)'
    BY <1>t, <2>1 DEF InstallGlobal, KnowsClose, ObservabilityTypeOK
  <2>2. ASSUME NEW f \in Facades, ForceFlush(u, f) PROVE KnowsClose(u)'
    BY <2>2, OutsideIsFrame DEF ForceFlush, Ready, facadeVars, KnowsClose
  <2>3. ASSUME NEW f \in Facades, NEW strict \in BOOLEAN, Close(u, f, strict) PROVE KnowsClose(u)'
    BY <2>3, CloseBegins
  <2>4. ASSUME NEW f \in Facades, NEW n \in Meters, Meter(u, f, n) PROVE KnowsClose(u)'
    BY <2>4, OutsideIsFrame DEF Meter, Ready, KnowsClose
  <2>5. CASE FacadeStep(u) \/ InterruptFacade(u)
    <3>1. CASE AssignBundle(u)
      <4>1. fac' = [fac EXCEPT ![u].op = "mark"] /\ fac[u] \in FacFrame
        BY <1>t, <3>1 DEF AssignBundle, ObservabilityTypeOK
      <4>2. fac'[u].op = "mark"
        BY <1>t, <4>1 DEF ObservabilityTypeOK, FacFrame
      <4> QED
        BY <4>2 DEF KnowsClose
    <3>2. CASE fac' = [fac EXCEPT ![u] = Outside]
      <4>1. fac'[u].op = "idle"
        BY <1>t, <3>2, OutsideIsFrame DEF ObservabilityTypeOK
      <4> QED
        BY <4>1 DEF KnowsClose
    <3> QED
      BY <2>5, <3>1, <3>2 DEF FacadeStep, InstallRaised, MarkGlobal, Closed, InterruptFacade
  <2>6. ASSUME InstallStep(u) \/ InterruptInstall(u), UNCHANGED facadeVars PROVE KnowsClose(u)'
    BY <2>6, InstallingClosesNothing DEF facadeVars, KnowsClose
  <2>7. ASSUME CallStep(u) \/ Interrupt(u), UNCHANGED registryVars, UNCHANGED facadeVars
        PROVE  KnowsClose(u)'
    BY <1>t, <2>7, OwnCloseStep DEF facadeVars
  <2> QED
    BY <1>3, <2>1, <2>2, <2>3, <2>4, <2>5, <2>6, <2>7 DEF ProcessStep, InnerStep
<1> QED
  BY <1>1, <1>2, <1>3, NextIsProcessStep

-----------------------------------------------------------------------------
(* A close that has returned, and the flag of a facade.                     *)

LEMMA ClosedStep ==
  ASSUME RegistryInv, BundleInv, ObservabilityInv, ObservabilityNext
  PROVE  /\ StrictCloseHonest'
         /\ \A t \in Threads : closed'[t].kind = "report" => closed'[t].bundle \in Bundles
<1>t. ObservabilityTypeOK /\ [RegistryNext]_processVars
  BY FacadeStepsAreRegistrySteps DEF ObservabilityInv
<1> SUFFICES ASSUME NEW u \in Threads, closed'[u].kind = "report"
             PROVE  /\ closed'[u].bundle \in Bundles
                    /\ closed'[u].strict => \A s \in Signals :
                         /\ "ok" \in flushes'[closed'[u].bundle][s]
                         /\ "ok" \in shutdowns'[closed'[u].bundle][s]
  BY DEF StrictCloseHonest
<1>1. CASE closed'[u] = closed[u]
  <2>1. closed[u].bundle \in Bundles
    BY <1>1 DEF ObservabilityInv
  <2>2. closed[u].strict => \A s \in Signals :
          "ok" \in flushes[closed[u].bundle][s] /\ "ok" \in shutdowns[closed[u].bundle][s]
    BY <1>1 DEF ObservabilityInv, StrictCloseHonest
  <2> QED
    BY <1>t, <1>1, <2>1, <2>2, OutcomesStay
<1>2. CASE Closed(u)
  <2> DEFINE r == outcome[u].report
             b == fac[u].facade
  <2>1. /\ closed'[u].bundle = b /\ closed'[u].strict = fac[u].strict
        /\ outcome[u].kind # "interrupted" /\ (fac[u].strict => Clean(r))
        /\ fac[u].op = "close" /\ call[u] = Idle /\ UNCHANGED processVars
    BY <1>t, <1>2 DEF Closed, Closing, ObservabilityTypeOK
  <2>2. b \in Bundles
    BY <2>1 DEF ObservabilityInv, KnowsInstalled, Facades
  <2>3. Backed(r, b)
    BY <2>1 DEF ObservabilityInv, KnowsClose, Idle, Enter
  <2>4. UNCHANGED <<flushes, shutdowns>>
    BY <2>1 DEF processVars, bundleVars
  <2> QED
    BY <2>1, <2>2, <2>3, <2>4 DEF Backed, Clean, Verdict
<1>3. ASSUME NEW f \in Facades, NEW strict \in BOOLEAN, Close(u, f, strict) PROVE FALSE
  BY <1>t, <1>3 DEF Close, Closing, ObservabilityTypeOK
<1>4. ASSUME ~Closed(u), \A f \in Facades, strict \in BOOLEAN : ~Close(u, f, strict)
      PROVE  closed'[u] = closed[u]
  <2>1. CASE ForeignStep
    BY <2>1 DEF ForeignStep, facadeVars
  <2>2. ASSUME NEW t \in Threads, ProcessStep(t) PROVE closed'[u] = closed[u]
    BY <1>t, <1>4, <2>2 DEF ProcessStep, InstallGlobal, ForceFlush, Close, Meter, FacadeStep,
       AssignBundle, InstallRaised, MarkGlobal, Closed, InnerStep, InterruptFacade, facadeVars,
       ObservabilityTypeOK
  <2> QED
    BY <2>1, <2>2, NextIsProcessStep
<1> QED
  BY <1>1, <1>2, <1>3, <1>4

\* A facade that works on the installed bundle goes on doing so.
LEMMA InstalledBundleStays ==
  ASSUME RegistryInv, ObservabilityInv, ObservabilityNext, NEW f \in Facades,
         bundle[f] = installation, installation # NoBundle
  PROVE  bundle'[f] = installation' /\ installation' # NoBundle
<1>t. ObservabilityTypeOK /\ [RegistryNext]_processVars
  BY FacadeStepsAreRegistrySteps DEF ObservabilityInv
<1>1. installation' = installation
  BY <1>t, InstallationStays DEF processVars, registryVars
<1>2. CASE bundle' = bundle
  BY <1>1, <1>2
<1>3. ASSUME NEW t \in Threads, AssignBundle(t) PROVE bundle'[f] = installation
  <2>1. answer[t].bundle = installation
    BY <1>3 DEF AssignBundle, ObservabilityInv, AnswersInstalled
  <2> QED
    BY <1>t, <1>3, <2>1 DEF AssignBundle, ObservabilityTypeOK
<1>4. ASSUME NEW t \in Threads, ProcessStep(t), ~AssignBundle(t) PROVE bundle' = bundle
  BY <1>4 DEF ProcessStep, InstallGlobal, ForceFlush, Close, Meter, FacadeStep, InstallRaised,
     MarkGlobal, Closed, InnerStep, InterruptFacade, facadeVars
<1>5. CASE ForeignStep
  BY <1>2, <1>5 DEF ForeignStep, facadeVars
<1> QED
  BY <1>1, <1>2, <1>3, <1>4, <1>5, NextIsProcessStep

LEMMA InstalledStep ==
  ASSUME RegistryInv, ObservabilityInv, ObservabilityNext, NEW u \in Threads
  PROVE  KnowsInstalled(u)'
<1>t. ObservabilityTypeOK
  BY DEF ObservabilityInv
<1>1. CASE fac'[u] = fac[u]
  <2>1. KnowsInstalled(u)
    BY DEF ObservabilityInv
  <2> QED
    BY <1>1, <2>1, InstalledBundleStays DEF KnowsInstalled, Facades
<1>2. CASE AssignBundle(u)
  <2>1. /\ fac'[u] = [fac[u] EXCEPT !.op = "mark"] /\ fac[u].facade \in Facades
        /\ bundle' = [bundle EXCEPT ![fac[u].facade] = answer[u].bundle]
        /\ answer[u].bundle = installation /\ installation # NoBundle
        /\ installation' = installation
    BY <1>t, <1>2 DEF AssignBundle, ObservabilityTypeOK, ObservabilityInv, KnowsInstalled,
       AnswersInstalled, processVars, registryVars
  <2>2. fac'[u].facade = fac[u].facade
    BY <1>t, <2>1 DEF ObservabilityTypeOK, FacFrame
  <2>3. bundle'[fac[u].facade] = installation
    BY <1>t, <2>1 DEF ObservabilityTypeOK
  <2> QED
    BY <2>1, <2>2, <2>3 DEF KnowsInstalled, Facades
<1>3. ASSUME NEW f \in Facades, InstallGlobal(u, f) PROVE KnowsInstalled(u)'
  BY <1>t, <1>3 DEF InstallGlobal, ObservabilityTypeOK, KnowsInstalled, Outside
<1>4. ASSUME NEW f \in Facades, NEW strict \in BOOLEAN, Close(u, f, strict)
      PROVE  KnowsInstalled(u)'
  BY <1>t, <1>4 DEF Close, ObservabilityTypeOK, KnowsInstalled, Facades
<1>5. CASE fac'[u] = Outside
  BY <1>5, OutsideIsFrame DEF KnowsInstalled
<1>6. CASE ForeignStep
  BY <1>1, <1>6 DEF ForeignStep, facadeVars
<1>7. ASSUME NEW t \in Threads, ProcessStep(t), u # t PROVE fac'[u] = fac[u]
  BY <1>t, <1>7 DEF ProcessStep, InstallGlobal, ForceFlush, Close, Meter, FacadeStep,
     AssignBundle, InstallRaised, MarkGlobal, Closed, InnerStep, InterruptFacade, facadeVars,
     ObservabilityTypeOK
<1>8. ASSUME ProcessStep(u) PROVE KnowsInstalled(u)'
  <2>1. CASE FacadeStep(u) \/ InterruptFacade(u)
    BY <1>t, <1>2, <1>5, <2>1 DEF FacadeStep, InstallRaised, MarkGlobal, Closed, InterruptFacade,
       ObservabilityTypeOK
  <2>2. CASE ~(FacadeStep(u) \/ InterruptFacade(u))
    BY <1>1, <1>3, <1>4, <1>8, <2>2 DEF ProcessStep, ForceFlush, Meter, InnerStep, facadeVars
  <2> QED
    BY <2>1, <2>2
<1> QED
  BY <1>1, <1>6, <1>7, <1>8, NextIsProcessStep

LEMMA FlagStep ==
  ASSUME RegistryInv, ObservabilityInv, ObservabilityNext, NEW f \in Facades
  PROVE  FlagKept(f)'
<1>t. ObservabilityTypeOK
  BY DEF ObservabilityInv
<1>1. CASE isGlobal'[f] = isGlobal[f]
  BY <1>1, InstalledBundleStays DEF FlagKept, ObservabilityInv
<1>2. ASSUME NEW t \in Threads, MarkGlobal(t) PROVE FlagKept(f)'
  <2>1. CASE f = fac[t].facade
    BY <1>2, <2>1, InstalledBundleStays DEF MarkGlobal, ObservabilityInv, KnowsInstalled, FlagKept
  <2>2. CASE f # fac[t].facade
    BY <1>t, <1>1, <1>2, <2>2 DEF MarkGlobal, ObservabilityTypeOK
  <2> QED
    BY <2>1, <2>2
<1>3. ASSUME NEW t \in Threads, ProcessStep(t), ~MarkGlobal(t) PROVE isGlobal' = isGlobal
  BY <1>3 DEF ProcessStep, InstallGlobal, ForceFlush, Close, Meter, FacadeStep, AssignBundle,
     InstallRaised, Closed, InnerStep, InterruptFacade, facadeVars
<1>4. CASE ForeignStep
  BY <1>1, <1>4 DEF ForeignStep, facadeVars
<1> QED
  BY <1>1, <1>2, <1>3, <1>4, NextIsProcessStep

-----------------------------------------------------------------------------
(* The inductive invariant of the process.                                  *)

LEMMA ObservabilityInvInit == ObservabilityInit => ObservabilityInv
<1> SUFFICES ASSUME ObservabilityInit PROVE ObservabilityInv
  OBVIOUS
<1>1. \A t \in Threads : fac[t] = Outside /\ fac[t].op = "idle" /\ answer[t] = NoAnswer
                          /\ closed[t] = Closing("none", NoBundle, FALSE)
  BY OutsideIsFrame DEF ObservabilityInit, RegistryInit
<1>2. ObservabilityTypeOK
  <2>1. Closing("none", NoBundle, FALSE) \in Closings
    BY ClosingIsClosing
  <2> QED
    BY <2>1, OutsideIsFrame DEF ObservabilityInit, ObservabilityTypeOK, Facades
<1>3. AnswersInstalled
  <2>1. NoAnswer.kind = "none"
    BY DEF NoAnswer, Answer
  <2> QED
    BY <1>1, <2>1 DEF AnswersInstalled
<1>4. \A t \in Threads : closed[t].kind = "none"
  BY <1>1 DEF Closing
<1>5. \A f \in Facades : FlagKept(f)
  BY DEF ObservabilityInit, FlagKept
<1> QED
  BY <1>1, <1>2, <1>3, <1>4, <1>5
  DEF ObservabilityInv, KnowsInstalled, KnowsClose, StrictCloseHonest

LEMMA ObservabilityInvStutters ==
  ASSUME ObservabilityInv, UNCHANGED allVars
  PROVE  ObservabilityInv'
BY DEF allVars, facadeVars, processVars, registryVars, bundleVars, ObservabilityInv,
   ObservabilityTypeOK, AnswersInstalled, StrictCloseHonest, KnowsInstalled, KnowsClose, Backed,
   FlagKept

LEMMA ObservabilityInvStep ==
  ASSUME RegistryInv, BundleInv, ObservabilityInv, [ObservabilityNext]_allVars
  PROVE  RegistryInv' /\ BundleInv' /\ ObservabilityInv'
<1>t. ObservabilityTypeOK /\ AnswersInstalled
  BY DEF ObservabilityInv
<1>n. [RegistryNext]_processVars
  BY <1>t, FacadeStepsAreRegistrySteps
<1>1. RegistryInv'
  BY <1>n, RegistryInvStep
<1>2. BundleInv'
  BY <1>n, BundlesStep, BundleInvStep DEF processVars
<1>3. CASE UNCHANGED allVars
  BY <1>1, <1>2, <1>3, ObservabilityInvStutters
<1>4. CASE ObservabilityNext
  <2>1. ObservabilityTypeOK'
    BY <1>4, ObservabilityTypeStep
  <2>2. AnswersInstalled'
    <3>1. CASE UNCHANGED processVars
      BY <1>t, <3>1 DEF processVars, registryVars, AnswersInstalled
    <3> QED
      BY <1>t, <1>n, <3>1, AnswersStep
  <2>3. /\ StrictCloseHonest'
        /\ \A t \in Threads : closed'[t].kind = "report" => closed'[t].bundle \in Bundles
    BY <1>4, ClosedStep
  <2>4. \A t \in Threads : KnowsInstalled(t)' /\ KnowsClose(t)'
    BY <1>4, InstalledStep, CloseStep
  <2>5. \A f \in Facades : FlagKept(f)'
    BY <1>4, FlagStep
  <2> QED
    BY <1>1, <1>2, <2>1, <2>2, <2>3, <2>4, <2>5 DEF ObservabilityInv, Facades
<1> QED
  BY <1>3, <1>4

-----------------------------------------------------------------------------
(* A bundle that dies is heard of.                                          *)

\* The steps of a process keep the bundle that a thread has asked for, the set
\* of closed bundles only grows, and a provider of the process stays.
LEMMA AskedStays ==
  ASSUME RegistryInv, BundleInv, [RegistryNext]_processVars, NEW t \in Threads,
         reg[t].bundle \in Bundles
  PROVE  reg'[t].bundle = reg[t].bundle
<1>t. RegistryTypeOK /\ NoBundle \notin Bundles
  BY BundleAssumption DEF RegistryInv
<1>1. reg[t].pc # "idle"
  BY <1>t DEF RegistryInv, Knows, Asked
<1>2. ASSUME NEW u \in Threads, NEW b \in Bundles, Install(u, b) PROVE reg'[t] = reg[t]
  BY <1>t, <1>1, <1>2 DEF Install, RegistryTypeOK
<1>3. ASSUME NEW u \in Threads, InstallStep(u) PROVE reg'[t].bundle = reg[t].bundle
  BY <1>t, <1>3, Moves
<1>4. ASSUME NEW u \in Threads, InterruptInstall(u) PROVE reg'[t].bundle = reg[t].bundle
  <2>1. PICK pc : Settle(u, pc, Interrupted)
    BY <1>4 DEF InterruptInstall
  <2>2. CASE t # u
    BY <1>t, <2>1, <2>2 DEF Settle, RegistryTypeOK
  <2> QED
    BY <1>t, <2>1, <2>2, SettleFields
<1>5. CASE UNCHANGED reg
  BY <1>5
<1> QED
  BY <1>2, <1>3, <1>4, <1>5, NextSteps DEF UseStep, SetForeign, registryVars, processVars

LEMMA EndedGrows ==
  ASSUME ObservabilityNext
  PROVE  ended \subseteq ended'
BY NextIsProcessStep DEF ForeignStep, ProcessStep, InstallGlobal, ForceFlush, Close, Meter,
   FacadeStep, AssignBundle, InstallRaised, MarkGlobal, Closed, InnerStep, InterruptFacade,
   facadeVars

LEMMA ProvidersStay ==
  ASSUME RegistryInv, [RegistryNext]_processVars, NEW s \in Signals, global[s] # Proxy
  PROVE  global'[s] # Proxy
<1>t. RegistryTypeOK
  BY DEF RegistryInv
<1>1. ASSUME NEW x \in Signals, NEW p, SetOnce(x, p) PROVE global'[s] = global[s]
  BY <1>t, <1>1 DEF SetOnce, RegistryTypeOK
<1>2. CASE UNCHANGED global
  BY <1>2
<1>3. ASSUME NEW t \in Threads, Set(t) PROVE global'[s] = global[s]
  <2>1. FlushOrder[reg[t].at] \in Signals
    BY <1>3, OrderIsSignal DEF Set
  <2> QED
    BY <1>1, <1>3, <2>1 DEF Set
<1>4. ASSUME NEW t \in Threads, InstallStep(t), ~Set(t) PROVE UNCHANGED global
  BY <1>4 DEF InstallStep, Acquire, FoundOther, FoundTwin, FoundSelf, FoundNone, Look,
     Decide, Record, Discard, Discarded, Release
<1>5. ASSUME NEW x \in Signals, SetForeign(x) PROVE global'[s] = global[s]
  BY <1>1, <1>5 DEF SetForeign
<1> QED
  BY <1>2, <1>3, <1>4, <1>5, NextSteps
  DEF Install, InterruptInstall, UseStep, registryVars, processVars

LEMMA LossStays ==
  ASSUME RegistryInv, [RegistryNext]_processVars, installation # NoBundle \/ Occupied
  PROVE  (installation # NoBundle \/ Occupied)'
<1>1. CASE installation # NoBundle
  BY <1>1, InstallationStays DEF processVars, registryVars
<1>2. CASE Occupied
  BY <1>2, ProvidersStay DEF Occupied
<1> QED
  BY <1>1, <1>2

\* Providers are shut down by the step of a call of shutdown, which leaves the
\* registry alone.
LEMMA TouchedByShutdown ==
  ASSUME RegistryInv, BundleInv, [RegistryNext]_processVars, NEW b \in Bundles,
         NEW s \in Signals, ~Touched(b, s), Touched(b, s)'
  PROVE  /\ UNCHANGED registryVars
         /\ \E t \in Threads : call[t].op = "shutdown" /\ call[t].bundle = b
<1>1. shutdowns' # shutdowns
  BY DEF Touched
<1>t. BundleTypeOK
  BY DEF BundleInv
<1>2. ASSUME NEW t \in Threads, UseStep(t) PROVE call[t].op = "shutdown" /\ call[t].bundle = b
  <2>1. ShutdownSignal(t) \/ Interrupt(t)
    BY <1>1, <1>2 DEF UseStep, Use, StartFlush, Shutdown, ReturnCached, StartShutdown, CallStep,
       EnterFlush, FlushSignal, BorrowFlag, ReturnFlags, Publish, ReturnReport
  <2>2. /\ call[t].op = "shutdown"
        /\ \E x, v : shutdowns' = [shutdowns EXCEPT ![call[t].bundle][x] = @ \cup {v}]
    BY <1>1, <2>1 DEF ShutdownSignal, Interrupt
  <2>3. call[t].bundle # b => shutdowns'[b] = shutdowns[b]
    BY <1>t, <2>2 DEF BundleTypeOK
  <2> QED
    BY <2>2, <2>3 DEF Touched
<1>3. ASSUME NEW t \in Threads, InstallStep(t) PROVE shutdowns' = shutdowns
  BY <1>3 DEF InstallStep, Acquire, FoundOther, FoundTwin, FoundSelf, FoundNone, Look, Decide,
     Set, Record, Discard, Discarded, Release, Shutdown, ReturnCached, StartShutdown, bundleVars
<1> QED
  BY <1>1, <1>2, <1>3, NextSteps
  DEF Install, InterruptInstall, SetForeign, UseStep, processVars, bundleVars

\* A bundle dies at the hand of a thread that discards it.
LEMMA Dying ==
  ASSUME RegistryInv, BundleInv, ObservabilityInv, DeathInv, ObservabilityNext,
         NEW b \in Bundles, Dead(b)', ~Dead(b)
  PROVE  /\ UNCHANGED registryVars
         /\ \E t \in Threads : reg[t].pc = "discarding" /\ reg[t].bundle = b
<1>t. [RegistryNext]_processVars
  BY FacadeStepsAreRegistrySteps DEF ObservabilityInv
<1>1. b \notin ended
  BY EndedGrows DEF Dead
<1>2. PICK s \in Signals : Touched(b, s)' /\ ~Touched(b, s)
  BY <1>1 DEF Dead
<1>3. PICK t \in Threads : call[t].op = "shutdown" /\ call[t].bundle = b
  BY <1>t, <1>2, TouchedByShutdown
<1>4. reg[t].pc = "discarding" /\ reg[t].bundle = b
  BY <1>1, <1>3 DEF DeathInv, KnowsWhy
<1> QED
  BY <1>t, <1>2, <1>4, TouchedByShutdown

\* A facade has the bundle it was made with, or the installed one.
LEMMA OwnStep ==
  ASSUME RegistryInv, ObservabilityInv, DeathInv, ObservabilityNext, NEW f \in Facades
  PROVE  bundle'[f] \in {f, installation'}
<1>t. ObservabilityTypeOK /\ NoBundle \notin Bundles
  BY BundleAssumption DEF ObservabilityInv
<1>1. CASE bundle[f] = installation
  <2>1. installation # NoBundle
    BY <1>t, <1>1 DEF ObservabilityTypeOK
  <2> QED
    BY <1>1, <2>1, InstalledBundleStays
<1>2. CASE bundle'[f] = bundle[f]
  BY <1>1, <1>2 DEF DeathInv
<1>3. ASSUME NEW t \in Threads, AssignBundle(t) PROVE bundle'[f] = bundle[f] \/ bundle'[f] = installation'
  <2>1. answer[t].bundle = installation /\ installation' = installation
    BY <1>3 DEF AssignBundle, ObservabilityInv, AnswersInstalled, processVars, registryVars
  <2> QED
    BY <1>t, <1>3, <2>1 DEF AssignBundle, ObservabilityTypeOK
<1>4. ASSUME NEW t \in Threads, ProcessStep(t), ~AssignBundle(t) PROVE bundle' = bundle
  BY <1>4 DEF ProcessStep, InstallGlobal, ForceFlush, Close, Meter, FacadeStep, InstallRaised,
     MarkGlobal, Closed, InnerStep, InterruptFacade, facadeVars
<1>5. CASE ForeignStep
  BY <1>2, <1>5 DEF ForeignStep, facadeVars
<1> QED
  BY <1>2, <1>3, <1>4, <1>5, NextIsProcessStep

\* What is dead has lost to somebody, and stays so.
LEMMA LostStep ==
  ASSUME RegistryInv, BundleInv, ObservabilityInv, DeathInv, ObservabilityNext, NEW b \in Bundles
  PROVE  Lost(b)'
<1> SUFFICES ASSUME Dead(b)'
             PROVE  /\ b # installation'
                    /\ (installation # NoBundle \/ Occupied)'
                    /\ \E t \in Threads : reg'[t].bundle = b
  BY DEF Lost
<1>t. [RegistryNext]_processVars
  BY FacadeStepsAreRegistrySteps DEF ObservabilityInv
<1>1. CASE ~Dead(b)
  <2>1. UNCHANGED registryVars
    BY <1>1, Dying
  <2>2. PICK t \in Threads : reg[t].pc = "discarding" /\ reg[t].bundle = b
    BY <1>1, Dying
  <2>3. b # installation /\ Justified(reg[t].verdict, b)
    BY <2>2 DEF RegistryInv, Knows, KnowsVerdict
  <2>4. installation # NoBundle \/ Occupied
    BY <2>3 DEF Justified
  <2> QED
    BY <1>t, <2>1, <2>2, <2>3, <2>4, LossStays DEF registryVars
<1>2. CASE Dead(b)
  <2>1. /\ b # installation
        /\ installation # NoBundle \/ Occupied
        /\ \E t \in Threads : reg[t].bundle = b
    BY <1>2 DEF DeathInv, Lost
  <2>2. ASSUME NEW t \in Threads, Record(t) PROVE b # installation'
    BY <1>2, <2>2 DEF Record, DeathInv, Barred
  <2>3. ASSUME installation' = installation PROVE b # installation'
    BY <2>1, <2>3
  <2>4. ASSUME NEW t \in Threads, InstallStep(t), ~Record(t) PROVE installation' = installation
    BY <2>4 DEF InstallStep, Acquire, FoundOther, FoundTwin, FoundSelf, FoundNone, Look, Decide,
       Set, Discard, Discarded, Release
  <2>5. b # installation'
    BY <1>t, <2>2, <2>3, <2>4, NextSteps
    DEF Install, InterruptInstall, UseStep, registryVars, SetForeign, processVars
  <2>6. \E t \in Threads : reg'[t].bundle = b
    BY <1>t, <2>1, AskedStays
  <2> QED
    BY <1>t, <2>1, <2>5, <2>6, LossStays
<1> QED
  BY <1>1, <1>2

\* A dead bundle does not come to be installed: the provider or the bundle that
\* it has lost to is found again.
LEMMA BarredStep ==
  ASSUME RegistryInv, BundleInv, ObservabilityInv, DeathInv, ObservabilityNext, NEW u \in Threads
  PROVE  Barred(u)'
<1>t. [RegistryNext]_processVars /\ RegistryTypeOK
  BY FacadeStepsAreRegistrySteps DEF ObservabilityInv, RegistryInv
<1>b. reg'[u].pc # "idle" => reg'[u].bundle \in Bundles
  BY <1>t, RegistryInvStep DEF RegistryInv, RegistryTypeOK, RegFrame, Knows, Asked
<1> SUFFICES ASSUME NEW b \in Bundles, b = reg'[u].bundle, Dead(b)',
                    reg'[u].pc \in {"look", "set", "record"}
             PROVE  /\ reg'[u].pc = "look"
                    /\ \/ reg'[u].foreign
                       \/ \E i \in 1..3 : i >= reg'[u].at /\ global'[FlushOrder[i]] # Proxy
  BY <1>b DEF Barred, Dead
<1>1. CASE reg'[u] = reg[u]
  <2>1. reg[u].bundle = b /\ reg[u].pc \in InLock
    BY <1>1 DEF InLock
  <2>2. Dead(b)
    <3>1. ASSUME NEW t \in Threads, reg[t].pc = "discarding" PROVE FALSE
      <4>1. t # u /\ reg[t].pc \in InLock
        BY <1>1, <3>1 DEF InLock
      <4> QED
        BY <2>1, <4>1, Alone
    <3> QED
      BY <3>1, Dying
  <2>3. /\ reg[u].pc = "look"
        /\ \/ reg[u].foreign
           \/ \E i \in 1..3 : i >= reg[u].at /\ global[FlushOrder[i]] # Proxy
    BY <1>1, <2>1, <2>2 DEF DeathInv, Barred
  <2> QED
    BY <1>1, <1>t, <2>3, OrderIsSignal, ProvidersStay
<1>2. CASE reg'[u] # reg[u]
  <2>1. FoundNone(u) \/ Look(u) \/ Decide(u) \/ Set(u)
    <3>1. ASSUME NEW t \in Threads, t # u, ThreadStep(t) PROVE reg'[u] = reg[u]
      BY <3>1, OthersUntouched
    <3>2. ASSUME NEW c \in Bundles, Install(u, c) PROVE FALSE
      BY <1>t, <3>2 DEF Install, Asking, RegistryTypeOK
    <3>3. ASSUME NEW pc, NEW a, Settle(u, pc, a), pc \in {"discard", "release", "done"} PROVE FALSE
      BY <1>t, <3>3, SettleFields
    <3>4. ASSUME NEW pc, GoTo(u, pc), pc \in {"check", "discarding", "done"} PROVE FALSE
      BY <1>t, <3>4, GoToFields
    <3>5. ~InterruptInstall(u)
      BY <3>3 DEF InterruptInstall
    <3>6. InstallStep(u)
      BY <1>t, <1>2, <3>1, <3>2, <3>5, NextSteps
      DEF ThreadStep, UseStep, SetForeign, registryVars, processVars
    <3> QED
      BY <3>3, <3>4, <3>6 DEF InstallStep, Acquire, FoundOther, FoundTwin, FoundSelf, Record,
         Discard, Discarded, Release
  <2>2. reg[u].bundle = b
    <3>1. reg[u].pc # "idle"
      BY <2>1 DEF FoundNone, Look, Decide, Set
    <3> QED
      BY <1>t, <3>1, AskedIsBundle, AskedStays
  <2>3. Dead(b)
    BY <1>2, Dying DEF registryVars
  <2>4. reg[u] \in RegFrame
    BY <1>t DEF RegistryTypeOK
  <2>5. CASE FoundNone(u)
    <3>1. reg[u].pc = "check" /\ installation = NoBundle /\ GoTo(u, "look") /\ global' = global
      BY <2>5 DEF FoundNone
    <3>2. reg'[u].pc = "look" /\ reg'[u].at = 1
      BY <1>t, <3>1, GoToFields DEF RegistryInv, Knows, KnowsProviders
    <3>3. PICK s \in Signals : global[s] # Proxy
      BY <2>3, <3>1 DEF DeathInv, Lost, Occupied
    <3>4. \E i \in 1..3 : global'[FlushOrder[i]] # Proxy
      BY <3>1, <3>3, EverySignal
    <3> QED
      BY <3>2, <3>4
  <2>6. CASE Look(u)
    <3>1. /\ reg[u].pc = "look" /\ reg[u].at \in 1..3 /\ global' = global
          /\ reg'[u].pc = "look" /\ reg'[u].at = reg[u].at + 1
          /\ reg'[u].foreign = (reg[u].foreign \/ global[FlushOrder[reg[u].at]] # Proxy)
      BY <1>t, <2>4, <2>6 DEF Look, RegistryTypeOK, RegFrame
    <3>2. CASE reg[u].foreign
      BY <3>1, <3>2
    <3>3. CASE ~reg[u].foreign
      <4>1. PICK i \in 1..3 : i >= reg[u].at /\ global[FlushOrder[i]] # Proxy
        BY <2>2, <2>3, <3>1, <3>3 DEF DeathInv, Barred
      <4>2. CASE i = reg[u].at
        BY <3>1, <4>1, <4>2
      <4>3. CASE i # reg[u].at
        <5>1. i >= reg'[u].at
          BY <3>1, <4>1, <4>3
        <5> QED
          BY <3>1, <4>1, <5>1
      <4> QED
        BY <4>2, <4>3
    <3> QED
      BY <3>2, <3>3
  <2>7. CASE Decide(u)
    <3>1. reg[u].pc = "look" /\ reg[u].at = 4
      BY <2>7 DEF Decide
    <3>2. reg[u].foreign
      BY <2>2, <2>3, <3>1 DEF DeathInv, Barred
    <3>3. Settle(u, "discard", Conflict)
      BY <2>7, <3>2 DEF Decide
    <3> QED
      BY <1>t, <3>3, SettleFields
  <2>8. CASE Set(u)
    BY <2>2, <2>3, <2>8 DEF Set, DeathInv, Barred
  <2> QED
    BY <2>1, <2>5, <2>6, <2>7, <2>8
<1> QED
  BY <1>1, <1>2

\* A call of shutdown goes on for the reason that it was made for.
LEMMA WhyStep ==
  ASSUME RegistryInv, BundleInv, ObservabilityInv, DeathInv, ObservabilityNext, NEW u \in Threads
  PROVE  KnowsWhy(u)'
<1> SUFFICES ASSUME call'[u].op = "shutdown"
             PROVE  \/ call'[u].bundle \in ended'
                    \/ reg'[u].pc = "discarding" /\ call'[u].bundle = reg'[u].bundle
  BY DEF KnowsWhy
<1>t. /\ ObservabilityTypeOK /\ RegistryTypeOK /\ BundleTypeOK
      /\ [RegistryNext]_processVars /\ ended \subseteq ended'
  BY FacadeStepsAreRegistrySteps, EndedGrows DEF ObservabilityInv, RegistryInv, BundleInv
<1>i. Idle.op = "idle"
  BY DEF Idle, Enter
<1>1. ASSUME call'[u].op = call[u].op, call'[u].bundle = call[u].bundle, reg'[u] = reg[u]
      PROVE  KnowsWhy(u)'
  BY <1>t, <1>1 DEF DeathInv, KnowsWhy
<1>2. ASSUME UNCHANGED processVars \/ ForeignStep PROVE KnowsWhy(u)'
  BY <1>1, <1>2 DEF processVars, bundleVars, registryVars, ForeignStep, SetForeign, KnowsWhy
<1>3. ASSUME NEW t \in Threads, ProcessStep(t), t # u PROVE KnowsWhy(u)'
  <2>1. CASE ThreadStep(t)
    BY <1>1, <1>3, <2>1, OthersUntouched
  <2> QED
    BY <1>t, <1>2, <1>3, <2>1, FacadeIsRegistry
<1>4. ASSUME NEW f \in Facades, InstallGlobal(u, f) PROVE FALSE
  BY <1>i, <1>4 DEF InstallGlobal, Install, bundleVars
<1>5. ASSUME NEW f \in Facades, ForceFlush(u, f) PROVE FALSE
  BY <1>t, <1>5 DEF ForceFlush, StartFlush, Enter, BundleTypeOK
<1>6. ASSUME NEW f \in Facades, NEW strict \in BOOLEAN, Close(u, f, strict)
      PROVE  call'[u].bundle \in ended'
  <2>1. StartShutdown(u, bundle[f])
    BY <1>i, <1>6 DEF Close, Shutdown, ReturnCached
  <2>2. call'[u].bundle = bundle[f]
    BY <1>t, <2>1 DEF StartShutdown, Enter, BundleTypeOK
  <2> QED
    BY <1>6, <2>2 DEF Close
<1>7. ASSUME NEW f \in Facades, NEW n \in Meters, Meter(u, f, n) PROVE UNCHANGED processVars
  BY <1>7 DEF Meter
<1>8. ASSUME FacadeStep(u) \/ InterruptFacade(u) PROVE UNCHANGED processVars
  BY <1>8 DEF FacadeStep, AssignBundle, InstallRaised, MarkGlobal, Closed, InterruptFacade
<1>9. ASSUME InstallStep(u) PROVE KnowsWhy(u)'
  <2>1. CASE Discard(u)
    <3>1. StartShutdown(u, reg[u].bundle) /\ GoTo(u, "discarding")
      BY <1>i, <2>1 DEF Discard, Shutdown, ReturnCached
    <3>2. call'[u].bundle = reg[u].bundle
      BY <1>t, <3>1 DEF StartShutdown, Enter, BundleTypeOK
    <3> QED
      BY <1>t, <3>1, <3>2, GoToFields DEF KnowsWhy
  <2>2. CASE ~Discard(u)
    <3>1. UNCHANGED bundleVars /\ (reg[u].pc # "discarding" \/ call[u] = Idle)
      BY <1>9, <2>2 DEF InstallStep, Acquire, FoundOther, FoundTwin, FoundSelf, FoundNone, Look,
         Decide, Set, Record, Discarded, Release
    <3> QED
      BY <1>t, <1>i, <3>1 DEF bundleVars, DeathInv, KnowsWhy
  <2> QED
    BY <2>1, <2>2
<1>10. ASSUME InterruptInstall(u) PROVE FALSE
  BY <1>i, <1>10 DEF InterruptInstall, bundleVars
<1>11. ASSUME CallStep(u), UNCHANGED registryVars PROVE KnowsWhy(u)'
  <2>1. call[u].op = "shutdown"
    <3>1. CASE FlushSignal(u) \/ BorrowFlag(u) \/ ShutdownSignal(u) \/ Publish(u)
      BY <3>1, FrameMoves
    <3>2. CASE EnterFlush(u)
      BY <3>2 DEF EnterFlush
    <3>3. CASE ReturnFlags(u) \/ ReturnReport(u)
      BY <1>t, <1>i, <3>3 DEF ReturnFlags, ReturnReport, BundleTypeOK
    <3> QED
      BY <1>11, <3>1, <3>2, <3>3 DEF CallStep
  <2>2. call'[u].bundle = call[u].bundle
    BY <1>i, <1>11, <2>1, ShutdownGoesOn
  <2> QED
    BY <1>1, <1>11, <2>1, <2>2 DEF registryVars
<1>12. ASSUME Interrupt(u) PROVE FALSE
  BY <1>t, <1>i, <1>12 DEF Interrupt, BundleTypeOK
<1>13. ASSUME ProcessStep(u) PROVE KnowsWhy(u)'
  BY <1>2, <1>4, <1>5, <1>6, <1>7, <1>8, <1>9, <1>10, <1>11, <1>12, <1>13
  DEF ProcessStep, InnerStep, KnowsWhy
<1> QED
  BY <1>2, <1>3, <1>13, NextIsProcessStep DEF KnowsWhy

\* A thread that is neither installing nor about to know what came of it.
LEMMA LossKept ==
  ASSUME RegistryInv, BundleInv, ObservabilityInv, DeathInv, ObservabilityNext, NEW u \in Threads,
         reg'[u] = reg[u], answer'[u] = answer[u],
         fac'[u] = fac[u] \/ (fac[u].op # "install" /\ fac'[u].op # "install")
  PROVE  KnowsLoss(u)'
<1>t. /\ [RegistryNext]_processVars /\ NoBundle \notin Bundles /\ KnowsLoss(u)
      /\ ObservabilityTypeOK
  BY FacadeStepsAreRegistrySteps, BundleAssumption DEF ObservabilityInv, DeathInv
<1>b. reg[u].pc # "idle" => reg[u].bundle \in Bundles
  BY AskedIsBundle
<1>1. installation # NoBundle => installation' = installation
  BY <1>t, InstallationStays DEF processVars, registryVars
<1>2. fac'[u].op = "install" => reg[u].bundle \in {fac'[u].facade, installation'}
  BY <1>t, <1>b, <1>1 DEF KnowsLoss
<1>3. ASSUME reg[u].pc # "idle", reg[u].bundle # installation'
      PROVE  Heard(u)' \/ bundle'[reg[u].bundle] = installation'
  <2>1. reg[u].bundle # installation
    BY <1>t, <1>b, <1>1, <1>3
  <2>2. CASE Heard(u)
    BY <2>2 DEF Heard
  <2>3. CASE bundle[reg[u].bundle] = installation
    <3>1. installation # NoBundle
      BY <1>t, <1>b, <1>3, <2>3 DEF ObservabilityTypeOK, Facades
    <3> QED
      BY <1>b, <1>3, <2>3, <3>1, InstalledBundleStays DEF Facades
  <2> QED
    BY <1>t, <1>3, <2>1, <2>2, <2>3 DEF KnowsLoss
<1> QED
  BY <1>t, <1>2, <1>3 DEF KnowsLoss

\* A thread that is inside of the registry goes on installing for its facade.
LEMMA LossInside ==
  ASSUME RegistryInv, BundleInv, ObservabilityInv, DeathInv, ObservabilityNext, NEW u \in Threads,
         InstallStep(u) \/ InterruptInstall(u), fac'[u] = fac[u]
  PROVE  KnowsLoss(u)'
<1>t. /\ [RegistryNext]_processVars /\ NoBundle \notin Bundles /\ KnowsLoss(u)
      /\ RegistryTypeOK /\ RegistryInv'
  BY FacadeStepsAreRegistrySteps, BundleAssumption, RegistryInvStep
  DEF ObservabilityInv, DeathInv, RegistryInv
<1>1. reg[u].pc \notin {"idle", "done"}
  BY DEF InstallStep, Acquire, FoundOther, FoundTwin, FoundSelf, FoundNone, Look, Decide, Set,
     Record, Discard, Discarded, Release, InterruptInstall
<1>2. fac'[u].op = "install"
  BY <1>t, <1>1 DEF KnowsLoss
<1>3. reg[u].bundle \in Bundles /\ reg'[u].bundle = reg[u].bundle
  BY <1>t, <1>1, AskedIsBundle, AskedStays
<1>4. reg'[u].pc # "idle"
  BY <1>t, <1>3 DEF RegistryInv, Knows, Asked
<1>5. installation # NoBundle => installation' = installation
  BY <1>t, InstallationStays DEF processVars, registryVars
<1>6. reg'[u].bundle \in {fac'[u].facade, installation'}
  BY <1>t, <1>2, <1>3, <1>5 DEF KnowsLoss
<1>7. reg'[u].pc = "done" => answer'[u].kind # "none"
  <2>1. ASSUME NEW pc, NEW a, Settle(u, pc, a), pc \in {"discard", "release"} PROVE reg'[u].pc # "done"
    BY <1>t, <2>1, SettleFields
  <2>2. ASSUME NEW pc, GoTo(u, pc), pc \in {"check", "look", "discarding"} PROVE reg'[u].pc # "done"
    BY <1>t, <2>2, GoToFields
  <2>3. CASE Look(u) \/ Decide(u) \/ Set(u)
    <3>1. reg[u] \in RegFrame
      BY <1>t DEF RegistryTypeOK
    <3> QED
      BY <1>t, <2>1, <2>3, <3>1 DEF Look, Decide, Set, RegistryTypeOK, RegFrame
  <2>4. CASE Release(u)
    <3>1. answer'[u] = reg[u].verdict
      BY <1>t, <2>4 DEF Release, RegistryTypeOK
    <3>2. reg[u].verdict = Interrupted \/ Justified(reg[u].verdict, reg[u].bundle)
      BY <2>4 DEF Release, RegistryInv, Knows, KnowsVerdict
    <3> QED
      BY <3>1, <3>2 DEF Justified, Interrupted, Conflict, Answer
  <2>5. CASE InterruptInstall(u)
    <3>1. Interrupted.kind = "interrupted"
      BY DEF Interrupted, Answer
    <3> QED
      BY <1>t, <2>1, <2>5, <3>1 DEF InterruptInstall, RegistryTypeOK
  <2> QED
    BY <2>1, <2>2, <2>3, <2>4, <2>5 DEF InstallStep, Acquire, FoundOther, FoundTwin, FoundSelf,
       FoundNone, Record, Discard, Discarded
<1> QED
  BY <1>2, <1>4, <1>6, <1>7 DEF KnowsLoss, Heard

\* A facade's bundle that has lost is replaced, or the caller hears of it.
LEMMA LossStep ==
  ASSUME RegistryInv, BundleInv, ObservabilityInv, DeathInv, ObservabilityNext, NEW u \in Threads
  PROVE  KnowsLoss(u)'
<1>t. ObservabilityTypeOK /\ RegistryTypeOK /\ KnowsLoss(u)
  BY DEF ObservabilityInv, RegistryInv, DeathInv
<1>1. CASE ForeignStep
  BY <1>1, LossKept DEF ForeignStep, SetForeign, facadeVars
<1>2. ASSUME NEW t \in Threads, ProcessStep(t), t # u PROVE KnowsLoss(u)'
  <2>1. reg'[u] = reg[u] /\ answer'[u] = answer[u]
    BY <1>t, <1>2, FacadeIsRegistry, OthersUntouched DEF processVars, registryVars
  <2>2. fac'[u] = fac[u]
    BY <1>t, <1>2 DEF ProcessStep, InstallGlobal, ForceFlush, Close, Meter, FacadeStep,
       AssignBundle, InstallRaised, MarkGlobal, Closed, InnerStep, InterruptFacade, facadeVars,
       ObservabilityTypeOK
  <2> QED
    BY <2>1, <2>2, LossKept
<1>3. ASSUME NEW f \in Facades, InstallGlobal(u, f) PROVE KnowsLoss(u)'
  <2>1. fac'[u].op = "install" /\ fac'[u].facade = f
    BY <1>t, <1>3 DEF InstallGlobal, ObservabilityTypeOK, Outside
  <2>2. reg'[u].pc = "wait" /\ reg'[u].bundle = bundle[f] /\ installation' = installation
    BY <1>t, <1>3 DEF InstallGlobal, Install, Asking, RegistryTypeOK
  <2>3. bundle[f] \in {f, installation}
    BY DEF DeathInv
  <2> QED
    BY <2>1, <2>2, <2>3 DEF KnowsLoss, Heard
<1>4. ASSUME NEW f \in Facades, ForceFlush(u, f) PROVE KnowsLoss(u)'
  BY <1>4, LossKept DEF ForceFlush, registryVars, facadeVars
<1>5. ASSUME NEW f \in Facades, NEW strict \in BOOLEAN, Close(u, f, strict) PROVE KnowsLoss(u)'
  <2>1. fac[u].op # "install" /\ fac'[u].op # "install"
    BY <1>t, <1>5, OutsideIsFrame DEF Close, Ready, ObservabilityTypeOK
  <2> QED
    BY <1>5, <2>1, LossKept DEF Close, registryVars
<1>6. ASSUME NEW f \in Facades, NEW n \in Meters, Meter(u, f, n) PROVE KnowsLoss(u)'
  BY <1>6, LossKept DEF Meter, processVars, registryVars
<1>7. CASE AssignBundle(u)
  <2>1. /\ answer[u].bundle = installation /\ fac[u].op = "install" /\ reg[u].pc = "done"
        /\ fac[u].facade \in Facades /\ UNCHANGED <<reg, answer, installation>>
        /\ bundle' = [bundle EXCEPT ![fac[u].facade] = answer[u].bundle]
    BY <1>7 DEF AssignBundle, ObservabilityInv, AnswersInstalled, KnowsInstalled, processVars,
       registryVars
  <2>2. bundle'[fac[u].facade] = installation
    BY <1>t, <2>1 DEF ObservabilityTypeOK
  <2>3. fac'[u].op = "mark"
    BY <1>t, <1>7 DEF AssignBundle, ObservabilityTypeOK, FacFrame
  <2>4. reg[u].bundle \in {fac[u].facade, installation}
    BY <1>t, <2>1 DEF KnowsLoss
  <2> QED
    BY <1>t, <2>1, <2>2, <2>3, <2>4 DEF KnowsLoss
<1>8. CASE InstallRaised(u)
  <2>1. /\ fac'[u].op = "idle" /\ reg[u].pc = "done" /\ answer[u].kind # "bundle"
        /\ UNCHANGED <<reg, answer>>
    BY <1>t, <1>8, OutsideIsFrame DEF InstallRaised, ObservabilityTypeOK, processVars, registryVars
  <2>2. answer[u].kind \in {"conflict", "interrupted"}
    BY <1>t, <2>1 DEF KnowsLoss, RegistryTypeOK, Answers
  <2> QED
    BY <2>1, <2>2 DEF KnowsLoss, Heard
<1>9. CASE MarkGlobal(u) \/ Closed(u)
  <2>1. /\ fac[u].op # "install" /\ fac'[u].op # "install" /\ UNCHANGED <<reg, answer>>
    BY <1>t, <1>9, OutsideIsFrame DEF MarkGlobal, Closed, ObservabilityTypeOK, processVars,
       registryVars
  <2> QED
    BY <2>1, LossKept
<1>10. CASE InterruptFacade(u)
  <2>1. /\ fac'[u].op = "idle" /\ reg[u].pc = "done" /\ u \in Interruptible
        /\ UNCHANGED <<reg, answer>>
    BY <1>t, <1>10, OutsideIsFrame DEF InterruptFacade, ObservabilityTypeOK, processVars,
       registryVars
  <2> QED
    BY <1>t, <2>1 DEF KnowsLoss, Heard
<1>11. ASSUME InstallStep(u) \/ InterruptInstall(u), UNCHANGED facadeVars PROVE KnowsLoss(u)'
  BY <1>11, LossInside DEF facadeVars
<1>12. ASSUME UNCHANGED registryVars, UNCHANGED facadeVars PROVE KnowsLoss(u)'
  BY <1>12, LossKept DEF registryVars, facadeVars
<1>13. ASSUME ProcessStep(u) PROVE KnowsLoss(u)'
  BY <1>3, <1>4, <1>5, <1>6, <1>7, <1>8, <1>9, <1>10, <1>11, <1>12, <1>13
  DEF ProcessStep, FacadeStep, InnerStep
<1> QED
  BY <1>1, <1>2, <1>13, NextIsProcessStep

LEMMA DeathInvInit == ObservabilityInit => DeathInv
<1> SUFFICES ASSUME ObservabilityInit PROVE DeathInv
  OBVIOUS
<1>1. \A b \in Bundles : ~Dead(b)
  BY DEF ObservabilityInit, RegistryInit, BundleInit, Dead, Touched
<1>2. \A t \in Threads : call[t].op = "idle" /\ reg[t].pc = "idle" /\ fac[t].op = "idle"
  BY OutsideIsFrame
  DEF ObservabilityInit, RegistryInit, BundleInit, Idle, Enter, NotStarted, Asking
<1> QED
  BY <1>1, <1>2 DEF ObservabilityInit, DeathInv, KnowsWhy, KnowsLoss, Barred, Lost

LEMMA DeathInvStep ==
  ASSUME RegistryInv, BundleInv, ObservabilityInv, DeathInv, [ObservabilityNext]_allVars
  PROVE  DeathInv'
<1>1. CASE UNCHANGED allVars
  BY <1>1 DEF allVars, facadeVars, processVars, registryVars, bundleVars, DeathInv, KnowsWhy,
     KnowsLoss, Heard, Barred, Lost, Dead, Touched, Occupied
<1>2. CASE ObservabilityNext
  BY <1>2, WhyStep, LossStep, BarredStep, OwnStep, LostStep DEF DeathInv
<1> QED
  BY <1>1, <1>2

\* What is known of the registry, of the bundles and of the facades goes on
\* holding together, however the methods of Observability overlap.
THEOREM FacadesInvariant ==
  ObservabilitySpec => [](RegistryInv /\ BundleInv /\ ObservabilityInv)
<1>1. ObservabilityInit => RegistryInv /\ BundleInv /\ ObservabilityInv
  BY ObservabilityInvInit, RegistryInvInit, BundleInvInit DEF ObservabilityInit, RegistryInit
<1>2. RegistryInv /\ BundleInv /\ ObservabilityInv /\ [ObservabilityNext]_allVars
      => (RegistryInv /\ BundleInv /\ ObservabilityInv)'
  BY ObservabilityInvStep
<1> QED
  BY <1>1, <1>2, PTL DEF ObservabilitySpec

\* The fields of every facade, and what its methods have in hand, are of the
\* kinds that plugin.py gives them.
THEOREM ObservabilityTypeCorrect == ObservabilitySpec => []ObservabilityTypeOK
BY FacadesInvariant, PTL DEF ObservabilityInv

\* install_global_otel_provider assigns _bundle and _global in two steps, from
\* an answer that may be an error: is_global is never claimed by a facade whose
\* bundle is not the installed one, nor of a global that another bundle holds.
THEOREM FlagIsHonest == ObservabilitySpec => []GlobalFlagHonest
<1>1. RegistryInv /\ ObservabilityInv => GlobalFlagHonest
  <2> SUFFICES ASSUME RegistryInv, ObservabilityInv, NEW f \in Facades, isGlobal[f]
               PROVE  /\ bundle[f] = installation
                      /\ \A s \in Signals : global[s] \in {bundle[f], Foreign}
    BY DEF GlobalFlagHonest
  <2>1. bundle[f] = installation /\ installation # NoBundle
    BY DEF ObservabilityInv, FlagKept
  <2>2. \A s \in Signals : global[s] \in {installation} \cup Displaced(s)
    BY <2>1 DEF RegistryInv, GlobalsNeverMixed
  <2> QED
    BY <2>1, <2>2, DisplacedIsForeign
<1> QED
  BY <1>1, FacadesInvariant, PTL

\* What is known of the bundles that installations shut down goes on holding.
THEOREM DeathsInvariant == ObservabilitySpec => []DeathInv
<1>1. ObservabilityInit => DeathInv
  BY DeathInvInit
<1>2. RegistryInv /\ BundleInv /\ ObservabilityInv /\ DeathInv /\ [ObservabilityNext]_allVars
      => DeathInv'
  BY DeathInvStep
<1> QED
  BY <1>1, <1>2, FacadesInvariant, PTL DEF ObservabilitySpec

\* The registry shuts down a bundle that a facade still holds (a duplicate, or
\* one in conflict): that facade gets the installed bundle instead, which no
\* installation ever shuts down, or its caller gets an error.  Only close, or
\* an interrupt between answer and assignment, leaves a facade with a dead one.
THEOREM EveryDeathIsHeard == ObservabilitySpec => []DeathsAreHeard
<1>1. RegistryInv /\ ObservabilityInv /\ DeathInv => DeathsAreHeard
  <2> SUFFICES ASSUME RegistryInv, ObservabilityInv, DeathInv, NEW f \in Facades, Dead(bundle[f])
               PROVE  /\ ~isGlobal[f]
                      /\ \E t \in Threads : reg[t].bundle = bundle[f] /\ Heard(t)
    BY DEF DeathsAreHeard
  <2>1. bundle[f] \in Bundles /\ NoBundle \notin Bundles
    BY BundleAssumption DEF ObservabilityInv, ObservabilityTypeOK
  <2>2. bundle[f] # installation
    BY <2>1 DEF DeathInv, Lost
  <2>3. bundle[f] = f
    BY <2>2 DEF DeathInv
  <2>4. PICK t \in Threads : reg[t].bundle = f
    BY <2>1, <2>3 DEF DeathInv, Lost
  <2>5. reg[t].pc # "idle"
    BY <2>1, <2>3, <2>4 DEF RegistryInv, Knows, Asked
  <2>6. Heard(t)
    BY <2>2, <2>3, <2>4, <2>5 DEF DeathInv, KnowsLoss
  <2>7. ~isGlobal[f]
    BY <2>2 DEF ObservabilityInv, FlagKept
  <2> QED
    BY <2>3, <2>4, <2>6, <2>7
<1> QED
  BY <1>1, FacadesInvariant, DeathsInvariant, PTL

\* close(require_clean=True) that returns has seen every provider of the bundle
\* flushed and shut down, whatever other closes did to the report meanwhile.
THEOREM StrictClosesAreHonest == ObservabilitySpec => []StrictCloseHonest
BY FacadesInvariant, PTL DEF ObservabilityInv

\* The facades use the registry as it wants to be used: what the process does
\* is, to the registry and the bundles, a behaviour of GlobalRegistry.
THEOREM FacadesUseTheRegistry ==
  ObservabilitySpec => RegistryInit /\ [][RegistryNext]_processVars
<1>1. ObservabilityInit => RegistryInit
  BY DEF ObservabilityInit
<1>2. ObservabilityInv /\ [ObservabilityNext]_allVars => [RegistryNext]_processVars
  BY FacadeStepsAreRegistrySteps DEF ObservabilityInv
<1> QED
  BY <1>1, <1>2, FacadesInvariant, PTL DEF ObservabilitySpec

\* Thus the facades of a process share a register that is written once, as the
\* docstring of the registry says of its callers.
THEOREM FacadesShareARegister == ObservabilitySpec => IsRegister
<1>1. ObservabilityInit => Register!Init
  BY RegisterInit DEF ObservabilityInit
<1>2. RegistryInv /\ [RegistryNext]_processVars => [Register!Next]_(Register!vars)
  <2> SUFFICES ASSUME RegistryInv, [RegistryNext]_processVars
               PROVE  [Register!Next]_(Register!vars)
    OBVIOUS
  <2>1. CASE UNCHANGED processVars
    BY <2>1, RegisterStutters DEF processVars, registryVars, Occupied
  <2> QED
    BY <2>1, RegisterStep
<1> QED
  BY <1>1, <1>2, FacadesInvariant, FacadesUseTheRegistry, PTL
  DEF ObservabilitySpec, IsRegister, Register!Spec

\* close is for good: a bundle that is closed, and in no call, is left alone by
\* every facade that shares it, by force_flush and by late installations.
THEOREM FacadesCloseForGood == ObservabilitySpec => CloseIsFinal
<1>1. RegistryInv /\ BundleInv /\ [RegistryNext]_processVars =>
        [\A b \in Bundles : Settled(b) =>
           /\ Settled(b)'
           /\ report'[b] = report[b]
           /\ flushes'[b] = flushes[b]
           /\ shutdowns'[b] = shutdowns[b]]_bundleVars
  <2> SUFFICES ASSUME RegistryInv, BundleInv, [RegistryNext]_processVars
               PROVE  [BundleNext]_bundleVars
    BY SettledStep, SettledStays
  <2> QED
    BY BundlesStep DEF processVars
<1> QED
  BY <1>1, FacadesInvariant, FacadesUseTheRegistry, PTL DEF CloseIsFinal

=============================================================================
