------------------------ MODULE GlobalRegistryProofs ------------------------
(***************************************************************************)
(* Theorems about GlobalRegistry, for any threads, bundles, fingerprints   *)
(* and foreign providers.                                                  *)
(***************************************************************************)
EXTENDS GlobalRegistry, ProviderBundleProofs

(* A step of the process is a step of the bundles, or leaves them alone.    *)

\* The steps of thread t that leave the registry alone.
UseStep(t) ==
  /\ CallStep(t) \/ Interrupt(t) \/ \E b \in Bundles : Use(t, b)
  /\ UNCHANGED registryVars

LEMMA NextSteps ==
  ASSUME RegistryNext
  PROVE  \/ \E t \in Threads :
              \/ \E b \in Bundles : Install(t, b)
              \/ InstallStep(t)
              \/ InterruptInstall(t)
              \/ UseStep(t)
         \/ \E s \in Signals : SetForeign(s)
BY DEF RegistryNext, UseStep

LEMMA ShutdownIsNext ==
  ASSUME NEW t \in Threads, NEW b \in Bundles, Shutdown(t, b)
  PROVE  BundleNext
BY DEF BundleNext

\* The bundle that a thread has asked for is one.
LEMMA AskedIsBundle ==
  ASSUME RegistryInv, NEW t \in Threads, reg[t].pc # "idle"
  PROVE  reg[t].bundle \in Bundles
BY DEF RegistryInv, RegistryTypeOK, RegFrame, Knows, Asked

LEMMA BundlesStep ==
  ASSUME RegistryInv, RegistryNext
  PROVE  [BundleNext]_bundleVars
<1>1. CASE \E s \in Signals : SetForeign(s)
  BY <1>1 DEF SetForeign
<1>2. ASSUME NEW t \in Threads, NEW b \in Bundles, Install(t, b)
      PROVE  [BundleNext]_bundleVars
  BY <1>2 DEF Install
<1>3. ASSUME NEW t \in Threads, Discard(t) PROVE BundleNext
  BY <1>3, AskedIsBundle, ShutdownIsNext DEF Discard
<1>4. ASSUME NEW t \in Threads, InstallStep(t) PROVE [BundleNext]_bundleVars
  BY <1>3, <1>4 DEF InstallStep, Acquire, FoundOther, FoundTwin, FoundSelf, FoundNone,
     Look, Decide, Set, Record, Discarded, Release
<1>5. ASSUME NEW t \in Threads, InterruptInstall(t) PROVE [BundleNext]_bundleVars
  BY <1>5 DEF InterruptInstall
<1>6. ASSUME NEW t \in Threads, UseStep(t) PROVE BundleNext
  BY <1>6 DEF UseStep, Use, BundleNext
<1> QED
  BY <1>1, <1>2, <1>4, <1>5, <1>6, NextSteps

-----------------------------------------------------------------------------
(* Types.                                                                   *)

LEMMA AnswerIsAnswer ==
  /\ NoAnswer \in Answers /\ Conflict \in Answers /\ Interrupted \in Answers
  /\ \A b \in Bundles \cup {NoBundle} : Answer("bundle", b) \in Answers
BY DEF NoAnswer, Conflict, Interrupted, Answer, Answers

LEMMA AskingIsFrame ==
  ASSUME NEW pc \in {"idle", "wait"}, NEW b \in Bundles \cup {NoBundle}
  PROVE  Asking(pc, b) \in RegFrame
<1>1. 1 \in 1..4
  OBVIOUS
<1> QED
  BY <1>1, AnswerIsAnswer DEF Asking, RegFrame, Steps

LEMMA FramePc ==
  ASSUME NEW f \in RegFrame, NEW pc \in Steps
  PROVE  [f EXCEPT !.pc = pc] \in RegFrame
BY DEF RegFrame

LEMMA FrameSettled ==
  ASSUME NEW f \in RegFrame, NEW pc \in Steps, NEW a \in Answers
  PROVE  [f EXCEPT !.pc = pc, !.verdict = a] \in RegFrame
BY DEF RegFrame

LEMMA FrameLooked ==
  ASSUME NEW f \in RegFrame, f.at \in 1..3, NEW flag \in BOOLEAN
  PROVE  [f EXCEPT !.at = @ + 1, !.foreign = flag] \in RegFrame
<1>1. f.at + 1 \in 1..4
  OBVIOUS
<1> QED
  BY <1>1 DEF RegFrame

LEMMA FrameSetting ==
  ASSUME NEW f \in RegFrame
  PROVE  [f EXCEPT !.pc = "set", !.at = 1] \in RegFrame
<1>1. 1 \in 1..4
  OBVIOUS
<1> QED
  BY <1>1 DEF RegFrame, Steps

LEMMA FrameSet ==
  ASSUME NEW f \in RegFrame, f.at \in 1..3, NEW pc \in Steps
  PROVE  [f EXCEPT !.at = @ + 1, !.pc = pc] \in RegFrame
<1>1. f.at + 1 \in 1..4
  OBVIOUS
<1> QED
  BY <1>1 DEF RegFrame

LEMMA RegFrameFields ==
  ASSUME NEW f \in RegFrame
  PROVE  /\ f.pc \in Steps
         /\ f.bundle \in Bundles \cup {NoBundle}
         /\ f.at \in 1..4
         /\ f.foreign \in BOOLEAN
         /\ f.verdict \in Answers
BY DEF RegFrame

LEMMA RegistryTypeStep ==
  ASSUME RegistryInv, RegistryNext
  PROVE  RegistryTypeOK'
<1>t. RegistryTypeOK
  BY DEF RegistryInv
<1>0. CASE UNCHANGED registryVars
  BY <1>0, <1>t DEF registryVars, RegistryTypeOK
<1>1. ASSUME NEW s \in Signals, SetForeign(s) PROVE RegistryTypeOK'
  BY <1>1, <1>t DEF SetForeign, SetOnce, RegistryTypeOK
<1>2. ASSUME NEW t \in Threads, NEW b \in Bundles, Install(t, b) PROVE RegistryTypeOK'
  BY <1>2, <1>t, AskingIsFrame DEF Install, RegistryTypeOK
<1>3. ASSUME NEW t \in Threads, InstallStep(t) PROVE RegistryTypeOK'
  <2> DEFINE r == reg[t]
  <2>f. r \in RegFrame
    BY <1>t DEF RegistryTypeOK
  <2>p. \A pc \in Steps : [r EXCEPT !.pc = pc] \in RegFrame
    BY <2>f, FramePc
  <2>v. \A pc \in Steps, a \in Answers : [r EXCEPT !.pc = pc, !.verdict = a] \in RegFrame
    BY <2>f, FrameSettled
  <2>1. CASE Acquire(t)
    BY <2>1, <2>p, <1>t DEF Acquire, GoTo, Steps, RegistryTypeOK
  <2>2. CASE FoundOther(t)
    BY <2>2, <2>v, <1>t, AnswerIsAnswer DEF FoundOther, Settle, Steps, RegistryTypeOK
  <2>3. CASE FoundTwin(t) \/ FoundSelf(t)
    BY <2>3, <2>v, <1>t, AnswerIsAnswer
    DEF FoundTwin, FoundSelf, Settle, Steps, RegistryTypeOK
  <2>4. CASE FoundNone(t)
    BY <2>4, <2>p, <1>t DEF FoundNone, GoTo, Steps, RegistryTypeOK
  <2>5. CASE Look(t)
    <3> DEFINE flag == r.foreign \/ global[FlushOrder[r.at]] # Proxy
    <3>1. flag \in BOOLEAN /\ r.at \in 1..3
      BY <2>5, <2>f, RegFrameFields DEF Look
    <3>2. reg' = [reg EXCEPT ![t] = [r EXCEPT !.at = @ + 1, !.foreign = flag]]
      BY <2>5, <2>f DEF Look, RegFrame
    <3> HIDE DEF flag
    <3>3. [r EXCEPT !.at = @ + 1, !.foreign = flag] \in RegFrame
      BY <2>f, <3>1, FrameLooked
    <3> QED
      BY <2>5, <3>2, <3>3, <1>t DEF Look, RegistryTypeOK
  <2>6. CASE Decide(t)
    BY <2>6, <2>f, <2>v, <1>t, AnswerIsAnswer, FrameSetting
    DEF Decide, Settle, Steps, RegistryTypeOK
  <2>7. CASE Set(t)
    <3>1. r.at \in 1..3 /\ FlushOrder[r.at] \in Signals /\ r.bundle \in Bundles
      BY <2>7, OrderIsSignal, AskedIsBundle DEF Set
    <3>2. [r EXCEPT !.at = @ + 1, !.pc = IF r.at = 3 THEN "record" ELSE "set"] \in RegFrame
      BY <2>f, <3>1, FrameSet DEF Steps
    <3>3. global' \in [Signals -> {Proxy, Foreign} \cup Bundles]
      BY <2>7, <3>1, <1>t DEF Set, SetOnce, RegistryTypeOK
    <3> QED
      BY <2>7, <3>2, <3>3, <1>t DEF Set, RegistryTypeOK
  <2>8. CASE Record(t)
    BY <2>8, <2>v, <1>t, AnswerIsAnswer, AskedIsBundle
    DEF Record, Settle, Steps, RegistryTypeOK
  <2>9. CASE Discard(t)
    BY <2>9, <2>p, <1>t DEF Discard, GoTo, Steps, RegistryTypeOK
  <2>10. CASE Discarded(t)
    BY <2>10, <2>f, <2>v, <1>t, AnswerIsAnswer, RegFrameFields
    DEF Discarded, Settle, Steps, RegistryTypeOK
  <2>11. CASE Release(t)
    BY <2>11, <2>f, <2>p, <1>t, RegFrameFields DEF Release, GoTo, Steps, RegistryTypeOK
  <2> QED
    BY <1>3, <2>1, <2>2, <2>3, <2>4, <2>5, <2>6, <2>7, <2>8, <2>9, <2>10, <2>11
    DEF InstallStep
<1>4. ASSUME NEW t \in Threads, InterruptInstall(t) PROVE RegistryTypeOK'
  <2>1. \A pc \in Steps : [reg[t] EXCEPT !.pc = pc, !.verdict = Interrupted] \in RegFrame
    BY <1>t, AnswerIsAnswer, FrameSettled DEF RegistryTypeOK
  <2> QED
    BY <1>4, <2>1, <1>t, AnswerIsAnswer DEF InterruptInstall, Settle, Steps, RegistryTypeOK
<1> QED
  BY <1>0, <1>1, <1>2, <1>3, <1>4, NextSteps DEF UseStep

-----------------------------------------------------------------------------
(* The lock.                                                                *)

\* What a step of the registry does to the frame of its thread.
LEMMA Moves ==
  ASSUME RegistryTypeOK, NEW t \in Threads, InstallStep(t)
  PROVE  /\ \A u \in Threads : u # t => reg'[u] = reg[u]
         /\ reg'[t].bundle = reg[t].bundle
<1> USE DEF RegistryTypeOK, RegFrame
<1>1. CASE Acquire(t)
  BY <1>1 DEF Acquire, GoTo
<1>2. CASE FoundOther(t)
  BY <1>2 DEF FoundOther, Settle
<1>3. CASE FoundTwin(t)
  BY <1>3 DEF FoundTwin, Settle
<1>4. CASE FoundSelf(t)
  BY <1>4 DEF FoundSelf, Settle
<1>5. CASE FoundNone(t)
  BY <1>5 DEF FoundNone, GoTo
<1>6. CASE Look(t)
  BY <1>6 DEF Look
<1>7. CASE Decide(t)
  BY <1>7 DEF Decide, Settle
<1>8. CASE Set(t)
  BY <1>8 DEF Set
<1>9. CASE Record(t)
  BY <1>9 DEF Record, Settle
<1>10. CASE Discard(t)
  BY <1>10 DEF Discard, GoTo
<1>11. CASE Discarded(t)
  BY <1>11 DEF Discarded, Settle
<1>12. CASE Release(t)
  BY <1>12 DEF Release, GoTo
<1> QED
  BY <1>1, <1>2, <1>3, <1>4, <1>5, <1>6, <1>7, <1>8, <1>9, <1>10, <1>11, <1>12 DEF InstallStep

LEMMA LockStep ==
  ASSUME RegistryInv, RegistryNext
  PROVE  LockHeld'
<1>t. RegistryTypeOK /\ LockHeld
  BY DEF RegistryInv
<1>0. CASE UNCHANGED <<reg, lock>>
  BY <1>0, <1>t DEF LockHeld
<1>1. ASSUME NEW t \in Threads, NEW b \in Bundles, Install(t, b) PROVE LockHeld'
  <2>1. reg' = [reg EXCEPT ![t] = Asking("wait", b)]
    BY <1>1 DEF Install
  <2>2. Asking("wait", b).pc = "wait"
    BY DEF Asking
  <2> QED
    BY <1>1, <1>t, <2>1, <2>2 DEF Install, LockHeld, InLock, RegistryTypeOK
<1>2. ASSUME NEW t \in Threads, InstallStep(t) PROVE LockHeld'
  <2>m. \A u \in Threads : u # t => reg'[u] = reg[u]
    BY <1>2, <1>t, Moves
  <2>n. NoThread \notin Threads
    BY RegistryAssumption
  <2>1. CASE Acquire(t)
    <3>1. reg'[t].pc = "check" /\ lock' = t /\ lock = NoThread
      BY <2>1, <1>t DEF Acquire, GoTo, RegistryTypeOK, RegFrame
    <3> QED
      BY <3>1, <2>m, <2>n, <1>t DEF LockHeld, InLock
  <2>2. CASE Release(t)
    <3>1. reg'[t].pc = "done" /\ lock' = NoThread /\ reg[t].pc = "release"
      BY <2>2, <1>t DEF Release, GoTo, RegistryTypeOK, RegFrame
    <3> QED
      BY <3>1, <2>m, <2>n, <1>t DEF LockHeld, InLock
  <2>3. CASE \/ FoundOther(t) \/ FoundTwin(t) \/ FoundSelf(t) \/ FoundNone(t)
             \/ Look(t) \/ Decide(t) \/ Set(t) \/ Record(t)
             \/ Discard(t) \/ Discarded(t)
    <3> DEFINE r == reg[t]
               p == reg'[t].pc
    <3>f. r \in RegFrame
      BY <1>t DEF RegistryTypeOK
    <3>a. ASSUME FoundOther(t) \/ FoundTwin(t) \/ FoundSelf(t) \/ FoundNone(t)
          PROVE  r.pc \in InLock /\ p \in InLock /\ lock' = lock
      BY <3>a, <3>f, <1>t DEF FoundOther, FoundTwin, FoundSelf, FoundNone, GoTo, Settle,
         InLock, RegistryTypeOK, RegFrame
    <3>b. ASSUME Look(t)
          PROVE  r.pc \in InLock /\ p \in InLock /\ lock' = lock
      BY <3>b, <3>f, <1>t DEF Look, InLock, RegistryTypeOK, RegFrame
    <3>c. ASSUME Decide(t)
          PROVE  r.pc \in InLock /\ p \in InLock /\ lock' = lock
      <4>1. CASE r.foreign
        BY <3>c, <4>1, <3>f, <1>t DEF Decide, Settle, InLock, RegistryTypeOK, RegFrame
      <4>2. CASE ~r.foreign
        BY <3>c, <4>2, <3>f, <1>t DEF Decide, InLock, RegistryTypeOK, RegFrame
      <4> QED
        BY <4>1, <4>2
    <3>d. ASSUME Set(t)
          PROVE  r.pc \in InLock /\ p \in InLock /\ lock' = lock
      BY <3>d, <3>f, <1>t DEF Set, InLock, RegistryTypeOK, RegFrame
    <3>e. ASSUME Record(t) \/ Discard(t)
          PROVE  r.pc \in InLock /\ p \in InLock /\ lock' = lock
      BY <3>e, <3>f, <1>t DEF Record, Discard, GoTo, Settle, InLock, RegistryTypeOK, RegFrame
    <3>g. ASSUME Discarded(t)
          PROVE  r.pc \in InLock /\ p \in InLock /\ lock' = lock
      <4>1. PICK a : Settle(t, "release", a)
        BY <3>g DEF Discarded
      <4> QED
        BY <3>g, <4>1, <3>f, <1>t DEF Discarded, Settle, InLock, RegistryTypeOK, RegFrame
    <3>1. r.pc \in InLock /\ p \in InLock /\ lock' = lock
      BY <2>3, <3>a, <3>b, <3>c, <3>d, <3>e, <3>g
    <3> QED
      BY <3>1, <2>m, <1>t DEF LockHeld
  <2> QED
    BY <1>2, <2>1, <2>2, <2>3 DEF InstallStep
<1>3. ASSUME NEW t \in Threads, InterruptInstall(t) PROVE LockHeld'
  <2>1. /\ \A u \in Threads : u # t => reg'[u] = reg[u]
        /\ reg[t].pc \in InLock <=> reg'[t].pc \in InLock
        /\ lock' = lock
    <3>1. CASE reg[t].pc = "wait"
      <4>1. Settle(t, "done", Interrupted) /\ lock' = lock
        BY <1>3, <3>1 DEF InterruptInstall
      <4> QED
        BY <4>1, <3>1, <1>t DEF Settle, InLock, RegistryTypeOK, RegFrame
    <3>2. CASE reg[t].pc # "wait"
      <4>1. reg[t].pc \in InLock /\ Settle(t, "release", Interrupted) /\ lock' = lock
        BY <1>3, <3>2 DEF InterruptInstall, InLock
      <4> QED
        BY <4>1, <1>t DEF Settle, InLock, RegistryTypeOK, RegFrame
    <3> QED
      BY <3>1, <3>2
  <2> QED
    BY <2>1, <1>t DEF LockHeld
<1> QED
  BY <1>0, <1>1, <1>2, <1>3, NextSteps DEF UseStep, registryVars, SetForeign

\* Whoever does not hold the lock is outside the critical section.
LEMMA Alone ==
  ASSUME RegistryInv, NEW t \in Threads, reg[t].pc \in InLock,
         NEW u \in Threads, u # t
  PROVE  reg[u].pc \notin InLock
BY DEF RegistryInv, LockHeld

-----------------------------------------------------------------------------
(* The providers of the process.                                            *)

LEMMA EverySignal ==
  ASSUME NEW s \in Signals
  PROVE  \E i \in 1..3 : s = FlushOrder[i]
BY DEF FlushOrder, Signals

LEMMA DisplacedIsForeign ==
  ASSUME NEW s
  PROVE  Displaced(s) \subseteq {Foreign}
BY DEF Displaced

LEMMA MixStep ==
  ASSUME RegistryInv, RegistryNext
  PROVE  GlobalsNeverMixed'
<1>t. RegistryTypeOK /\ GlobalsNeverMixed
  BY DEF RegistryInv
<1>p. Proxy \notin Bundles /\ Foreign \notin Bundles /\ NoBundle \notin Bundles
  BY RegistryAssumption, BundleAssumption
<1>0. CASE UNCHANGED <<global, installation>>
  BY <1>0, <1>t DEF GlobalsNeverMixed, Displaced
<1>1. ASSUME NEW s \in Signals, SetForeign(s) PROVE GlobalsNeverMixed'
  <2>1. \A x \in Signals : global'[x] = global[x] \/ (global'[x] = Foreign /\ x \in LateForeign)
    BY <1>1, <1>t DEF SetForeign, SetOnce, RegistryTypeOK
  <2>2. installation' = installation
    BY <1>1 DEF SetForeign
  <2> QED
    BY <1>t, <1>p, <2>1, <2>2 DEF GlobalsNeverMixed, Displaced
<1>2. ASSUME NEW t \in Threads, Set(t) PROVE GlobalsNeverMixed'
  <2> DEFINE b == reg[t].bundle
  <2>1. installation' = NoBundle
    BY <1>2 DEF Set, RegistryInv, Knows, KnowsProviders
  <2>2. \A i \in 1..3 : global[FlushOrder[i]] \in {b, Proxy, Foreign}
    BY <1>2, DisplacedIsForeign DEF Set, RegistryInv, Knows, KnowsProviders, Seen
  <2>3. \A s \in Signals : global[s] \in {b, Proxy, Foreign}
    BY <2>2, EverySignal
  <2>4. \A s \in Signals : global'[s] \in {b, Proxy, Foreign}
    BY <1>2, <1>t, <2>3 DEF Set, SetOnce, RegistryTypeOK
  <2> QED
    BY <1>p, <2>1, <2>4 DEF GlobalsNeverMixed
<1>3. ASSUME NEW t \in Threads, Record(t) PROVE GlobalsNeverMixed'
  <2> DEFINE b == reg[t].bundle
  <2>1. installation' = b /\ global' = global
    BY <1>3 DEF Record
  <2>2. \A i \in 1..3 : global[FlushOrder[i]] \in {b} \cup Displaced(FlushOrder[i])
    BY <1>3 DEF Record, RegistryInv, Knows, KnowsProviders, Seen
  <2>3. \A s \in Signals : global[s] \in {b} \cup Displaced(s)
    BY <2>2, EverySignal
  <2> QED
    BY <1>t, <2>1, <2>3 DEF GlobalsNeverMixed, Displaced
<1>4. ASSUME NEW t \in Threads, InstallStep(t) PROVE GlobalsNeverMixed'
  BY <1>0, <1>2, <1>3, <1>4 DEF InstallStep, Acquire, FoundOther, FoundTwin, FoundSelf,
     FoundNone, Look, Decide, Discard, Discarded, Release
<1> QED
  BY <1>0, <1>1, <1>4, NextSteps DEF UseStep, registryVars, Install, InterruptInstall

-----------------------------------------------------------------------------
(* What a step of one thread leaves to the others.                          *)

ThreadStep(t) ==
  (\E b \in Bundles : Install(t, b)) \/ InstallStep(t) \/ InterruptInstall(t) \/ UseStep(t)

LEMMA ReportsStay ==
  ASSUME RegistryInv, BundleInv, RegistryNext, NEW b \in Bundles, report[b] # NoReport
  PROVE  report'[b] # NoReport
<1>1. CASE BundleNext
  BY <1>1, OutcomesGrow DEF BundleInv, Signals
<1>2. CASE UNCHANGED bundleVars
  BY <1>2 DEF bundleVars
<1> QED
  BY <1>1, <1>2, BundlesStep

LEMMA ThreadStepIsNext ==
  ASSUME NEW t \in Threads, ThreadStep(t)
  PROVE  RegistryNext
BY DEF ThreadStep, UseStep, RegistryNext

LEMMA OthersUntouched ==
  ASSUME RegistryInv, BundleInv, NEW t \in Threads, ThreadStep(t),
         NEW u \in Threads, u # t
  PROVE  /\ reg'[u] = reg[u] /\ answer'[u] = answer[u]
         /\ call'[u] = call[u] /\ outcome'[u] = outcome[u]
<1>t. RegistryTypeOK /\ BundleTypeOK
  BY DEF RegistryInv, BundleInv
<1> DEFINE Goal == /\ reg'[u] = reg[u] /\ answer'[u] = answer[u]
                   /\ call'[u] = call[u] /\ outcome'[u] = outcome[u]
<1>1. ASSUME NEW b \in Bundles, Install(t, b) PROVE Goal
  BY <1>1, <1>t DEF Install, bundleVars, RegistryTypeOK
<1>2. ASSUME InstallStep(t) PROVE Goal
  <2>1. reg'[u] = reg[u]
    BY <1>2, <1>t, Moves
  <2>2. answer'[u] = answer[u]
    BY <1>2, <1>t DEF InstallStep, Acquire, FoundOther, FoundTwin, FoundSelf, FoundNone,
       Look, Decide, Set, Record, Discard, Discarded, Release, RegistryTypeOK
  <2>3. CASE Discard(t)
    BY <2>1, <2>2, <2>3, <1>t DEF Discard, Shutdown, ReturnCached, StartShutdown, BundleTypeOK
  <2>4. CASE ~Discard(t)
    BY <1>2, <2>1, <2>2, <2>4 DEF InstallStep, Acquire, FoundOther, FoundTwin, FoundSelf,
       FoundNone, Look, Decide, Set, Record, Discarded, Release, bundleVars
  <2> QED
    BY <2>3, <2>4
<1>3. ASSUME InterruptInstall(t) PROVE Goal
  BY <1>3, <1>t DEF InterruptInstall, Settle, bundleVars, RegistryTypeOK
<1>4. ASSUME UseStep(t) PROVE Goal
  <2>1. \/ \E b \in Bundles : StartFlush(t, b) \/ Shutdown(t, b)
        \/ CallStep(t)
        \/ Interrupt(t)
    BY <1>4 DEF UseStep, Use
  <2>2. call'[u] = call[u]
    BY <1>t, <2>1, OthersStay
  <2>3. outcome'[u] = outcome[u]
    BY <1>t, <2>1 DEF BundleTypeOK, StartFlush, Shutdown, ReturnCached, StartShutdown,
       CallStep, EnterFlush, FlushSignal, BorrowFlag, ReturnFlags, ShutdownSignal, Publish,
       ReturnReport, Interrupt
  <2> QED
    BY <1>4, <2>2, <2>3 DEF UseStep, registryVars
<1> QED
  BY <1>1, <1>2, <1>3, <1>4 DEF ThreadStep

\* Only the thread that holds the lock touches what the lock protects.
LEMMA Protected ==
  ASSUME RegistryInv, NEW t \in Threads, ThreadStep(t), reg[t].pc \notin InLock
  PROVE  installation' = installation /\ global' = global
BY DEF ThreadStep, Install, InterruptInstall, UseStep, registryVars, InstallStep, Acquire,
   FoundOther, FoundTwin, FoundSelf, FoundNone, Look, Decide, Set, Record, Discard,
   Discarded, Release, InLock

LEMMA OthersKnow ==
  ASSUME RegistryInv, BundleInv, NEW t \in Threads, ThreadStep(t),
         NEW u \in Threads, u # t
  PROVE  Knows(u)' /\ Answered(u)'
<1>t. RegistryTypeOK /\ Knows(u) /\ Answered(u)
  BY DEF RegistryInv
<1>1. /\ reg'[u] = reg[u] /\ answer'[u] = answer[u]
      /\ call'[u] = call[u] /\ outcome'[u] = outcome[u]
  BY OthersUntouched
<1>2. \A b \in Bundles : report[b] # NoReport => report'[b] # NoReport
  BY ThreadStepIsNext, ReportsStay
<1>3. reg[u].pc # "idle" => reg[u].bundle \in Bundles
  BY AskedIsBundle
<1>4. Answered(u)'
  <2> DEFINE a == answer[u]
             b == reg[u].bundle
  <2>1. Answered(u)' <=> /\ reg[u].pc = "done" <=> a # NoAnswer
                         /\ a \in {NoAnswer, Interrupted} \/ (a # Answer("bundle", b) => report'[b] # NoReport)
    BY <1>1 DEF Answered, Disposed
  <2>2. /\ reg[u].pc = "done" <=> a # NoAnswer
        /\ a \in {NoAnswer, Interrupted} \/ (a # Answer("bundle", b) => report[b] # NoReport)
    BY <1>t DEF Answered, Disposed
  <2>3. a # NoAnswer => b \in Bundles
    BY <1>3, <2>2
  <2> HIDE DEF a, b
  <2> QED
    BY <1>2, <2>1, <2>2, <2>3
<1>5. CASE reg[u].pc \notin InLock
  <2>1. Asked(u)'
    BY <1>t, <1>1 DEF Knows, Asked
  <2>2. KnowsProviders(u)'
    BY <1>t, <1>1, <1>5 DEF Knows, KnowsProviders, InLock
  <2>3. KnowsVerdict(u)'
    BY <1>1, <1>5 DEF KnowsVerdict, InLock
  <2>4. KnowsShutdown(u)'
    BY <1>1, <1>5 DEF KnowsShutdown, InLock
  <2> QED
    BY <1>4, <2>1, <2>2, <2>3, <2>4 DEF Knows
<1>6. CASE reg[u].pc \in InLock
  <2>1. installation' = installation /\ global' = global
    BY <1>6, Alone, Protected
  <2>2. \A a, b : Justified(a, b)' <=> Justified(a, b)
    BY <2>1 DEF Justified, Twin, Occupied
  <2>3. \A i, x : Seen(i, x)' <=> Seen(i, x)
    BY <2>1 DEF Seen, Displaced
  <2>4. Occupied' <=> Occupied
    BY <2>1 DEF Occupied
  <2>5. reg[u].bundle \in Bundles
    BY <1>3, <1>6 DEF InLock
  <2>6. \A a : Disposed(a, reg[u].bundle) => Disposed(a, reg[u].bundle)'
    BY <1>1, <1>2, <2>5 DEF Disposed
  <2>7. Asked(u)'
    BY <1>t, <1>1 DEF Knows, Asked
  <2>8. KnowsProviders(u)'
    BY <1>t, <1>1, <2>1, <2>3, <2>4 DEF Knows, KnowsProviders
  <2>9. KnowsVerdict(u)'
    BY <1>t, <1>1, <2>1, <2>2, <2>6 DEF Knows, KnowsVerdict
  <2>10. KnowsShutdown(u)'
    BY <1>t, <1>1, <1>2, <2>5 DEF Knows, KnowsShutdown
  <2> QED
    BY <1>4, <2>7, <2>8, <2>9, <2>10 DEF Knows
<1> QED
  BY <1>4, <1>5, <1>6

-----------------------------------------------------------------------------
(* What a step of a thread means for what the thread knows.                 *)

LEMMA SettleFields ==
  ASSUME RegistryTypeOK, NEW t \in Threads, NEW pc, NEW a, Settle(t, pc, a)
  PROVE  /\ reg'[t].pc = pc /\ reg'[t].verdict = a
         /\ reg'[t].bundle = reg[t].bundle
BY DEF Settle, RegistryTypeOK, RegFrame

LEMMA GoToFields ==
  ASSUME RegistryTypeOK, NEW t \in Threads, NEW pc, GoTo(t, pc)
  PROVE  /\ reg'[t].pc = pc /\ reg'[t].verdict = reg[t].verdict
         /\ reg'[t].bundle = reg[t].bundle
         /\ reg'[t].at = reg[t].at /\ reg'[t].foreign = reg[t].foreign
BY DEF GoTo, RegistryTypeOK, RegFrame

\* The steps under the lock that only settle the verdict or go on.
LEMMA FoundKnow ==
  ASSUME RegistryInv, NEW t \in Threads,
         FoundOther(t) \/ FoundTwin(t) \/ FoundSelf(t) \/ FoundNone(t)
  PROVE  Knows(t)' /\ Answered(t)'
<1> DEFINE r == reg[t]
           b == r.bundle
<1>t. RegistryTypeOK /\ Knows(t) /\ Answered(t)
  BY DEF RegistryInv
<1>f. r \in RegFrame /\ r.pc = "check" /\ b \in Bundles
  BY <1>t, AskedIsBundle DEF FoundOther, FoundTwin, FoundSelf, FoundNone, RegistryTypeOK
<1>b. b # NoBundle
  BY <1>f, BundleAssumption
<1>u. UNCHANGED <<report, installation, global, answer>>
  BY DEF FoundOther, FoundTwin, FoundSelf, FoundNone, bundleVars
<1>a. answer[t] = NoAnswer
  BY <1>t, <1>f DEF Answered
<1>1. ASSUME reg'[t].bundle = b, reg'[t].pc \in {"discard", "release", "look"}
      PROVE  Asked(t)' /\ KnowsShutdown(t)' /\ Answered(t)'
  BY <1>1, <1>b, <1>u, <1>a DEF Asked, KnowsShutdown, Answered
<1>4. CASE FoundOther(t)
  <2>1. reg'[t].pc = "discard" /\ reg'[t].verdict = Conflict /\ reg'[t].bundle = b
    BY <1>4, <1>t, SettleFields DEF FoundOther
  <2>2. installation # NoBundle /\ ~Twin(b) /\ b # installation
    BY <1>4 DEF FoundOther, Twin
  <2>3. KnowsProviders(t)'
    BY <2>1 DEF KnowsProviders
  <2>4. KnowsVerdict(t)'
    BY <1>u, <2>1, <2>2 DEF KnowsVerdict, Justified, Twin
  <2> QED
    BY <1>1, <2>1, <2>3, <2>4 DEF Knows
<1>5. CASE FoundTwin(t)
  <2>1. /\ reg'[t].pc = "discard" /\ reg'[t].bundle = b
        /\ reg'[t].verdict = Answer("bundle", installation)
    BY <1>5, <1>t, SettleFields DEF FoundTwin
  <2>2. installation # NoBundle /\ Twin(b) /\ b # installation
    BY <1>5 DEF FoundTwin
  <2>3. KnowsProviders(t)'
    BY <2>1 DEF KnowsProviders
  <2>4. KnowsVerdict(t)'
    BY <1>u, <2>1, <2>2 DEF KnowsVerdict, Justified, Twin
  <2> QED
    BY <1>1, <2>1, <2>3, <2>4 DEF Knows
<1>6. CASE FoundSelf(t)
  <2>1. /\ reg'[t].pc = "release" /\ reg'[t].bundle = b
        /\ reg'[t].verdict = Answer("bundle", installation)
    BY <1>6, <1>t, SettleFields DEF FoundSelf
  <2>2. b = installation
    BY <1>6 DEF FoundSelf
  <2>3. KnowsProviders(t)'
    BY <2>1 DEF KnowsProviders
  <2>4. KnowsVerdict(t)'
    BY <1>u, <1>b, <2>1, <2>2 DEF KnowsVerdict, Justified, Twin, Disposed
  <2> QED
    BY <1>1, <2>1, <2>3, <2>4 DEF Knows
<1>7. CASE FoundNone(t)
  <2>1. /\ reg'[t].pc = "look" /\ reg'[t].bundle = b
        /\ reg'[t].at = 1 /\ reg'[t].foreign = FALSE
    <3>1. r.at = 1 /\ r.foreign = FALSE
      BY <1>t, <1>f DEF Knows, KnowsProviders, RegFrame
    <3> QED
      BY <1>7, <1>t, <3>1, GoToFields DEF FoundNone
  <2>2. installation' = NoBundle
    BY <1>7 DEF FoundNone
  <2>3. KnowsProviders(t)'
    BY <2>1, <2>2 DEF KnowsProviders
  <2>4. KnowsVerdict(t)'
    BY <2>1 DEF KnowsVerdict
  <2> QED
    BY <1>1, <2>1, <2>3, <2>4 DEF Knows
<1> QED
  BY <1>4, <1>5, <1>6, <1>7

\* The steps that look at the providers and decide.
LEMMA LookKnow ==
  ASSUME RegistryInv, NEW t \in Threads, Look(t)
  PROVE  Knows(t)' /\ Answered(t)'
<1> DEFINE r == reg[t]
           b == r.bundle
           i == r.at
           seen == global[FlushOrder[i]]
<1>t. RegistryTypeOK /\ Knows(t) /\ Answered(t)
  BY DEF RegistryInv
<1>f. r \in RegFrame /\ r.pc = "look" /\ b \in Bundles /\ i \in 1..3
  BY <1>t, AskedIsBundle DEF Look, RegistryTypeOK
<1>b. b # NoBundle
  BY <1>f, BundleAssumption
<1>u. UNCHANGED <<report, installation, global, answer>>
  BY DEF Look, bundleVars
<1>1. /\ reg'[t].pc = "look" /\ reg'[t].bundle = b /\ reg'[t].at = i + 1
      /\ reg'[t].foreign = (r.foreign \/ seen # Proxy)
  BY <1>t, <1>f DEF Look, RegistryTypeOK, RegFrame
<1>2. Asked(t)' /\ KnowsShutdown(t)' /\ KnowsVerdict(t)' /\ Answered(t)'
  BY <1>t, <1>f, <1>b, <1>u, <1>1 DEF Asked, KnowsShutdown, KnowsVerdict, Answered
<1>3. installation = NoBundle
  BY <1>t, <1>f DEF Knows, KnowsProviders
<1>4. CASE r.foreign \/ seen # Proxy
  <2>1. Occupied
    <3>1. r.foreign => Occupied
      BY <1>t, <1>f DEF Knows, KnowsProviders
    <3>2. seen # Proxy => Occupied
      BY <1>f, OrderIsSignal DEF Occupied
    <3> QED
      BY <1>4, <3>1, <3>2
  <2>2. Occupied'
    BY <1>u, <2>1 DEF Occupied
  <2>3. KnowsProviders(t)'
    BY <1>1, <1>3, <1>4, <1>u, <2>2 DEF KnowsProviders
  <2> QED
    BY <1>2, <2>3 DEF Knows
<1>5. CASE ~(r.foreign \/ seen # Proxy)
  <2>1. \A j \in 1..3 : j < i => Seen(j, Proxy)
    BY <1>t, <1>f, <1>5 DEF Knows, KnowsProviders
  <2>2. Seen(i, Proxy)
    BY <1>5 DEF Seen
  <2>3. \A j \in 1..3 : j < i + 1 => Seen(j, Proxy)
    <3> SUFFICES ASSUME NEW j \in 1..3, j < i + 1 PROVE Seen(j, Proxy)
      OBVIOUS
    <3>1. j < i \/ j = i
      BY <1>f
    <3> QED
      BY <2>1, <2>2, <3>1
  <2>4. \A j \in 1..3 : j < i + 1 => Seen(j, Proxy)'
    BY <1>u, <2>3 DEF Seen, Displaced
  <2>5. KnowsProviders(t)'
    BY <1>1, <1>3, <1>5, <1>u, <2>4 DEF KnowsProviders
  <2> QED
    BY <1>2, <2>5 DEF Knows
<1> QED
  BY <1>4, <1>5

LEMMA DecideKnow ==
  ASSUME RegistryInv, NEW t \in Threads, Decide(t)
  PROVE  Knows(t)' /\ Answered(t)'
<1> DEFINE r == reg[t]
           b == r.bundle
<1>t. RegistryTypeOK /\ Knows(t) /\ Answered(t)
  BY DEF RegistryInv
<1>f. r \in RegFrame /\ r.pc = "look" /\ r.at = 4 /\ b \in Bundles
  BY <1>t, AskedIsBundle DEF Decide, RegistryTypeOK
<1>b. b # NoBundle
  BY <1>f, BundleAssumption
<1>u. UNCHANGED <<report, installation, global, answer>>
  BY DEF Decide, bundleVars
<1>3. installation = NoBundle
  BY <1>t, <1>f DEF Knows, KnowsProviders
<1>1. ASSUME reg'[t].bundle = b, reg'[t].pc \in {"discard", "set"}
      PROVE  Asked(t)' /\ KnowsShutdown(t)' /\ Answered(t)'
  BY <1>1, <1>t, <1>f, <1>b, <1>u DEF Asked, KnowsShutdown, Answered
<1>4. CASE r.foreign
  <2>1. reg'[t].pc = "discard" /\ reg'[t].verdict = Conflict /\ reg'[t].bundle = b
    BY <1>4, <1>t, SettleFields DEF Decide
  <2>2. Occupied
    BY <1>t, <1>f, <1>4 DEF Knows, KnowsProviders
  <2>3. Occupied' /\ installation' = NoBundle
    BY <1>u, <1>3, <2>2 DEF Occupied
  <2>4. KnowsProviders(t)'
    BY <2>1 DEF KnowsProviders
  <2>5. KnowsVerdict(t)'
    BY <1>b, <2>1, <2>3 DEF KnowsVerdict, Justified
  <2> QED
    BY <1>1, <2>1, <2>4, <2>5 DEF Knows
<1>5. CASE ~r.foreign
  <2>1. reg'[t].pc = "set" /\ reg'[t].at = 1 /\ reg'[t].bundle = b
    BY <1>5, <1>t, <1>f DEF Decide, RegistryTypeOK, RegFrame
  <2>2. \A j \in 1..3 : Seen(j, Proxy)
    BY <1>t, <1>f, <1>5 DEF Knows, KnowsProviders
  <2>3. \A j \in 1..3 : Seen(j, Proxy)'
    BY <1>u, <2>2 DEF Seen, Displaced
  <2>4. KnowsProviders(t)'
    BY <1>u, <1>3, <2>1, <2>3 DEF KnowsProviders
  <2>5. KnowsVerdict(t)'
    BY <2>1 DEF KnowsVerdict
  <2> QED
    BY <1>1, <2>1, <2>4, <2>5 DEF Knows
<1> QED
  BY <1>4, <1>5

\* A provider is set: what the thread has set so far is its own.
LEMMA SetKnow ==
  ASSUME RegistryInv, NEW t \in Threads, Set(t)
  PROVE  Knows(t)' /\ Answered(t)'
<1> DEFINE r == reg[t]
           b == r.bundle
           i == r.at
<1>t. RegistryTypeOK /\ Knows(t) /\ Answered(t)
  BY DEF RegistryInv
<1>f. r \in RegFrame /\ r.pc = "set" /\ b \in Bundles /\ i \in 1..3
  BY <1>t, AskedIsBundle DEF Set, RegistryTypeOK
<1>b. b # NoBundle
  BY <1>f, BundleAssumption
<1>u. UNCHANGED <<report, installation, answer>>
  BY DEF Set, bundleVars
<1>1. /\ reg'[t].pc = (IF i = 3 THEN "record" ELSE "set")
      /\ reg'[t].bundle = b /\ reg'[t].at = i + 1
  BY <1>t, <1>f DEF Set, RegistryTypeOK, RegFrame
<1>2. Asked(t)' /\ KnowsShutdown(t)' /\ KnowsVerdict(t)' /\ Answered(t)'
  BY <1>t, <1>f, <1>b, <1>u, <1>1 DEF Asked, KnowsShutdown, KnowsVerdict, Answered
<1>3. installation' = NoBundle
  BY <1>t, <1>f, <1>u DEF Knows, KnowsProviders
<1>4. \A j \in 1..3 : Seen(j, IF j < i THEN b ELSE Proxy)
  BY <1>t, <1>f DEF Knows, KnowsProviders
<1>5. /\ global[FlushOrder[i]] = Proxy => global'[FlushOrder[i]] = b
      /\ global[FlushOrder[i]] # Proxy => global' = global
      /\ \A s \in Signals : s # FlushOrder[i] => global'[s] = global[s]
  BY <1>t, <1>f, OrderIsSignal DEF Set, SetOnce, RegistryTypeOK
<1>6. \A j \in 1..3 : j # i => FlushOrder[j] # FlushOrder[i] /\ FlushOrder[j] \in Signals
  BY <1>f DEF FlushOrder, Signals
<1>7. \A j \in 1..3 : global'[FlushOrder[j]] \in
        {IF j < i + 1 THEN b ELSE Proxy} \cup Displaced(FlushOrder[j])
  <2> SUFFICES ASSUME NEW j \in 1..3
               PROVE  global'[FlushOrder[j]] \in
                        {IF j < i + 1 THEN b ELSE Proxy} \cup Displaced(FlushOrder[j])
    OBVIOUS
  <2>1. CASE j = i
    <3>1. global[FlushOrder[i]] \in {Proxy} \cup Displaced(FlushOrder[i])
      BY <1>4, <1>f DEF Seen
    <3>2. j < i + 1
      BY <2>1, <1>f
    <3> QED
      BY <2>1, <3>1, <3>2, <1>5
  <2>2. CASE j # i
    <3>1. global'[FlushOrder[j]] = global[FlushOrder[j]]
      BY <2>2, <1>5, <1>6
    <3>2. j < i + 1 <=> j < i
      BY <2>2, <1>f
    <3> QED
      BY <3>1, <3>2, <1>4 DEF Seen
  <2> QED
    BY <2>1, <2>2
<1>8. KnowsProviders(t)'
  <2>1. CASE i = 3
    <3>1. \A j \in 1..3 : global'[FlushOrder[j]] \in {b} \cup Displaced(FlushOrder[j])
      BY <1>7, <2>1
    <3> QED
      BY <1>1, <1>3, <2>1, <3>1 DEF KnowsProviders, Seen, Displaced
  <2>2. CASE i # 3
    BY <1>1, <1>3, <2>2, <1>7 DEF KnowsProviders, Seen, Displaced
  <2> QED
    BY <2>1, <2>2
<1> QED
  BY <1>2, <1>8 DEF Knows

LEMMA RecordKnow ==
  ASSUME RegistryInv, NEW t \in Threads, Record(t)
  PROVE  Knows(t)' /\ Answered(t)'
<1> DEFINE b == reg[t].bundle
<1>t. RegistryTypeOK /\ Answered(t)
  BY DEF RegistryInv
<1>b. b \in Bundles /\ b # NoBundle
  BY AskedIsBundle, BundleAssumption DEF Record
<1>1. /\ reg'[t].pc = "release" /\ reg'[t].bundle = b
      /\ reg'[t].verdict = Answer("bundle", b)
  BY <1>t, SettleFields DEF Record
<1>2. installation' = b /\ answer' = answer /\ answer[t] = NoAnswer
  BY <1>t DEF Record, Answered
<1>3. Asked(t)' /\ KnowsProviders(t)' /\ KnowsShutdown(t)' /\ Answered(t)'
  BY <1>b, <1>1, <1>2 DEF Asked, KnowsProviders, KnowsShutdown, Answered
<1>4. KnowsVerdict(t)'
  BY <1>b, <1>1, <1>2 DEF KnowsVerdict, Justified, Twin, Disposed
<1> QED
  BY <1>3, <1>4 DEF Knows

\* The bundle that is not installed is shut down.
LEMMA DiscardKnow ==
  ASSUME RegistryInv, BundleInv, NEW t \in Threads, Discard(t)
  PROVE  Knows(t)' /\ Answered(t)'
<1> DEFINE b == reg[t].bundle
<1>t. RegistryTypeOK /\ BundleTypeOK /\ Knows(t) /\ Answered(t)
  BY DEF RegistryInv, BundleInv
<1>b. b \in Bundles /\ b # NoBundle
  BY AskedIsBundle, BundleAssumption DEF Discard
<1>1. /\ reg'[t].pc = "discarding" /\ reg'[t].bundle = b
      /\ reg'[t].verdict = reg[t].verdict
  BY <1>t, GoToFields DEF Discard
<1>u. UNCHANGED <<installation, global, answer>>
  BY DEF Discard
<1>2. Asked(t)' /\ KnowsProviders(t)' /\ Answered(t)'
  BY <1>t, <1>b, <1>1, <1>u DEF Discard, Asked, KnowsProviders, Answered
<1>3. KnowsVerdict(t)'
  <2>1. b # installation /\ Justified(reg[t].verdict, b)
    BY <1>t DEF Discard, Knows, KnowsVerdict
  <2>2. Justified(reg[t].verdict, b)'
    BY <2>1, <1>u, <1>1 DEF Justified, Twin, Occupied
  <2> QED
    BY <1>1, <1>u, <2>1, <2>2 DEF KnowsVerdict
<1>4. KnowsShutdown(t)'
  <2>1. CASE ReturnCached(t, b)
    <3>1. call'[t] = Idle /\ outcome'[t] = Result("report", report[b]) /\ report'[b] # NoReport
      BY <2>1, <1>t DEF ReturnCached, BundleTypeOK
    <3> QED
      BY <3>1, <1>1 DEF KnowsShutdown, Result
  <2>2. CASE StartShutdown(t, b)
    <3>1. call'[t] = Enter("shutdown", b, 0, FALSE)
      BY <2>2, <1>t DEF StartShutdown, BundleTypeOK
    <3> QED
      BY <3>1, <1>1 DEF KnowsShutdown, Enter
  <2> QED
    BY <2>1, <2>2 DEF Discard, Shutdown
<1> QED
  BY <1>2, <1>3, <1>4 DEF Knows

LEMMA DiscardedKnow ==
  ASSUME RegistryInv, NEW t \in Threads, Discarded(t)
  PROVE  Knows(t)' /\ Answered(t)'
<1> DEFINE b == reg[t].bundle
           v == reg[t].verdict
           a == IF outcome[t].kind = "interrupted" THEN Interrupted ELSE v
<1>t. RegistryTypeOK /\ Knows(t) /\ Answered(t)
  BY DEF RegistryInv
<1>b. b \in Bundles /\ b # NoBundle
  BY AskedIsBundle, BundleAssumption DEF Discarded
<1>1. reg'[t].pc = "release" /\ reg'[t].bundle = b /\ reg'[t].verdict = a
  BY <1>t, SettleFields DEF Discarded
<1>u. UNCHANGED <<report, installation, global, answer>>
  BY DEF Discarded, bundleVars
<1>2. Asked(t)' /\ KnowsProviders(t)' /\ KnowsShutdown(t)' /\ Answered(t)'
  BY <1>t, <1>b, <1>1, <1>u DEF Discarded, Asked, KnowsProviders, KnowsShutdown, Answered
<1>3. Justified(v, b)
  BY <1>t DEF Discarded, Knows, KnowsVerdict
<1>4. \/ outcome[t].kind = "interrupted" /\ t \in Interruptible
      \/ outcome[t].kind = "report" /\ report[b] # NoReport
  <2>1. call[t] = Idle /\ Idle.op = "idle"
    BY DEF Discarded, Idle, Enter
  <2> QED
    BY <1>t, <2>1 DEF Discarded, Knows, KnowsShutdown
<1>5. KnowsVerdict(t)'
  <2>1. CASE outcome[t].kind = "interrupted"
    BY <1>1, <1>4, <2>1 DEF KnowsVerdict
  <2>2. CASE outcome[t].kind # "interrupted"
    <3>1. a = v /\ report'[b] # NoReport
      BY <1>4, <2>2, <1>u
    <3>2. \A x, y : Justified(x, y) => Justified(x, y)'
      BY <1>u DEF Justified, Twin, Occupied
    <3> QED
      BY <1>1, <1>3, <3>1, <3>2 DEF KnowsVerdict, Disposed
  <2> QED
    BY <2>1, <2>2
<1> QED
  BY <1>2, <1>5 DEF Knows

LEMMA ReleaseKnow ==
  ASSUME RegistryInv, NEW t \in Threads, Release(t)
  PROVE  Knows(t)' /\ Answered(t)'
<1> DEFINE b == reg[t].bundle
           a == reg[t].verdict
<1>t. RegistryTypeOK /\ Knows(t)
  BY DEF RegistryInv
<1>b. b \in Bundles /\ b # NoBundle
  BY AskedIsBundle, BundleAssumption DEF Release
<1>1. reg'[t].pc = "done" /\ reg'[t].bundle = b
  BY <1>t, GoToFields DEF Release
<1>2. answer'[t] = a /\ report' = report
  BY <1>t DEF Release, RegistryTypeOK, bundleVars
<1>3. \/ a = Interrupted
      \/ Justified(a, b) /\ Disposed(a, b)
  BY <1>t DEF Release, Knows, KnowsVerdict
<1>4. a # NoAnswer
  BY <1>3 DEF Justified, Answer, NoAnswer, Conflict, Interrupted
<1>5. Answered(t)'
  BY <1>1, <1>2, <1>3, <1>4 DEF Answered, Disposed
<1>6. Asked(t)' /\ KnowsProviders(t)' /\ KnowsVerdict(t)' /\ KnowsShutdown(t)'
  BY <1>b, <1>1 DEF Asked, KnowsProviders, KnowsVerdict, KnowsShutdown
<1> QED
  BY <1>5, <1>6 DEF Knows

\* The steps before the lock.
LEMMA WaitKnow ==
  ASSUME RegistryInv, NEW t \in Threads,
         Acquire(t) \/ \E b \in Bundles : Install(t, b)
  PROVE  Knows(t)' /\ Answered(t)'
<1>t. RegistryTypeOK /\ Knows(t) /\ Answered(t)
  BY DEF RegistryInv
<1>1. ASSUME NEW b \in Bundles, Install(t, b) PROVE Knows(t)' /\ Answered(t)'
  <2>1. /\ reg'[t].pc = "wait" /\ reg'[t].bundle = b /\ reg'[t].at = 1
        /\ reg'[t].foreign = FALSE
    BY <1>1, <1>t DEF Install, Asking, RegistryTypeOK
  <2>2. b # NoBundle /\ answer' = answer /\ answer[t] = NoAnswer
    BY <1>1, <1>t, BundleAssumption DEF Install, Answered
  <2> QED
    BY <2>1, <2>2 DEF Knows, Asked, KnowsProviders, KnowsVerdict, KnowsShutdown, Answered
<1>2. CASE Acquire(t)
  <2> DEFINE r == reg[t]
  <2>1. /\ reg'[t].pc = "check" /\ reg'[t].bundle = r.bundle
        /\ reg'[t].at = r.at /\ reg'[t].foreign = r.foreign
    BY <1>2, <1>t, GoToFields DEF Acquire
  <2>2. answer' = answer /\ answer[t] = NoAnswer
    BY <1>2, <1>t DEF Acquire, Answered
  <2> QED
    BY <1>2, <1>t, <2>1, <2>2
    DEF Acquire, Knows, Asked, KnowsProviders, KnowsVerdict, KnowsShutdown, Answered
<1> QED
  BY <1>1, <1>2

LEMMA InterruptedKnow ==
  ASSUME RegistryInv, NEW t \in Threads, InterruptInstall(t)
  PROVE  Knows(t)' /\ Answered(t)'
<1> DEFINE b == reg[t].bundle
<1>t. RegistryTypeOK /\ Knows(t) /\ Answered(t)
  BY DEF RegistryInv
<1>b. b # NoBundle
  BY AskedIsBundle, BundleAssumption DEF InterruptInstall
<1>1. CASE reg[t].pc = "wait"
  <2>1. Settle(t, "done", Interrupted) /\ answer' = [answer EXCEPT ![t] = Interrupted]
    BY <1>1 DEF InterruptInstall
  <2>2. reg'[t].pc = "done" /\ reg'[t].bundle = b /\ answer'[t] = Interrupted
    BY <2>1, <1>t, SettleFields DEF RegistryTypeOK
  <2>3. Interrupted # NoAnswer
    BY DEF Interrupted, NoAnswer, Answer
  <2> QED
    BY <1>b, <2>2, <2>3
    DEF Knows, Asked, KnowsProviders, KnowsVerdict, KnowsShutdown, Answered
<1>2. CASE reg[t].pc # "wait"
  <2>1. Settle(t, "release", Interrupted) /\ answer' = answer /\ reg[t].pc # "done"
    BY <1>2 DEF InterruptInstall
  <2>2. /\ reg'[t].pc = "release" /\ reg'[t].bundle = b
        /\ reg'[t].verdict = Interrupted /\ answer[t] = NoAnswer
    BY <2>1, <1>t, SettleFields DEF Answered
  <2>3. t \in Interruptible
    BY DEF InterruptInstall
  <2> QED
    BY <1>b, <2>1, <2>2, <2>3
    DEF Knows, Asked, KnowsProviders, KnowsVerdict, KnowsShutdown, Answered
<1> QED
  BY <1>1, <1>2

\* The calls on bundles, that of a discarding thread included.
LEMMA UseKnow ==
  ASSUME RegistryInv, BundleInv, NEW t \in Threads, UseStep(t)
  PROVE  Knows(t)' /\ Answered(t)'
<1> DEFINE r == reg[t]
           b == r.bundle
<1>t. RegistryTypeOK /\ BundleTypeOK /\ Knows(t) /\ Answered(t)
  BY DEF RegistryInv, BundleInv
<1>u. UNCHANGED registryVars
  BY DEF UseStep
<1>1. \A x \in Bundles : report[x] # NoReport => report'[x] # NoReport
  BY ThreadStepIsNext, ReportsStay DEF ThreadStep
<1>2. r.pc # "idle" => b \in Bundles
  BY AskedIsBundle
<1>3. Asked(t)' /\ KnowsProviders(t)'
  BY <1>t, <1>u DEF registryVars, Knows, Asked, KnowsProviders, Occupied, Seen, Displaced
<1>4. \A x, y : Justified(x, y) => Justified(x, y)'
  BY <1>u DEF registryVars, Justified, Twin, Occupied
<1>5. r.pc # "idle" => \A x : Disposed(x, b) => (x # Answer("bundle", b) => report'[b] # NoReport)
  BY <1>1, <1>2 DEF Disposed
<1>6. KnowsVerdict(t)'
  BY <1>t, <1>u, <1>4, <1>5 DEF registryVars, Knows, KnowsVerdict, Disposed
<1>7. Answered(t)'
  <2>1. CASE r.pc = "idle"
    BY <1>t, <1>u, <2>1 DEF registryVars, Answered
  <2>2. CASE r.pc # "idle"
    BY <1>t, <1>u, <1>5, <2>2 DEF registryVars, Answered, Disposed
  <2> QED
    BY <2>1, <2>2
<1>8. KnowsShutdown(t)'
  <2> SUFFICES ASSUME r.pc = "discarding"
               PROVE  \/ call'[t].op = "shutdown" /\ call'[t].bundle = b
                      \/ /\ call'[t] = Idle /\ outcome'[t].kind = "interrupted"
                         /\ t \in Interruptible
                      \/ /\ call'[t] = Idle /\ outcome'[t].kind = "report"
                         /\ report'[b] # NoReport
    BY <1>u DEF registryVars, KnowsShutdown
  <2>1. Idle.op = "idle"
    BY DEF Idle, Enter
  <2>2. call[t] # Idle
    BY <2>1 DEF UseStep, Use, Free, CallStep, EnterFlush, FlushSignal, BorrowFlag,
       ReturnFlags, ShutdownSignal, Publish, ReturnReport, Interrupt
  <2>3. call[t].op = "shutdown" /\ call[t].bundle = b
    BY <1>t, <2>2 DEF Knows, KnowsShutdown
  <2>4. CASE Interrupt(t)
    BY <1>t, <2>4 DEF Interrupt, Result, BundleTypeOK
  <2>5. CASE CallStep(t)
    <3> DEFINE c == call[t]
    <3>c. c \in Frame
      BY <1>t DEF BundleTypeOK
    <3>1. CASE EnterFlush(t)
      BY <1>t, <2>3, <3>1 DEF EnterFlush, Enter, BundleTypeOK
    <3>2. CASE FlushSignal(t)
      <4>1. PICK ok : call' = [call EXCEPT ![t] =
                                 [c EXCEPT !.at = @ + 1, !.flushed[FlushOrder[c.at]] = ok]]
        BY <3>2 DEF FlushSignal
      <4> QED
        BY <1>t, <2>3, <3>c, <4>1 DEF BundleTypeOK, Frame
    <3>3. CASE BorrowFlag(t)
      BY <1>t, <2>3, <3>c, <3>3 DEF BorrowFlag, BundleTypeOK, Frame
    <3>4. CASE ShutdownSignal(t)
      <4>1. PICK ok : call' = [call EXCEPT ![t] =
                                 [c EXCEPT !.at = @ + 1, !.down[DownOrder[c.at - 3]] = ok]]
        BY <3>4 DEF ShutdownSignal
      <4> QED
        BY <1>t, <2>3, <3>c, <4>1 DEF BundleTypeOK, Frame
    <3>5. CASE Publish(t)
      BY <1>t, <2>3, <3>c, <3>5 DEF Publish, BundleTypeOK, Frame
    <3>6. CASE ReturnReport(t)
      <4>1. report[b] # NoReport /\ report' = report
        BY <2>3, <3>6 DEF ReturnReport, BundleInv, FramesHonest, FrameHonest
      <4>2. call'[t] = Idle /\ outcome'[t].kind = "report"
        BY <1>t, <3>6 DEF ReturnReport, Result, BundleTypeOK
      <4> QED
        BY <4>1, <4>2
    <3> QED
      BY <2>3, <2>5, <3>1, <3>2, <3>3, <3>4, <3>5, <3>6 DEF CallStep, ReturnFlags
  <2> QED
    BY <2>2, <2>4, <2>5 DEF UseStep, Use, Free
<1> QED
  BY <1>3, <1>6, <1>7, <1>8 DEF Knows

\* Another library sets a provider: only where it may, and only once.
LEMMA ForeignKnow ==
  ASSUME RegistryInv, NEW s \in Signals, SetForeign(s), NEW t \in Threads
  PROVE  Knows(t)' /\ Answered(t)'
<1>t. RegistryTypeOK /\ Knows(t) /\ Answered(t)
  BY DEF RegistryInv
<1>p. Proxy # Foreign
  BY RegistryAssumption
<1>u. /\ UNCHANGED <<bundleVars, lock, installation, reg, answer>>
      /\ UNCHANGED <<report, call, outcome>>
  BY DEF SetForeign, bundleVars
<1>1. \A x \in Signals : \/ global'[x] = global[x]
                         \/ x \in LateForeign /\ global[x] = Proxy /\ global'[x] = Foreign
  BY <1>t DEF SetForeign, SetOnce, RegistryTypeOK
<1>2. Occupied => Occupied'
  BY <1>1, <1>p DEF Occupied
<1>3. \A i \in 1..3 : \A x : Seen(i, x) => Seen(i, x)'
  <2> SUFFICES ASSUME NEW i \in 1..3, NEW x, Seen(i, x) PROVE Seen(i, x)'
    OBVIOUS
  <2>1. FlushOrder[i] \in Signals
    BY OrderIsSignal
  <2> QED
    BY <1>1, <2>1 DEF Seen, Displaced
<1>4. \A x, y : Justified(x, y) => Justified(x, y)'
  BY <1>u, <1>2 DEF Justified, Twin
<1>5. Asked(t)' /\ KnowsShutdown(t)' /\ Answered(t)'
  BY <1>t, <1>u DEF Knows, Asked, KnowsShutdown, Answered, Disposed
<1>6. KnowsProviders(t)'
  BY <1>t, <1>u, <1>2, <1>3 DEF Knows, KnowsProviders
<1>7. KnowsVerdict(t)'
  BY <1>t, <1>u, <1>4 DEF Knows, KnowsVerdict, Disposed
<1> QED
  BY <1>5, <1>6, <1>7 DEF Knows

-----------------------------------------------------------------------------
(* The inductive invariant.                                                 *)

LEMMA RegistryInvInit == RegistryInit => RegistryInv
<1> SUFFICES ASSUME RegistryInit PROVE RegistryInv
  OBVIOUS
<1>p. Proxy \notin Bundles /\ Foreign \notin Bundles /\ NoThread \notin Threads
  BY RegistryAssumption
<1>1. \A s \in Signals : global[s] \in {Proxy, Foreign}
  BY DEF RegistryInit
<1>2. RegistryTypeOK
  <2>1. NotStarted \in RegFrame /\ NoAnswer \in Answers
    BY AskingIsFrame, AnswerIsAnswer DEF NotStarted
  <2>2. global \in [Signals -> {Proxy, Foreign} \cup Bundles]
    BY DEF RegistryInit
  <2> QED
    BY <2>1, <2>2 DEF RegistryInit, RegistryTypeOK
<1>3. \A t \in Threads : /\ reg[t].pc = "idle" /\ reg[t].bundle = NoBundle
                         /\ answer[t] = NoAnswer
  BY DEF RegistryInit, NotStarted, Asking
<1>4. LockHeld
  BY <1>p, <1>3 DEF RegistryInit, LockHeld, InLock
<1>5. GlobalsNeverMixed
  BY <1>p, <1>1 DEF RegistryInit, GlobalsNeverMixed
<1>6. \A t \in Threads : Knows(t) /\ Answered(t)
  BY <1>3 DEF Knows, Asked, KnowsProviders, KnowsVerdict, KnowsShutdown, Answered
<1> QED
  BY <1>2, <1>4, <1>5, <1>6 DEF RegistryInv

LEMMA RegistryInvStep ==
  RegistryInv /\ BundleInv /\ [RegistryNext]_processVars => RegistryInv'
<1> SUFFICES ASSUME RegistryInv, BundleInv, [RegistryNext]_processVars PROVE RegistryInv'
  OBVIOUS
<1>1. CASE UNCHANGED processVars
  BY <1>1 DEF processVars, bundleVars, registryVars, RegistryInv, RegistryTypeOK, LockHeld,
     GlobalsNeverMixed, Knows, Asked, KnowsProviders, KnowsVerdict, KnowsShutdown, Answered,
     Justified, Disposed, Seen, Displaced, Twin, Occupied
<1>2. CASE RegistryNext
  <2>1. RegistryTypeOK' /\ LockHeld' /\ GlobalsNeverMixed'
    BY <1>2, RegistryTypeStep, LockStep, MixStep
  <2>2. ASSUME NEW t \in Threads, ThreadStep(t), NEW u \in Threads
        PROVE  Knows(u)' /\ Answered(u)'
    <3>1. CASE u # t
      BY <2>2, <3>1, OthersKnow
    <3>2. ASSUME InstallStep(t) PROVE Knows(t)' /\ Answered(t)'
      BY <3>2, WaitKnow, FoundKnow, LookKnow, DecideKnow, SetKnow, RecordKnow,
         DiscardKnow, DiscardedKnow, ReleaseKnow DEF InstallStep
    <3>3. CASE u = t
      BY <2>2, <3>2, <3>3, WaitKnow, InterruptedKnow, UseKnow DEF ThreadStep
    <3> QED
      BY <3>1, <3>3
  <2>3. \A u \in Threads : Knows(u)' /\ Answered(u)'
    BY <1>2, <2>2, NextSteps, ForeignKnow DEF ThreadStep
  <2> QED
    BY <2>1, <2>3 DEF RegistryInv
<1> QED
  BY <1>1, <1>2

\* Both invariants hold of the process: the registry's steps are steps of the
\* bundles, and what a thread knows stays true whatever the others do.
THEOREM ProcessInvariant == RegistrySpec => [](RegistryInv /\ BundleInv)
<1>1. RegistryInit => RegistryInv /\ BundleInv
  BY RegistryInvInit, BundleInvInit DEF RegistryInit
<1>2. RegistryInv /\ BundleInv /\ [RegistryNext]_processVars => (RegistryInv /\ BundleInv)'
  <2> SUFFICES ASSUME RegistryInv, BundleInv, [RegistryNext]_processVars
               PROVE  BundleInv'
    BY RegistryInvStep
  <2>1. [BundleNext]_bundleVars
    BY BundlesStep DEF processVars
  <2> QED
    BY <2>1, BundleInvStep
<1> QED
  BY <1>1, <1>2, PTL DEF RegistrySpec

\* What each thread knows while it installs stays true until it uses it.
THEOREM RegistryInvariant == RegistrySpec => []RegistryInv
BY ProcessInvariant, PTL

\* The variables of the registry keep their types.
THEOREM RegistryTypeCorrect == RegistrySpec => []RegistryTypeOK
<1>1. RegistryInv => RegistryTypeOK
  BY DEF RegistryInv
<1> QED
  BY <1>1, RegistryInvariant, PTL

\* The process never has providers of two bundles, and a recorded installation
\* has all of them that nobody else may take.
THEOREM ProvidersAreNotMixed == RegistrySpec => []GlobalsNeverMixed
<1>1. RegistryInv => GlobalsNeverMixed
  BY DEF RegistryInv
<1> QED
  BY <1>1, RegistryInvariant, PTL

\* Where nobody else sets providers while the plugin runs, a recorded
\* installation is the one the process uses.
THEOREM InstallationIsGlobal ==
  ASSUME LateForeign = {}
  PROVE  RegistrySpec => []InstalledIsGlobal
<1>1. RegistryInv => InstalledIsGlobal
  BY DEF RegistryInv, GlobalsNeverMixed, Displaced, InstalledIsGlobal
<1> QED
  BY <1>1, RegistryInvariant, PTL

\* Every bundle that was not wanted is shut down before its caller is told.
THEOREM LosersGetClosed == RegistrySpec => []LosersAreClosed
<1>1. RegistryInv => LosersAreClosed
  <2> SUFFICES ASSUME RegistryInv, NEW t \in Threads,
                      \/ answer[t].kind = "conflict"
                      \/ answer[t].kind = "bundle" /\ answer[t].bundle # reg[t].bundle
               PROVE  report[reg[t].bundle] # NoReport
    BY DEF LosersAreClosed
  <2>1. answer[t] # NoAnswer /\ answer[t] # Interrupted
    BY DEF NoAnswer, Interrupted, Answer
  <2>2. answer[t] # Answer("bundle", reg[t].bundle)
    BY DEF Answer
  <2> QED
    BY <2>1, <2>2 DEF RegistryInv, Answered, Disposed
<1> QED
  BY <1>1, RegistryInvariant, PTL

\* The installed bundle is never the one the registry shuts down.
THEOREM InstalledGetsSpared == RegistrySpec => []InstalledIsSpared
<1>1. RegistryInv => InstalledIsSpared
  BY DEF RegistryInv, Knows, KnowsVerdict, InstalledIsSpared
<1> QED
  BY <1>1, RegistryInvariant, PTL

-----------------------------------------------------------------------------
(* The registry implements the write-once register.                         *)

LEMMA RegisterInit ==
  ASSUME RegistryInit
  PROVE  Register!Init
<1>1. \A t \in Threads : reg[t].bundle = NoBundle
  BY DEF RegistryInit, NotStarted, Asking
<1>2. [t \in Threads |-> reg[t].bundle] = [t \in Threads |-> NoBundle]
  BY <1>1
<1>3. answer = [t \in Threads |-> Register!NoAnswer]
  BY DEF RegistryInit, NoAnswer, Answer, Register!NoAnswer
<1>4. installation = NoBundle
  BY DEF RegistryInit
<1>5. (\E s \in Signals : global[s] # Proxy) \in BOOLEAN
  OBVIOUS
<1> QED
  BY <1>2, <1>3, <1>4, <1>5 DEF Register!Init

\* Setting a provider occupies the process, or changes nothing.
LEMMA SetOnceOccupies ==
  ASSUME RegistryTypeOK, NEW s \in Signals, NEW p, p # Proxy, SetOnce(s, p)
  PROVE  Occupied'
<1>1. global'[s] # Proxy
  BY DEF SetOnce, RegistryTypeOK
<1> QED
  BY <1>1 DEF Occupied

LEMMA RegisterStutters ==
  ASSUME \A u \in Threads : reg'[u].bundle = reg[u].bundle,
         installation' = installation, answer' = answer,
         Occupied' <=> Occupied
  PROVE  UNCHANGED Register!vars
<1>1. [t \in Threads |-> reg[t].bundle]' = [t \in Threads |-> reg[t].bundle]
  OBVIOUS
<1> QED
  BY <1>1 DEF Register!vars, Occupied

LEMMA RegisterOccupied ==
  ASSUME \A u \in Threads : reg'[u].bundle = reg[u].bundle,
         installation' = installation, answer' = answer, Occupied'
  PROVE  Register!Occupy
<1>1. [t \in Threads |-> reg[t].bundle]' = [t \in Threads |-> reg[t].bundle]
  OBVIOUS
<1> QED
  BY <1>1 DEF Register!Occupy, Occupied

\* The record of an installation writes the register, which was empty.
LEMMA RegisterClaimed ==
  ASSUME RegistryInv, NEW t \in Threads, Record(t)
  PROVE  Register!Claim(t)
<1>t. RegistryTypeOK
  BY DEF RegistryInv
<1>1. installation = NoBundle /\ answer[t] = NoAnswer
  BY DEF Record, RegistryInv, Knows, KnowsProviders, Answered
<1>2. reg[t].bundle \in Bundles /\ reg[t].bundle # NoBundle
  BY AskedIsBundle, BundleAssumption DEF Record
<1>3. \A u \in Threads : reg'[u].bundle = reg[u].bundle
  BY <1>t, Moves DEF InstallStep
<1>4. [u \in Threads |-> reg[u].bundle]' = [u \in Threads |-> reg[u].bundle]
  BY <1>3
<1>5. NoAnswer = Register!NoAnswer
  BY DEF NoAnswer, Answer, Register!NoAnswer
<1>6. Register!Pending(t)
  BY <1>1, <1>2, <1>5 DEF Register!Pending
<1> QED
  BY <1>1, <1>4, <1>6 DEF Record, Register!Claim

\* An answer that the registry gives is one that the register may give.
LEMMA RegisterReplied ==
  ASSUME RegistryInv, NEW t \in Threads, Release(t)
  PROVE  Register!Grant(t) \/ Register!Refuse(t) \/ Register!Abandon(t)
<1> DEFINE b == reg[t].bundle
           a == reg[t].verdict
<1>t. RegistryTypeOK
  BY DEF RegistryInv
<1>1. \A u \in Threads : reg'[u].bundle = reg[u].bundle
  BY <1>t, Moves DEF InstallStep
<1>2. [u \in Threads |-> reg[u].bundle]' = [u \in Threads |-> reg[u].bundle]
  BY <1>1
<1>3. Register!Reply(t, a)
  BY <1>2 DEF Release, Register!Reply
<1>4. \/ a = Interrupted /\ t \in Interruptible
      \/ Justified(a, b)
  BY DEF Release, RegistryInv, Knows, KnowsVerdict
<1>5. Register!Pending(t)
  <2>1. answer[t] = NoAnswer /\ b # NoBundle
    BY AskedIsBundle, BundleAssumption DEF Release, RegistryInv, Answered
  <2> QED
    BY <2>1 DEF Register!Pending, NoAnswer, Answer, Register!NoAnswer
<1>6. CASE a = Interrupted /\ t \in Interruptible
  <2>1. Interrupted = Register!Interrupted
    BY DEF Interrupted, Answer, Register!Interrupted
  <2> QED
    BY <1>3, <1>6, <2>1 DEF Register!Abandon
<1>7. CASE installation # NoBundle /\ Twin(b) /\ a = Answer("bundle", installation)
  <2>1. a = Register!Granted(installation)
    BY <1>7 DEF Answer, Register!Granted
  <2>2. Fingerprint[installation] = Fingerprint[b]
    BY <1>7 DEF Twin
  <2> QED
    BY <1>3, <1>5, <1>7, <2>1, <2>2 DEF Register!Grant
<1>8. CASE (IF installation = NoBundle THEN Occupied ELSE ~Twin(b)) /\ a = Conflict
  <2>1. a = Register!Conflict
    BY <1>8 DEF Conflict, Answer, Register!Conflict
  <2> QED
    BY <1>3, <1>5, <1>8, <2>1 DEF Register!Refuse, Occupied, Twin
<1> QED
  BY <1>4, <1>6, <1>7, <1>8 DEF Justified

LEMMA RegisterStep ==
  ASSUME RegistryInv, RegistryNext
  PROVE  [Register!Next]_(Register!vars)
<1>t. RegistryTypeOK
  BY DEF RegistryInv
<1>p. /\ Proxy # Foreign /\ Proxy \notin Bundles /\ NoBundle \notin Bundles
      /\ NoThread \notin Threads
  BY RegistryAssumption, BundleAssumption
<1>0. CASE UNCHANGED registryVars
  BY <1>0, RegisterStutters DEF registryVars, Occupied
<1>1. ASSUME NEW s \in Signals, SetForeign(s) PROVE Register!Next
  <2>1. Occupied'
    BY <1>1, <1>t, <1>p, SetOnceOccupies DEF SetForeign
  <2>2. Register!Occupy
    BY <1>1, <2>1, RegisterOccupied DEF SetForeign
  <2> QED
    BY <2>2 DEF Register!Next
<1>2. ASSUME NEW t \in Threads, NEW b \in Bundles, Install(t, b) PROVE Register!Next
  <2>1. reg' = [reg EXCEPT ![t] = Asking("wait", b)] /\ reg[t].bundle = NoBundle
    BY <1>2 DEF Install, RegistryInv, Knows, Asked
  <2>2. \A u \in Threads : reg'[u].bundle = IF u = t THEN b ELSE reg[u].bundle
    BY <1>t, <2>1 DEF RegistryTypeOK, Asking
  <2>3. [u \in Threads |-> reg[u].bundle]' =
          [[u \in Threads |-> reg[u].bundle] EXCEPT ![t] = b]
    BY <2>2
  <2>4. Register!Ask(t, b)
    BY <1>2, <2>1, <2>3 DEF Install, Register!Ask
  <2> QED
    BY <2>4 DEF Register!Next
<1>3. ASSUME NEW t \in Threads, InstallStep(t) PROVE [Register!Next]_(Register!vars)
  <2>m. \A u \in Threads : reg'[u].bundle = reg[u].bundle
    BY <1>3, <1>t, Moves
  <2>1. CASE Record(t)
    BY <2>1, RegisterClaimed DEF Register!Next, Register!Respond
  <2>2. CASE Release(t)
    BY <2>2, RegisterReplied DEF Register!Next, Register!Respond
  <2>3. CASE Set(t)
    <3>1. reg[t].bundle \in Bundles /\ FlushOrder[reg[t].at] \in Signals
      BY <2>3, AskedIsBundle, OrderIsSignal DEF Set
    <3>2. reg[t].bundle # Proxy
      BY <3>1, <1>p
    <3>3. Occupied'
      BY <2>3, <1>t, <3>1, <3>2, SetOnceOccupies DEF Set
    <3>4. Register!Occupy
      BY <2>m, <2>3, <3>3, RegisterOccupied DEF Set
    <3> QED
      BY <3>4 DEF Register!Next
  <2>4. CASE ~Record(t) /\ ~Release(t) /\ ~Set(t)
    <3>1. UNCHANGED <<installation, global, answer>>
      BY <1>3, <2>4 DEF InstallStep, Acquire, FoundOther, FoundTwin, FoundSelf, FoundNone,
         Look, Decide, Discard, Discarded
    <3> QED
      BY <2>m, <3>1, RegisterStutters DEF Occupied
  <2> QED
    BY <2>1, <2>2, <2>3, <2>4
<1>4. ASSUME NEW t \in Threads, InterruptInstall(t)
      PROVE  [Register!Next]_(Register!vars)
  <2>1. \A u \in Threads : reg'[u].bundle = reg[u].bundle
    <3>1. PICK pc : Settle(t, pc, Interrupted)
      BY <1>4 DEF InterruptInstall
    <3>2. reg'[t].bundle = reg[t].bundle
      BY <1>t, <3>1, SettleFields
    <3> QED
      BY <1>t, <3>1, <3>2 DEF Settle, RegistryTypeOK
  <2>2. CASE answer' = answer
    BY <1>4, <2>1, <2>2, RegisterStutters DEF InterruptInstall, Occupied
  <2>3. CASE answer' = [answer EXCEPT ![t] = Interrupted]
    <3>1. [u \in Threads |-> reg[u].bundle]' = [u \in Threads |-> reg[u].bundle]
      BY <2>1
    <3>2. Interrupted = Register!Interrupted
      BY DEF Interrupted, Answer, Register!Interrupted
    <3>3. Register!Abandon(t)
      BY <1>4, <2>3, <3>1, <3>2 DEF InterruptInstall, Register!Abandon, Register!Reply
    <3> QED
      BY <3>3 DEF Register!Next, Register!Respond
  <2> QED
    BY <1>4, <2>2, <2>3 DEF InterruptInstall
<1> QED
  BY <1>0, <1>1, <1>2, <1>3, <1>4, NextSteps DEF UseStep

\* However the installations, the closes, the interrupts and the other
\* libraries of the process interleave, what the callers of the registry see
\* is a register that is written once.
THEOREM RegistryIsRegister == RegistrySpec => IsRegister
<1>1. RegistryInit => Register!Init
  BY RegisterInit
<1>2. RegistryInv /\ [RegistryNext]_processVars => [Register!Next]_(Register!vars)
  <2> SUFFICES ASSUME RegistryInv, [RegistryNext]_processVars
               PROVE  [Register!Next]_(Register!vars)
    OBVIOUS
  <2>1. CASE UNCHANGED processVars
    BY <2>1, RegisterStutters DEF processVars, registryVars, Occupied
  <2> QED
    BY <2>1, RegisterStep
<1> QED
  BY <1>1, <1>2, RegistryInvariant, PTL DEF RegistrySpec, IsRegister, Register!Spec

=============================================================================
