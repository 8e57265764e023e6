------------------------ MODULE ProviderBundleProofs ------------------------
(***************************************************************************)
(* Theorems about ProviderBundle, for any threads, bundles, enabled and    *)
(* faulty signals.                                                         *)
(***************************************************************************)
EXTENDS ProviderBundle, TLAPS

(* Frames and results that the actions make have their types.               *)

LEMMA EnterIsFrame ==
  ASSUME NEW op \in {"idle", "force_flush", "shutdown"},
         NEW b \in Bundles \cup {NoBundle}, NEW at \in {0, 1}, NEW flag \in BOOLEAN
  PROVE  Enter(op, b, at, flag) \in Frame
<1>1. NoFlags \in [Signals -> BOOLEAN]
  BY DEF NoFlags
<1>2. at \in 0..8
  OBVIOUS
<1> QED
  BY <1>1, <1>2 DEF Enter, Frame

LEMMA IdleIsFrame == Idle \in Frame
BY EnterIsFrame DEF Idle

LEMMA FrameFlushed ==
  ASSUME NEW f \in Frame, f.at \in 1..3, NEW s \in Signals, NEW flag \in BOOLEAN
  PROVE  [f EXCEPT !.at = @ + 1, !.flushed[s] = flag] \in Frame
<1>1. f.at + 1 \in 0..8
  OBVIOUS
<1> QED
  BY <1>1 DEF Frame

LEMMA FrameDown ==
  ASSUME NEW f \in Frame, f.at \in 4..6, NEW s \in Signals, NEW flag \in BOOLEAN
  PROVE  [f EXCEPT !.at = @ + 1, !.down[s] = flag] \in Frame
<1>1. f.at + 1 \in 0..8
  OBVIOUS
<1> QED
  BY <1>1 DEF Frame

LEMMA FrameDone ==
  ASSUME NEW f \in Frame
  PROVE  [f EXCEPT !.at = 8] \in Frame
<1>1. 8 \in 0..8
  OBVIOUS
<1> QED
  BY <1>1 DEF Frame

LEMMA FrameFields ==
  ASSUME NEW f \in Frame
  PROVE  /\ f.op \in {"idle", "force_flush", "shutdown"}
         /\ f.bundle \in Bundles \cup {NoBundle}
         /\ f.at \in 0..8
         /\ f.borrowed \in BOOLEAN
         /\ f.flushed \in [Signals -> BOOLEAN]
         /\ f.down \in [Signals -> BOOLEAN]
BY DEF Frame

LEMMA ResultIsResult ==
  ASSUME NEW kind \in {"none", "invalid", "flags", "report", "interrupted"},
         NEW r \in Report \cup {NoReport}
  PROVE  Result(kind, r) \in Results
BY DEF Result, Results

LEMMA OrderIsSignal ==
  ASSUME NEW i \in 1..3
  PROVE  FlushOrder[i] \in Signals /\ DownOrder[i] \in Signals
BY DEF FlushOrder, DownOrder, Signals

LEMMA VerdictIsVerdict ==
  ASSUME NEW ok
  PROVE  Verdict(ok) \in {"ok", "failed"}
BY DEF Verdict

-----------------------------------------------------------------------------
(* Every step of a bundle keeps its variables in their types.               *)

LEMMA BundleTypeStep ==
  BundleTypeOK /\ FramesHonest /\ BundleNext => BundleTypeOK'
<1> SUFFICES ASSUME BundleTypeOK, FramesHonest, NEW t \in Threads,
                    \/ RejectTimeout(t)
                    \/ \E b \in Bundles : StartFlush(t, b) \/ Shutdown(t, b)
                    \/ CallStep(t)
                    \/ Interrupt(t)
             PROVE  BundleTypeOK'
  BY DEF BundleNext
<1> DEFINE c == call[t]
<1>f. c \in Frame
  BY DEF BundleTypeOK
<1>g. c.op # "idle" => c.bundle \in Bundles
  BY DEF FramesHonest, FrameHonest
<1>1. CASE RejectTimeout(t)
  BY <1>1, ResultIsResult DEF RejectTimeout, BundleTypeOK
<1>2. ASSUME NEW b \in Bundles, StartFlush(t, b) PROVE BundleTypeOK'
  BY <1>2, EnterIsFrame, ResultIsResult DEF StartFlush, BundleTypeOK
<1>3. ASSUME NEW b \in Bundles, Shutdown(t, b) PROVE BundleTypeOK'
  <2>1. CASE ReturnCached(t, b)
    BY <2>1, ResultIsResult DEF ReturnCached, BundleTypeOK
  <2>2. CASE StartShutdown(t, b)
    BY <2>2, EnterIsFrame, ResultIsResult DEF StartShutdown, BundleTypeOK
  <2> QED
    BY <1>3, <2>1, <2>2 DEF Shutdown
<1>4. CASE EnterFlush(t)
  BY <1>4, <1>g, EnterIsFrame DEF EnterFlush, BundleTypeOK
<1>5. CASE FlushSignal(t)
  <2> DEFINE s == FlushOrder[c.at]
  <2>1. PICK ok \in BOOLEAN :
          /\ call' = [call EXCEPT ![t] = [c EXCEPT !.at = @ + 1, !.flushed[s] = ok]]
          /\ flushes' = [flushes EXCEPT ![c.bundle][s] = @ \cup {Verdict(ok)}]
    BY <1>5 DEF FlushSignal, FlushResults
  <2>2. c.at \in 1..3 /\ s \in Signals
    BY <1>5, OrderIsSignal DEF FlushSignal
  <2> HIDE DEF s
  <2>3. [c EXCEPT !.at = @ + 1, !.flushed[s] = ok] \in Frame
    BY <1>f, <2>2, FrameFlushed
  <2>4. flushes' \in [Bundles -> [Signals -> SUBSET {"ok", "failed"}]]
    BY <2>1, <2>2, VerdictIsVerdict DEF BundleTypeOK
  <2> QED
    BY <1>5, <2>1, <2>3, <2>4 DEF FlushSignal, BundleTypeOK
<1>6. CASE BorrowFlag(t)
  <2> DEFINE s == FlushOrder[c.at]
             flag == report[c.bundle].flushed[s]
  <2>1. c.at \in 1..3 /\ s \in Signals /\ c.bundle \in Bundles
    BY <1>6, <1>g, OrderIsSignal DEF BorrowFlag
  <2>2. report[c.bundle] \in Report
    BY <1>6, <2>1 DEF BorrowFlag, BundleTypeOK, FramesHonest, FrameHonest
  <2>3. flag \in BOOLEAN
    BY <2>1, <2>2 DEF Report
  <2>4. call' = [call EXCEPT ![t] = [c EXCEPT !.at = @ + 1, !.flushed[s] = flag]]
    BY <1>6 DEF BorrowFlag
  <2> HIDE DEF s, flag
  <2>5. [c EXCEPT !.at = @ + 1, !.flushed[s] = flag] \in Frame
    BY <1>f, <2>1, <2>3, FrameFlushed
  <2> QED
    BY <1>6, <2>4, <2>5 DEF BorrowFlag, BundleTypeOK
<1>7. CASE ReturnFlags(t)
  BY <1>7, IdleIsFrame, ResultIsResult DEF ReturnFlags, BundleTypeOK
<1>8. CASE ShutdownSignal(t)
  <2> DEFINE s == DownOrder[c.at - 3]
  <2>1. PICK ok \in BOOLEAN :
          /\ call' = [call EXCEPT ![t] = [c EXCEPT !.at = @ + 1, !.down[s] = ok]]
          /\ shutdowns' = [shutdowns EXCEPT ![c.bundle][s] = @ \cup {Verdict(ok)}]
    BY <1>8 DEF ShutdownSignal, ShutdownResults
  <2>2. c.at \in 4..6 /\ s \in Signals
    BY <1>8, OrderIsSignal DEF ShutdownSignal
  <2> HIDE DEF s
  <2>3. [c EXCEPT !.at = @ + 1, !.down[s] = ok] \in Frame
    BY <1>f, <2>2, FrameDown
  <2>4. shutdowns' \in [Bundles -> [Signals -> SUBSET {"ok", "failed", "interrupted"}]]
    BY <2>1, <2>2, VerdictIsVerdict DEF BundleTypeOK
  <2> QED
    BY <1>8, <2>1, <2>3, <2>4 DEF ShutdownSignal, BundleTypeOK
<1>9. CASE Publish(t)
  <2>1. [flushed |-> c.flushed, down |-> c.down] \in Report
    BY <1>f, FrameFields DEF Report
  <2>2. [c EXCEPT !.at = 8] \in Frame
    BY <1>f, FrameDone
  <2> QED
    BY <1>9, <2>1, <2>2 DEF Publish, BundleTypeOK
<1>10. CASE ReturnReport(t)
  <2>1. report[c.bundle] \in Report \cup {NoReport}
    BY <1>10, <1>g DEF ReturnReport, BundleTypeOK
  <2> QED
    BY <1>10, <2>1, IdleIsFrame, ResultIsResult DEF ReturnReport, BundleTypeOK
<1>11. CASE Interrupt(t)
  <2>1. shutdowns' \in [Bundles -> [Signals -> SUBSET {"ok", "failed", "interrupted"}]]
    <3>1. CASE UNCHANGED shutdowns
      BY <3>1 DEF BundleTypeOK
    <3>2. CASE /\ c.at \in 4..6
               /\ shutdowns' = [shutdowns EXCEPT
                    ![c.bundle][DownOrder[c.at - 3]] = @ \cup {"interrupted"}]
      BY <3>2 DEF BundleTypeOK
    <3> QED
      BY <1>11, <3>1, <3>2 DEF Interrupt
  <2> QED
    BY <1>11, <2>1, IdleIsFrame, ResultIsResult DEF Interrupt, BundleTypeOK
<1> QED
  BY <1>1, <1>2, <1>3, <1>4, <1>5, <1>6, <1>7, <1>8, <1>9, <1>10, <1>11 DEF CallStep

-----------------------------------------------------------------------------
(* What no step takes back, and whom a step leaves alone.                    *)

\* Outcomes of SDK calls are only added, and a report does not disappear.
LEMMA OutcomesGrow ==
  ASSUME BundleTypeOK, FramesHonest, BundleNext
  PROVE  /\ \A b \in Bundles, s \in Signals :
              /\ flushes[b][s] \subseteq flushes'[b][s]
              /\ shutdowns[b][s] \subseteq shutdowns'[b][s]
         /\ \A b \in Bundles : report[b] # NoReport => report'[b] # NoReport
<1> SUFFICES ASSUME NEW t \in Threads,
                    \/ RejectTimeout(t)
                    \/ \E b \in Bundles : StartFlush(t, b) \/ Shutdown(t, b)
                    \/ CallStep(t)
                    \/ Interrupt(t),
                    NEW b \in Bundles, NEW s \in Signals
             PROVE  /\ flushes[b][s] \subseteq flushes'[b][s]
                    /\ shutdowns[b][s] \subseteq shutdowns'[b][s]
                    /\ report[b] # NoReport => report'[b] # NoReport
  BY DEF BundleNext, Signals
<1> DEFINE c == call[t]
<1>1. CASE UNCHANGED <<report, flushes, shutdowns>>
  BY <1>1
<1>2. CASE FlushSignal(t)
  BY <1>2 DEF FlushSignal, BundleTypeOK
<1>3. CASE ShutdownSignal(t)
  BY <1>3 DEF ShutdownSignal, BundleTypeOK
<1>4. CASE Publish(t)
  <2>1. [flushed |-> c.flushed, down |-> c.down] \in Report
    BY FrameFields DEF Report, BundleTypeOK
  <2>2. [flushed |-> c.flushed, down |-> c.down] # NoReport
    BY <2>1, BundleAssumption
  <2> QED
    BY <1>4, <2>2 DEF Publish, BundleTypeOK
<1>5. CASE Interrupt(t)
  BY <1>5 DEF Interrupt, BundleTypeOK
<1> QED
  BY <1>1, <1>2, <1>3, <1>4, <1>5 DEF RejectTimeout, StartFlush, Shutdown,
     ReturnCached, StartShutdown, CallStep, EnterFlush, BorrowFlag, ReturnFlags,
     ReturnReport

\* A step of one thread leaves the frames of the others alone.
LEMMA OthersStay ==
  ASSUME NEW t \in Threads, BundleTypeOK,
         \/ RejectTimeout(t)
         \/ \E b \in Bundles : StartFlush(t, b) \/ Shutdown(t, b)
         \/ CallStep(t)
         \/ Interrupt(t),
         NEW u \in Threads, u # t
  PROVE  call'[u] = call[u]
BY DEF BundleTypeOK, RejectTimeout, StartFlush, Shutdown, ReturnCached,
   StartShutdown, CallStep, EnterFlush, FlushSignal, BorrowFlag, ReturnFlags,
   ShutdownSignal, Publish, ReturnReport, Interrupt

-----------------------------------------------------------------------------
(* FramesHonest, one frame at a time.                                       *)

LEMMA HonestFlags ==
  ASSUME NEW c, FrameHonest(c), c.op # "idle", c.at \in 4..8, NEW s \in Signals
  PROVE  Verdict(c.flushed[s]) \in flushes[c.bundle][s]
<1>1. \E i \in 1..3 : s = FlushOrder[i]
  BY DEF FlushOrder, Signals
<1> QED
  BY <1>1 DEF FrameHonest

LEMMA HonestDowns ==
  ASSUME NEW c, FrameHonest(c), c.op = "shutdown", c.at \in 7..8, NEW s \in Signals
  PROVE  Verdict(c.down[s]) \in shutdowns[c.bundle][s]
<1>1. \E i \in 1..3 : s = DownOrder[i]
  BY DEF DownOrder, Signals
<1> QED
  BY <1>1 DEF FrameHonest

\* A frame that a step leaves alone stays honest, because outcomes only grow.
LEMMA HonestStays ==
  ASSUME BundleTypeOK, FramesHonest, BundleNext,
         NEW u \in Threads, call'[u] = call[u]
  PROVE  FrameHonest(call[u])'
<1> DEFINE c == call[u]
<1>1. FrameHonest(c)
  BY DEF FramesHonest
<1>2. call[u]' = c
  OBVIOUS
<1>3. \A i \in 1..3 : FlushOrder[i] \in Signals /\ DownOrder[i] \in Signals
  BY OrderIsSignal
<1> HIDE DEF c
<1> QED
  BY <1>1, <1>2, <1>3, OutcomesGrow DEF FrameHonest

LEMMA EnteredIsHonest ==
  ASSUME NEW op, NEW b \in Bundles, NEW at \in {0, 1}, NEW flag,
         flag => report[b] # NoReport
  PROVE  FrameHonest(Enter(op, b, at, flag))
<1> DEFINE e == Enter(op, b, at, flag)
<1>1. e.bundle = b /\ e.at = at /\ (e.borrowed => report[b] # NoReport)
  BY DEF Enter
<1> HIDE DEF e
<1>2. e.at # 8 /\ \A i \in 1..3 : ~(e.at > i) /\ ~(e.at > i + 3)
  BY <1>1
<1>3. e.borrowed => report[e.bundle] # NoReport
  BY <1>1
<1>4. FrameHonest(e)
  BY <1>1, <1>2, <1>3, Zenon DEF FrameHonest
<1> QED
  BY <1>4 DEF e

LEMMA HonestMoves ==
  ASSUME BundleTypeOK, FramesHonest, ReportHonest, NEW t \in Threads,
         \/ RejectTimeout(t)
         \/ \E b \in Bundles : StartFlush(t, b) \/ Shutdown(t, b)
         \/ CallStep(t)
         \/ Interrupt(t)
  PROVE  FrameHonest(call[t])'
<1> DEFINE c == call[t]
<1>f. c \in Frame /\ FrameHonest(c)
  BY DEF BundleTypeOK, FramesHonest
<1>g. c.at \in 0..8
  BY <1>f, FrameFields
<1>n. BundleNext
  BY DEF BundleNext
<1>s. \A i \in 1..3 : FlushOrder[i] \in Signals /\ DownOrder[i] \in Signals
  BY OrderIsSignal
<1>0. CASE call'[t] = call[t]
  BY <1>0, <1>n, HonestStays
<1>1. CASE call' = [call EXCEPT ![t] = Idle]
  BY <1>1 DEF FrameHonest, Idle, Enter, BundleTypeOK
<1>2. ASSUME NEW b \in Bundles, StartFlush(t, b) PROVE FrameHonest(call[t])'
  <2> DEFINE e == Enter("force_flush", b, 1, report[b] # NoReport)
  <2>1. call'[t] = e
    BY <1>2 DEF StartFlush, BundleTypeOK
  <2>2. FrameHonest(e)
    BY EnteredIsHonest
  <2> HIDE DEF e
  <2> QED
    BY <1>2, <2>1, <2>2 DEF StartFlush, FrameHonest
<1>3. ASSUME NEW b \in Bundles, StartShutdown(t, b) PROVE FrameHonest(call[t])'
  <2>1. call'[t] = Enter("shutdown", b, 0, FALSE)
    BY <1>3 DEF StartShutdown, BundleTypeOK
  <2> QED
    BY <2>1 DEF FrameHonest, Enter
<1>4. CASE EnterFlush(t)
  <2> DEFINE e == Enter("shutdown", c.bundle, 1, report[c.bundle] # NoReport)
  <2>1. call'[t] = e
    BY <1>4 DEF EnterFlush, BundleTypeOK
  <2>2. c.bundle \in Bundles
    BY <1>4, <1>f DEF EnterFlush, FrameHonest
  <2>3. FrameHonest(e)
    BY <2>2, EnteredIsHonest
  <2> HIDE DEF e
  <2> QED
    BY <1>4, <2>1, <2>3 DEF EnterFlush, FrameHonest
<1>5. CASE FlushSignal(t)
  <2> DEFINE k == c.at
             s == FlushOrder[k]
  <2>1. PICK ok \in BOOLEAN :
          /\ call' = [call EXCEPT ![t] = [c EXCEPT !.at = @ + 1, !.flushed[s] = ok]]
          /\ flushes' = [flushes EXCEPT ![c.bundle][s] = @ \cup {Verdict(ok)}]
    BY <1>5 DEF FlushSignal, FlushResults
  <2>2. k \in 1..3 /\ c.op # "idle" /\ c.bundle \in Bundles /\ s \in Signals
    BY <1>5, <1>f, <1>s DEF FlushSignal, FrameHonest
  <2> DEFINE d == call'[t]
  <2>3. /\ d.op = c.op /\ d.bundle = c.bundle /\ d.at = k + 1
        /\ d.borrowed = c.borrowed /\ d.down = c.down
        /\ d.flushed = [c.flushed EXCEPT ![s] = ok]
    BY <2>1, <1>f DEF BundleTypeOK, Frame
  <2>4. \A i \in 1..3 : i < k =>
          Verdict(c.flushed[FlushOrder[i]]) \in flushes'[c.bundle][FlushOrder[i]]
    BY <1>f, <1>s, <1>n, <2>2, OutcomesGrow DEF FrameHonest
  <2>5. \A i \in 1..3 : i < k => FlushOrder[i] # s
    BY <2>2 DEF FlushOrder
  <2>6. Verdict(d.flushed[s]) \in flushes'[d.bundle][s]
    BY <1>f, <2>1, <2>2, <2>3, FrameFields DEF BundleTypeOK
  <2> HIDE DEF d
  <2>7. \A i \in 1..3 : d.at > i =>
          Verdict(d.flushed[FlushOrder[i]]) \in flushes'[d.bundle][FlushOrder[i]]
    <3> SUFFICES ASSUME NEW i \in 1..3, i < k \/ i = k
                 PROVE  Verdict(d.flushed[FlushOrder[i]]) \in flushes'[d.bundle][FlushOrder[i]]
      BY <2>2, <2>3
    <3>1. CASE i < k
      BY <1>s, <1>f, <2>3, <2>4, <2>5, <3>1, FrameFields
    <3>2. CASE i = k
      BY <2>6, <3>2
    <3> QED
      BY <3>1, <3>2
  <2> QED
    BY <1>5, <1>f, <2>2, <2>3, <2>7 DEF d, FlushSignal, FrameHonest
<1>6. CASE BorrowFlag(t)
  <2> DEFINE k == c.at
             s == FlushOrder[k]
             flag == report[c.bundle].flushed[s]
  <2>1. call' = [call EXCEPT ![t] = [c EXCEPT !.at = @ + 1, !.flushed[s] = flag]]
    BY <1>6 DEF BorrowFlag
  <2>2. k \in 1..3 /\ c.op # "idle" /\ c.bundle \in Bundles /\ s \in Signals
    BY <1>6, <1>f, <1>s DEF BorrowFlag, FrameHonest
  <2> DEFINE d == call'[t]
  <2>3. /\ d.op = c.op /\ d.bundle = c.bundle /\ d.at = k + 1
        /\ d.borrowed = c.borrowed /\ d.down = c.down
        /\ d.flushed = [c.flushed EXCEPT ![s] = flag]
    BY <2>1, <1>f DEF BundleTypeOK, Frame
  <2>4. Verdict(flag) \in flushes[c.bundle][s]
    BY <1>6, <1>f, <2>2 DEF BorrowFlag, FrameHonest, ReportHonest
  <2> HIDE DEF flag
  <2>5. Verdict(d.flushed[s]) \in flushes[c.bundle][s]
    BY <1>f, <2>2, <2>3, <2>4, FrameFields
  <2>6. \A i \in 1..3 : i < k => FlushOrder[i] # s
    BY <2>2 DEF FlushOrder
  <2> HIDE DEF d
  <2>7. \A i \in 1..3 : d.at > i =>
          Verdict(d.flushed[FlushOrder[i]]) \in flushes[d.bundle][FlushOrder[i]]
    <3> SUFFICES ASSUME NEW i \in 1..3, i < k \/ i = k
                 PROVE  Verdict(d.flushed[FlushOrder[i]]) \in flushes[c.bundle][FlushOrder[i]]
      BY <2>2, <2>3
    <3>1. CASE i < k
      BY <1>s, <1>f, <2>2, <2>3, <2>6, <3>1, FrameFields DEF FrameHonest
    <3>2. CASE i = k
      BY <2>5, <3>2
    <3> QED
      BY <3>1, <3>2
  <2>8. /\ report[d.bundle] # NoReport
        /\ UNCHANGED <<report, flushes, shutdowns>>
    BY <1>6, <1>f, <2>2, <2>3 DEF BorrowFlag, FrameHonest
  <2>9. \A i \in 1..3 : ~(d.at > i + 3)
    BY <2>2, <2>3
  <2> QED
    BY <2>2, <2>3, <2>7, <2>8, <2>9 DEF d, FrameHonest
<1>7. CASE ShutdownSignal(t)
  <2> DEFINE k == c.at - 3
             s == DownOrder[k]
  <2>1. PICK ok \in BOOLEAN :
          /\ call' = [call EXCEPT ![t] = [c EXCEPT !.at = @ + 1, !.down[s] = ok]]
          /\ shutdowns' = [shutdowns EXCEPT ![c.bundle][s] = @ \cup {Verdict(ok)}]
    BY <1>7 DEF ShutdownSignal, ShutdownResults
  <2>2. c.at = k + 3 /\ k \in 1..3 /\ c.op = "shutdown" /\ c.bundle \in Bundles
    BY <1>7, <1>f DEF ShutdownSignal, FrameHonest
  <2>s. s \in Signals
    BY <2>2, <1>s
  <2> DEFINE d == call'[t]
  <2>3. /\ d.op = c.op /\ d.bundle = c.bundle /\ d.at = k + 4
        /\ d.borrowed = c.borrowed /\ d.flushed = c.flushed
        /\ d.down = [c.down EXCEPT ![s] = ok]
    BY <2>1, <2>2, <1>f DEF BundleTypeOK, Frame
  <2>4. \A i \in 1..3 : i < k =>
          Verdict(c.down[DownOrder[i]]) \in shutdowns'[c.bundle][DownOrder[i]]
    BY <1>f, <1>s, <1>n, <2>2, OutcomesGrow DEF FrameHonest
  <2>5. \A i \in 1..3 : i < k => DownOrder[i] # s
    BY <2>2 DEF DownOrder
  <2>6. Verdict(d.down[s]) \in shutdowns'[d.bundle][s]
    BY <1>f, <2>1, <2>2, <2>s, <2>3, FrameFields DEF BundleTypeOK
  <2> HIDE DEF d, k
  <2>7. \A i \in 1..3 : d.at > i + 3 =>
          Verdict(d.down[DownOrder[i]]) \in shutdowns'[d.bundle][DownOrder[i]]
    <3> SUFFICES ASSUME NEW i \in 1..3, i < k \/ i = k
                 PROVE  Verdict(d.down[DownOrder[i]]) \in shutdowns'[d.bundle][DownOrder[i]]
      BY <2>2, <2>3
    <3>1. CASE i < k
      BY <1>s, <1>f, <2>3, <2>4, <2>5, <3>1, FrameFields
    <3>2. CASE i = k
      BY <2>6, <3>2
    <3> QED
      BY <3>1, <3>2
  <2>8. \A i \in 1..3 : d.at > i =>
          Verdict(d.flushed[FlushOrder[i]]) \in flushes[d.bundle][FlushOrder[i]]
    BY <1>f, <2>2, <2>3 DEF FrameHonest
  <2> QED
    BY <1>7, <1>f, <2>2, <2>3, <2>7, <2>8 DEF d, ShutdownSignal, FrameHonest
<1>8. CASE Publish(t)
  <2>1. /\ c.op = "shutdown" /\ c.at = 7 /\ c.bundle \in Bundles
        /\ call' = [call EXCEPT ![t] = [c EXCEPT !.at = 8]]
        /\ UNCHANGED <<flushes, shutdowns>>
    BY <1>8, <1>f DEF Publish, FrameHonest
  <2> DEFINE d == call'[t]
  <2>2. /\ d.op = c.op /\ d.bundle = c.bundle /\ d.at = 8
        /\ d.borrowed = c.borrowed /\ d.flushed = c.flushed /\ d.down = c.down
    BY <2>1, <1>f DEF BundleTypeOK, Frame
  <2>3. report'[d.bundle] # NoReport
    <3>1. [flushed |-> c.flushed, down |-> c.down] \in Report
      BY <1>f, FrameFields DEF Report
    <3> QED
      BY <1>8, <2>1, <2>2, <3>1, BundleAssumption DEF Publish, BundleTypeOK
  <2> HIDE DEF d
  <2> QED
    BY <1>f, <2>1, <2>2, <2>3 DEF d, FrameHonest
<1> QED
  BY <1>0, <1>1, <1>2, <1>3, <1>4, <1>5, <1>6, <1>7, <1>8 DEF CallStep, RejectTimeout,
     Shutdown, ReturnCached, ReturnFlags, ReturnReport, Interrupt

-----------------------------------------------------------------------------
(* BundleInv is inductive.                                                  *)

LEMMA BundleInvInit == BundleInit => BundleInv
<1> SUFFICES ASSUME BundleInit PROVE BundleInv
  OBVIOUS
<1>1. BundleTypeOK
  BY IdleIsFrame, ResultIsResult DEF BundleInit, BundleTypeOK
<1>2. FramesHonest
  BY DEF BundleInit, FramesHonest, FrameHonest, Idle, Enter
<1>3. FlushBeforeShutdown /\ ReportHonest
  BY DEF BundleInit, FlushBeforeShutdown, ReportHonest, Touched
<1> QED
  BY <1>1, <1>2, <1>3 DEF BundleInv

LEMMA BundleInvStep == BundleInv /\ [BundleNext]_bundleVars => BundleInv'
<1>1. CASE UNCHANGED bundleVars /\ BundleInv
  BY <1>1 DEF bundleVars, BundleInv, BundleTypeOK, FramesHonest, FrameHonest,
     FlushBeforeShutdown, ReportHonest, Touched
<1> SUFFICES ASSUME BundleInv, NEW t \in Threads,
                    \/ RejectTimeout(t)
                    \/ \E b \in Bundles : StartFlush(t, b) \/ Shutdown(t, b)
                    \/ CallStep(t)
                    \/ Interrupt(t)
             PROVE  BundleInv'
  BY <1>1 DEF BundleNext
<1> USE DEF BundleInv
<1> DEFINE c == call[t]
<1>n. BundleNext
  BY DEF BundleNext
<1>f. c \in Frame /\ FrameHonest(c)
  BY DEF BundleTypeOK, FramesHonest
<1>2. BundleTypeOK'
  BY <1>n, BundleTypeStep
<1>3. FramesHonest'
  <2> SUFFICES ASSUME NEW u \in Threads PROVE FrameHonest(call[u])'
    BY DEF FramesHonest
  <2>1. CASE u = t
    BY <2>1, HonestMoves
  <2>2. CASE u # t
    BY <2>2, <1>n, OthersStay, HonestStays
  <2> QED
    BY <2>1, <2>2
<1>4. FlushBeforeShutdown'
  <2> SUFFICES ASSUME NEW b \in Bundles, NEW s \in Signals, NEW other \in Signals,
                      shutdowns'[b][s] # {}
               PROVE  flushes'[b][other] # {}
    BY DEF FlushBeforeShutdown, Touched
  <2>1. flushes[b][other] \subseteq flushes'[b][other]
    BY <1>n, OutcomesGrow
  <2>2. CASE shutdowns[b][s] # {}
    BY <2>1, <2>2 DEF FlushBeforeShutdown, Touched
  <2>3. CASE shutdowns[b][s] = {}
    <3>1. c.op = "shutdown" /\ c.at \in 4..6 /\ c.bundle = b
      <4>1. shutdowns'[b] # shutdowns[b]
        BY <2>3
      <4>2. CASE ShutdownSignal(t)
        BY <4>1, <4>2 DEF ShutdownSignal, BundleTypeOK
      <4>3. CASE Interrupt(t)
        BY <4>1, <4>3 DEF Interrupt, BundleTypeOK
      <4> QED
        BY <4>1, <4>2, <4>3 DEF CallStep, RejectTimeout, StartFlush, Shutdown,
           ReturnCached, StartShutdown, EnterFlush, FlushSignal, BorrowFlag,
           ReturnFlags, Publish, ReturnReport
    <3>2. Verdict(c.flushed[other]) \in flushes[b][other]
      BY <1>f, <3>1, HonestFlags
    <3> QED
      BY <2>1, <3>2
  <2> QED
    BY <2>2, <2>3
<1>5. ReportHonest'
  <2> SUFFICES ASSUME NEW b \in Bundles, NEW s \in Signals, report'[b] # NoReport
               PROVE  /\ Verdict(report'[b].flushed[s]) \in flushes'[b][s]
                      /\ Verdict(report'[b].down[s]) \in shutdowns'[b][s]
    BY DEF ReportHonest
  <2>1. /\ flushes[b][s] \subseteq flushes'[b][s]
        /\ shutdowns[b][s] \subseteq shutdowns'[b][s]
    BY <1>n, OutcomesGrow
  <2>2. CASE report'[b] = report[b]
    BY <2>1, <2>2 DEF ReportHonest
  <2>3. CASE report'[b] # report[b]
    <3>1. Publish(t)
      BY <2>3 DEF CallStep, RejectTimeout, StartFlush, Shutdown, ReturnCached,
         StartShutdown, EnterFlush, FlushSignal, BorrowFlag, ReturnFlags,
         ShutdownSignal, ReturnReport, Interrupt
    <3>2. c.op = "shutdown" /\ c.at = 7 /\ c.bundle = b
      BY <3>1, <2>3 DEF Publish, BundleTypeOK
    <3>3. report'[b] = [flushed |-> c.flushed, down |-> c.down]
      BY <3>1, <3>2 DEF Publish, BundleTypeOK
    <3>4. /\ Verdict(c.flushed[s]) \in flushes[b][s]
          /\ Verdict(c.down[s]) \in shutdowns[b][s]
      BY <1>f, <3>2, HonestFlags, HonestDowns
    <3> QED
      BY <2>1, <3>3, <3>4
  <2> QED
    BY <2>2, <2>3
<1> QED
  BY <1>2, <1>3, <1>4, <1>5

\* The frames, the reports and the outcomes of the SDK calls always agree, and
\* have their types.
THEOREM BundleInvariant == BundleSpec => []BundleInv
<1>1. BundleInit => BundleInv
  BY BundleInvInit
<1>2. BundleInv /\ [BundleNext]_bundleVars => BundleInv'
  BY BundleInvStep
<1> QED
  BY <1>1, <1>2, PTL DEF BundleSpec

\* The variables of a bundle keep their types.
THEOREM BundleTypeCorrect == BundleSpec => []BundleTypeOK
<1>1. BundleInv => BundleTypeOK
  BY DEF BundleInv
<1> QED
  BY <1>1, BundleInvariant, PTL

\* No provider is shut down before all three of its bundle were flushed.
THEOREM FlushedBeforeShutdown == BundleSpec => []FlushBeforeShutdown
<1>1. BundleInv => FlushBeforeShutdown
  BY DEF BundleInv
<1> QED
  BY <1>1, BundleInvariant, PTL

\* A published report tells only what really happened to the providers.
THEOREM ReportsAreHonest == BundleSpec => []ReportHonest
<1>1. BundleInv => ReportHonest
  BY DEF BundleInv
<1> QED
  BY <1>1, BundleInvariant, PTL

-----------------------------------------------------------------------------
(* Closing is final.                                                        *)

LEMMA SettledStep ==
  ASSUME BundleInv, [BundleNext]_bundleVars, NEW b \in Bundles, Settled(b)
  PROVE  /\ report'[b] = report[b] /\ flushes'[b] = flushes[b]
         /\ shutdowns'[b] = shutdowns[b]
<1>1. CASE UNCHANGED bundleVars
  BY <1>1 DEF bundleVars
<1> SUFFICES ASSUME NEW t \in Threads,
                    \/ RejectTimeout(t)
                    \/ \E x \in Bundles : StartFlush(t, x) \/ Shutdown(t, x)
                    \/ CallStep(t)
                    \/ Interrupt(t)
             PROVE  /\ report'[b] = report[b]
                    /\ flushes'[b] = flushes[b]
                    /\ shutdowns'[b] = shutdowns[b]
  BY <1>1 DEF BundleNext
<1>2. call[t].bundle = b => call[t].op = "force_flush" /\ call[t].borrowed
  BY DEF Settled
<1>3. CASE FlushSignal(t)
  BY <1>2, <1>3 DEF FlushSignal, BundleInv, BundleTypeOK
<1>4. CASE ShutdownSignal(t)
  BY <1>2, <1>4 DEF ShutdownSignal, BundleInv, BundleTypeOK
<1>5. CASE Publish(t)
  BY <1>2, <1>5 DEF Publish, BundleInv, BundleTypeOK
<1>6. CASE Interrupt(t)
  BY <1>2, <1>6 DEF Interrupt, BundleInv, BundleTypeOK
<1> QED
  BY <1>3, <1>4, <1>5, <1>6 DEF CallStep, RejectTimeout, StartFlush, Shutdown,
     ReturnCached, StartShutdown, EnterFlush, BorrowFlag, ReturnFlags, ReturnReport

\* The steps that go on with a call keep what it is a call of.
LEMMA FrameMoves ==
  ASSUME BundleInv, NEW t \in Threads,
         FlushSignal(t) \/ BorrowFlag(t) \/ ShutdownSignal(t) \/ Publish(t)
  PROVE  /\ call'[t].bundle = call[t].bundle /\ call'[t].op = call[t].op
         /\ call'[t].borrowed = call[t].borrowed
<1> DEFINE c == call[t]
           Same(d) == d.bundle = c.bundle /\ d.op = c.op /\ d.borrowed = c.borrowed
<1>1. c \in Frame
  BY DEF BundleInv, BundleTypeOK
<1>2. ASSUME NEW s, NEW ok PROVE Same([c EXCEPT !.at = @ + 1, !.flushed[s] = ok])
  BY <1>1 DEF Frame
<1>3. ASSUME NEW s, NEW ok PROVE Same([c EXCEPT !.at = @ + 1, !.down[s] = ok])
  BY <1>1 DEF Frame
<1>4. Same([c EXCEPT !.at = 8])
  BY <1>1 DEF Frame
<1>5. ASSUME NEW d, call' = [call EXCEPT ![t] = d], Same(d)
      PROVE  Same(call'[t])
  BY <1>5 DEF BundleInv, BundleTypeOK
<1> HIDE DEF Same
<1>6. Same(call'[t])
  <2>1. CASE FlushSignal(t)
    BY <1>2, <1>5, <2>1 DEF FlushSignal
  <2>2. CASE BorrowFlag(t)
    BY <1>2, <1>5, <2>2 DEF BorrowFlag
  <2>3. CASE ShutdownSignal(t)
    BY <1>3, <1>5, <2>3 DEF ShutdownSignal
  <2>4. CASE Publish(t)
    BY <1>4, <1>5, <2>4 DEF Publish
  <2> QED
    BY <2>1, <2>2, <2>3, <2>4
<1> QED
  BY <1>6 DEF Same

\* A call on a settled bundle neither starts anew nor turns into another one.
LEMMA SettledStays ==
  ASSUME BundleInv, [BundleNext]_bundleVars, NEW b \in Bundles, Settled(b)
  PROVE  Settled(b)'
<1> DEFINE Harmless(c) == c.bundle = b => c.op = "force_flush" /\ c.borrowed
<1>1. \A t \in Threads : Harmless(call[t])
  BY DEF Settled
<1>2. report'[b] # NoReport
  BY SettledStep DEF Settled
<1>3. Harmless(Idle)
  BY BundleAssumption DEF Idle, Enter, BundleAssumption
<1>4. ASSUME NEW t \in Threads, NEW c, Harmless(c), call' = [call EXCEPT ![t] = c]
      PROVE  \A u \in Threads : Harmless(call'[u])
  BY <1>1, <1>4 DEF BundleInv, BundleTypeOK
<1>5. CASE UNCHANGED call
  BY <1>1, <1>2, <1>5 DEF Settled
<1> SUFFICES ASSUME NEW t \in Threads,
                    \/ \E x \in Bundles : StartFlush(t, x) \/ StartShutdown(t, x)
                    \/ CallStep(t)
                    \/ Interrupt(t)
             PROVE  \A u \in Threads : Harmless(call'[u])
  BY <1>2, <1>5 DEF BundleNext, bundleVars, RejectTimeout, Shutdown, ReturnCached, Settled
<1> HIDE DEF Harmless
<1>6. ASSUME NEW x \in Bundles, StartFlush(t, x) \/ StartShutdown(t, x)
      PROVE  \A u \in Threads : Harmless(call'[u])
  <2>1. Harmless(Enter("force_flush", x, 1, report[x] # NoReport))
    BY DEF Harmless, Enter, Settled
  <2>2. x # b => Harmless(Enter("shutdown", x, 0, FALSE))
    BY DEF Harmless, Enter
  <2> QED
    BY <1>4, <1>6, <2>1, <2>2 DEF StartFlush, StartShutdown, Settled
<1>7. CASE ReturnFlags(t) \/ ReturnReport(t) \/ Interrupt(t)
  BY <1>3, <1>4, <1>7 DEF ReturnFlags, ReturnReport, Interrupt
<1>8. CASE EnterFlush(t)
  <2>1. call[t].bundle # b
    BY <1>1, <1>8 DEF EnterFlush, Harmless
  <2>2. Harmless(Enter("shutdown", call[t].bundle, 1, report[call[t].bundle] # NoReport))
    BY <2>1 DEF Harmless, Enter
  <2> QED
    BY <1>4, <1>8, <2>2 DEF EnterFlush
<1>9. CASE FlushSignal(t) \/ BorrowFlag(t) \/ ShutdownSignal(t) \/ Publish(t)
  <2> DEFINE c == call[t]
  <2>1. /\ call'[t].bundle = c.bundle /\ call'[t].op = c.op
        /\ call'[t].borrowed = c.borrowed
    BY <1>9, FrameMoves
  <2>2. \A u \in Threads : u # t => call'[u] = call[u]
    BY <1>9 DEF FlushSignal, BorrowFlag, ShutdownSignal, Publish, BundleInv, BundleTypeOK
  <2> QED
    BY <1>1, <2>1, <2>2 DEF Harmless
<1> QED
  BY <1>6, <1>7, <1>8, <1>9 DEF CallStep

\* Once the racing calls on a closed bundle have drained, nothing touches its
\* providers or its report again.
THEOREM ClosingIsFinal == BundleSpec => CloseIsFinal
<1>1. BundleInv /\ [BundleNext]_bundleVars =>
        [\A b \in Bundles : Settled(b) =>
           /\ Settled(b)'
           /\ report'[b] = report[b]
           /\ flushes'[b] = flushes[b]
           /\ shutdowns'[b] = shutdowns[b]]_bundleVars
  BY SettledStep, SettledStays
<1> QED
  BY <1>1, BundleInvariant, PTL DEF BundleSpec, CloseIsFinal

=============================================================================
