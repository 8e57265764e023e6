--------------------------- MODULE TelemetryProofs --------------------------
(***************************************************************************)
(* Proofs about Telemetry, for any tasks, spans and depth of blocks:       *)
(* TelemetryInv is an invariant, and so are the properties of suppression  *)
(* and of spans; no failure leaves the block of a span unseen.             *)
(***************************************************************************)
EXTENDS Telemetry, FiniteSetTheorems, TLAPS

-----------------------------------------------------------------------------
(* Blocks: how many of them suppress, and whose span is the innermost.      *)

SuppressingBlocks(bs, n) == {i \in 1..n : bs[i].kind \in {"suppress", "export"}}

LEMMA SuppressingType ==
  ASSUME NEW bs, NEW n \in Nat
  PROVE  IsFiniteSet(SuppressingBlocks(bs, n)) /\ Suppressing(bs, n) \in Nat
<1>1. IsFiniteSet(1..n)
  BY FS_Interval
<1>2. SuppressingBlocks(bs, n) \subseteq 1..n
  BY DEF SuppressingBlocks
<1>3. IsFiniteSet(SuppressingBlocks(bs, n))
  BY <1>1, <1>2, FS_Subset
<1> QED
  BY <1>3, FS_CardinalityType DEF Suppressing, SuppressingBlocks

LEMMA SuppressingNone ==
  ASSUME NEW bs
  PROVE  Suppressing(bs, 0) = 0
<1>1. SuppressingBlocks(bs, 0) = {}
  BY DEF SuppressingBlocks
<1> QED
  BY <1>1, FS_EmptySet DEF Suppressing, SuppressingBlocks

LEMMA SuppressingNext ==
  ASSUME NEW bs, NEW n \in Nat
  PROVE  Suppressing(bs, n + 1) =
           IF bs[n + 1].kind \in {"suppress", "export"} THEN Suppressing(bs, n) + 1
           ELSE Suppressing(bs, n)
<1> DEFINE S == SuppressingBlocks(bs, n)
<1>1. CASE bs[n + 1].kind \in {"suppress", "export"}
  <2>1. SuppressingBlocks(bs, n + 1) = S \cup {n + 1} /\ n + 1 \notin S
    BY <1>1 DEF SuppressingBlocks
  <2>2. Cardinality(S \cup {n + 1}) = Cardinality(S) + 1
    BY <2>1, SuppressingType, FS_AddElement
  <2> QED
    BY <1>1, <2>1, <2>2 DEF Suppressing, SuppressingBlocks
<1>2. CASE ~(bs[n + 1].kind \in {"suppress", "export"})
  <2>1. SuppressingBlocks(bs, n + 1) = S
    BY <1>2 DEF SuppressingBlocks
  <2> QED
    BY <1>2, <2>1 DEF Suppressing, SuppressingBlocks
<1> QED
  BY <1>1, <1>2

LEMMA SuppressingSome ==
  ASSUME NEW bs, NEW n \in Nat, NEW i \in 1..n, bs[i].kind \in {"suppress", "export"}
  PROVE  Suppressing(bs, n) > 0
<1>1. i \in SuppressingBlocks(bs, n)
  BY DEF SuppressingBlocks
<1>2. Cardinality(SuppressingBlocks(bs, n)) # 0
  BY <1>1, SuppressingType, FS_EmptySet
<1>3. Suppressing(bs, n) \in Nat /\ Suppressing(bs, n) # 0
  BY <1>2, SuppressingType DEF Suppressing, SuppressingBlocks
<1> QED
  BY <1>3

\* Both are the same of blocks that have the same kinds and spans.
Alike(bs, cs, n) == \A i \in 1..n : bs[i].kind = cs[i].kind /\ bs[i].span = cs[i].span

LEMMA SuppressingAlike ==
  ASSUME NEW bs, NEW cs, NEW n \in Nat, Alike(bs, cs, n)
  PROVE  Suppressing(bs, n) = Suppressing(cs, n)
<1>1. SuppressingBlocks(bs, n) = SuppressingBlocks(cs, n)
  BY DEF SuppressingBlocks, Alike
<1> QED
  BY <1>1 DEF Suppressing, SuppressingBlocks

LEMMA InnermostAlike ==
  ASSUME NEW bs, NEW cs, NEW n \in Nat, Alike(bs, cs, n), NEW o, NEW s, Innermost(bs, n, o, s)
  PROVE  Innermost(cs, n, o, s)
BY DEF Innermost, Alike

LEMMA InnermostNext ==
  ASSUME NEW bs, NEW n \in Nat, NEW o, NEW s, Innermost(bs, n, o, s)
  PROVE  Innermost(bs, n + 1, o, IF bs[n + 1].kind = "span" THEN bs[n + 1].span ELSE s)
<1>1. CASE bs[n + 1].kind = "span"
  <2>1. n + 1 \in 1..(n + 1) /\ (n + 1 + 1)..(n + 1) = {}
    OBVIOUS
  <2> QED
    BY <1>1, <2>1 DEF Innermost
<1>2. CASE bs[n + 1].kind # "span"
  <2>1. CASE s = o /\ \A i \in 1..n : bs[i].kind # "span"
    BY <1>2, <2>1 DEF Innermost
  <2>2. ASSUME NEW i \in 1..n, bs[i].kind = "span", bs[i].span = s,
               \A j \in (i + 1)..n : bs[j].kind # "span"
        PROVE  Innermost(bs, n + 1, o, s)
    <3>1. i \in 1..(n + 1) /\ \A j \in (i + 1)..(n + 1) : bs[j].kind # "span"
      BY <1>2, <2>2
    <3> QED
      BY <2>2, <3>1 DEF Innermost
  <2> QED
    BY <1>2, <2>1, <2>2 DEF Innermost
<1> QED
  BY <1>1, <1>2

-----------------------------------------------------------------------------
(* Nesting, of the blocks bs of a task that started from what from says.    *)

Restores(bs, from) ==
  \A i \in 1..Len(bs) :
    /\ bs[i].depth = from.depth + Suppressing(bs, i - 1)
    /\ Innermost(bs, i - 1, from.current, bs[i].current)

Nested(bs, from, d, c) ==
  /\ d = from.depth + Suppressing(bs, Len(bs))
  /\ Innermost(bs, Len(bs), from.current, c)
  /\ Restores(bs, from)

LEMMA NestedEmpty ==
  ASSUME NEW from, from.depth \in Nat
  PROVE  Nested(<<>>, from, from.depth, from.current)
BY SuppressingNone DEF Nested, Restores, Innermost

LEMMA NestedRestores ==
  ASSUME NEW bs \in Seq(Block), NEW cs \in Seq(Block), NEW from, Restores(bs, from),
         Len(cs) <= Len(bs), Alike(bs, cs, Len(cs)),
         \A i \in 1..Len(cs) : cs[i].depth = bs[i].depth /\ cs[i].current = bs[i].current
  PROVE  Restores(cs, from)
<1> SUFFICES ASSUME NEW i \in 1..Len(cs)
             PROVE  /\ cs[i].depth = from.depth + Suppressing(cs, i - 1)
                    /\ Innermost(cs, i - 1, from.current, cs[i].current)
  BY DEF Restores
<1>1. i - 1 \in Nat /\ i \in 1..Len(bs) /\ Alike(bs, cs, i - 1)
  BY DEF Alike
<1>2. bs[i].depth = from.depth + Suppressing(bs, i - 1)
      /\ Innermost(bs, i - 1, from.current, bs[i].current)
  BY <1>1 DEF Restores
<1> QED
  BY <1>1, <1>2, SuppressingAlike, InnermostAlike

\* What a block keeps when it is entered is what nesting has made until then.
LEMMA NestedPush ==
  ASSUME NEW bs \in Seq(Block), NEW b \in Block, NEW from, from.depth \in Nat,
         NEW d, NEW c, Nested(bs, from, d, c), b.depth = d, b.current = c
  PROVE  Nested(Append(bs, b), from,
                IF b.kind \in {"suppress", "export"} THEN d + 1 ELSE d,
                IF b.kind = "span" THEN b.span ELSE c)
<1> DEFINE cs == Append(bs, b)
           n == Len(bs)
<1>1. n \in Nat /\ cs \in Seq(Block) /\ Len(cs) = n + 1 /\ cs[n + 1] = b
      /\ \A i \in 1..n : cs[i] = bs[i]
  OBVIOUS
<1>2. Alike(bs, cs, n)
  BY <1>1 DEF Alike
<1>3. Suppressing(cs, n) = Suppressing(bs, n) /\ Innermost(cs, n, from.current, c)
  BY <1>1, <1>2, SuppressingAlike, InnermostAlike DEF Nested
<1>4. Suppressing(cs, n) \in Nat
  BY <1>1, SuppressingType
<1>5. Suppressing(cs, n + 1) = IF b.kind \in {"suppress", "export"} THEN Suppressing(cs, n) + 1
                               ELSE Suppressing(cs, n)
  BY <1>1, SuppressingNext
<1>6. Innermost(cs, n + 1, from.current, IF b.kind = "span" THEN b.span ELSE c)
  BY <1>1, <1>3, InnermostNext
<1>7. d = from.depth + Suppressing(cs, n)
  BY <1>3 DEF Nested
<1>8. Restores(cs, from)
  <2> SUFFICES ASSUME NEW i \in 1..(n + 1)
               PROVE  /\ cs[i].depth = from.depth + Suppressing(cs, i - 1)
                      /\ Innermost(cs, i - 1, from.current, cs[i].current)
    BY <1>1 DEF Restores
  <2>1. CASE i = n + 1
    <3>1. i - 1 = n
      BY <1>1, <2>1
    <3> QED
      BY <1>1, <1>3, <1>7, <2>1, <3>1
  <2>2. CASE i # n + 1
    <3>1. i \in 1..n /\ i - 1 \in Nat
      BY <1>1, <2>2
    <3>2. Alike(bs, cs, i - 1) /\ cs[i] = bs[i]
      BY <1>1, <3>1 DEF Alike
    <3>3. bs[i].depth = from.depth + Suppressing(bs, i - 1)
          /\ Innermost(bs, i - 1, from.current, bs[i].current)
      BY <3>1 DEF Nested, Restores
    <3> QED
      BY <3>1, <3>2, <3>3, SuppressingAlike, InnermostAlike
  <2> QED
    BY <2>1, <2>2
<1> QED
  BY <1>1, <1>4, <1>5, <1>6, <1>7, <1>8 DEF Nested

\* What the last block puts back is what the blocks around it make.
LEMMA NestedPop ==
  ASSUME NEW bs \in Seq(Block), bs # <<>>, NEW from, from.depth \in Nat,
         NEW d, NEW c, Nested(bs, from, d, c), NEW b, b = bs[Len(bs)]
  PROVE  Nested(Front(bs), from,
                IF b.kind \in {"suppress", "export"} THEN b.depth ELSE d,
                IF b.kind = "span" THEN b.current ELSE c)
<1> DEFINE cs == Front(bs)
           n == Len(bs) - 1
<1>1. n \in Nat /\ Len(bs) = n + 1 /\ Len(bs) \in 1..Len(bs)
  OBVIOUS
<1>2. cs \in Seq(Block) /\ Len(cs) = n /\ \A i \in 1..n : cs[i] = bs[i]
  BY <1>1 DEF Front
<1>3. Alike(bs, cs, n)
  BY <1>2 DEF Alike
<1>4. Restores(cs, from)
  BY <1>1, <1>2, <1>3, NestedRestores DEF Nested
<1>5. Suppressing(cs, n) = Suppressing(bs, n) /\ Suppressing(bs, n) \in Nat
  BY <1>1, <1>3, SuppressingAlike, SuppressingType
<1>6. b.depth = from.depth + Suppressing(bs, n) /\ Innermost(cs, n, from.current, b.current)
  BY <1>1, <1>3, InnermostAlike DEF Nested, Restores
<1>7. Suppressing(bs, n + 1) = IF b.kind \in {"suppress", "export"} THEN Suppressing(bs, n) + 1
                               ELSE Suppressing(bs, n)
  BY <1>1, SuppressingNext
<1>8. (IF b.kind \in {"suppress", "export"} THEN b.depth ELSE d) = from.depth + Suppressing(cs, n)
  BY <1>1, <1>5, <1>6, <1>7 DEF Nested
<1>9. ASSUME b.kind # "span" PROVE Innermost(bs, n, from.current, c)
  <2>1. CASE c = from.current /\ \A i \in 1..Len(bs) : bs[i].kind # "span"
    BY <1>1, <2>1 DEF Innermost
  <2>2. ASSUME NEW i \in 1..Len(bs), bs[i].kind = "span", bs[i].span = c,
               \A j \in (i + 1)..Len(bs) : bs[j].kind # "span"
        PROVE  Innermost(bs, n, from.current, c)
    <3>1. i \in 1..n
      BY <1>1, <1>9, <2>2
    <3>2. \A j \in (i + 1)..n : bs[j].kind # "span"
      BY <1>1, <2>2
    <3> QED
      BY <2>2, <3>1, <3>2 DEF Innermost
  <2> QED
    BY <2>1, <2>2 DEF Nested, Innermost
<1>10. Innermost(cs, n, from.current, IF b.kind = "span" THEN b.current ELSE c)
  BY <1>1, <1>3, <1>6, <1>9, InnermostAlike
<1> QED
  BY <1>2, <1>4, <1>8, <1>10 DEF Nested

\* Noting a failure in a block changes nothing of the nesting.
LEMMA NestedAlike ==
  ASSUME NEW bs \in Seq(Block), NEW cs \in Seq(Block), NEW from, from.depth \in Nat,
         NEW d, NEW c, Nested(bs, from, d, c), Len(cs) = Len(bs), Alike(bs, cs, Len(bs)),
         \A i \in 1..Len(bs) : cs[i].depth = bs[i].depth /\ cs[i].current = bs[i].current
  PROVE  Nested(cs, from, d, c)
<1>1. Restores(cs, from)
  BY NestedRestores DEF Nested
<1> QED
  BY <1>1, SuppressingAlike, InnermostAlike DEF Nested

-----------------------------------------------------------------------------
(* Spans.                                                                   *)

\* What is never taken back of a span that has been made.
SpansKeep ==
  \A s \in Spans : span[s].phase # "unused" =>
    /\ span'[s].phase # "unused" /\ span'[s].work = span[s].work
    /\ span'[s].ends = span[s].ends
    /\ span'[s].phase = "live" =>
         /\ span[s].phase = "live" /\ (span[s].failed => span'[s].failed)
         /\ span[s].status # "unset" => span'[s].status # "unset"

LEMMA SameSpans ==
  ASSUME span' = span
  PROVE  SpansKeep
BY DEF SpansKeep

LEMMA MadeSpans ==
  ASSUME TelemetryTypeOK, NEW t \in Tasks, NEW s \in Spans, NEW ends \in BOOLEAN, Made(t, s, ends)
  PROVE  /\ span' \in [Spans -> SpanStates] /\ SpansKeep
         /\ span[s].phase = "unused" /\ span'[s].phase # "unused"
         /\ span'[s].ends = ends /\ span'[s].work = Work(t)
         /\ \A r \in Spans : r # s => span'[r] = span[r]
<1>1. Work(t) \in Workers
  BY DEF Work, TelemetryTypeOK, Origins, Workers
<1>2. [Unused EXCEPT !.phase = "live", !.ends = ends, !.work = Work(t)] \in SpanStates
  BY <1>1 DEF Unused, SpanStates
<1> QED
  BY <1>2 DEF TelemetryTypeOK, Made, SpansKeep, Unused

LEMMA NotedSpans ==
  ASSUME TelemetryTypeOK, NEW s \in Spans, span' = Noted(s)
  PROVE  /\ span' \in [Spans -> SpanStates] /\ SpansKeep
         /\ span'[s].phase = "live" => span'[s].failed
         /\ \A r \in Spans : span'[r].phase = span[r].phase /\ span'[r].work = span[r].work
                              /\ span'[r].ends = span[r].ends
BY DEF TelemetryTypeOK, Noted, SpansKeep, SpanStates

LEMMA MarkedSpans ==
  ASSUME TelemetryTypeOK, NEW s \in Spans, NEW status \in {"ok", "error"}, span' = Marked(s, status)
  PROVE  /\ span' \in [Spans -> SpanStates] /\ SpansKeep
         /\ span'[s].phase = "live" => span'[s].status # "unset"
         /\ \A r \in Spans : span'[r].phase = span[r].phase /\ span'[r].work = span[r].work
                              /\ span'[r].ends = span[r].ends
BY DEF TelemetryTypeOK, Marked, SpansKeep, SpanStates

LEMMA EndedSpans ==
  ASSUME TelemetryTypeOK, NEW s \in Spans, span[s].phase # "unused", span' = Ended(s)
  PROVE  /\ span' \in [Spans -> SpanStates] /\ SpansKeep
         /\ span'[s].phase = "ended"
         /\ \A r \in Spans : span'[r].phase # "unused" => span[r].phase # "unused"
         /\ \A r \in Spans : span'[r].work = span[r].work /\ span'[r].ends = span[r].ends
BY DEF TelemetryTypeOK, Ended, SpansKeep, SpanStates

-----------------------------------------------------------------------------
(* The invariant, task by task.                                             *)

TaskKnows(t) ==
  /\ Nested(blocks[t], origin[t], depth[t], current[t])
  /\ HasSpan(t) /\ NotesFailure(t) /\ StartsSuppressed(t)

Knowledge ==
  /\ TelemetryTypeOK /\ NothingFeedsBack
  /\ \A t \in Tasks : TaskKnows(t)
  /\ \A s \in Spans : EndsInBlock(s)

LEMMA KnowledgeIsInv ==
  Knowledge => TelemetryInv
<1> SUFFICES ASSUME Knowledge PROVE TelemetryInv
  OBVIOUS
<1>1. ASSUME NEW t \in Tasks PROVE DOMAIN blocks[t] = 1..Len(blocks[t])
  BY DEF Knowledge, TelemetryTypeOK
<1>2. DepthIsNesting /\ CurrentIsInnermost
  BY DEF Knowledge, TaskKnows, Nested, DepthIsNesting, CurrentIsInnermost
<1>3. ASSUME NEW t \in Tasks PROVE RestoresNesting(t)
  BY <1>1 DEF Knowledge, TaskKnows, Nested, Restores, RestoresNesting
<1> QED
  BY <1>2, <1>3 DEF Knowledge, TaskKnows, TelemetryInv

LEMMA KnowledgeInit ==
  ASSUME TelemetryInit
  PROVE  Knowledge
<1> USE DEF TelemetryInit, Bare
<1>1. TelemetryTypeOK
  BY TelemetryAssumption
  DEF TelemetryAssumption, TelemetryTypeOK, Origins, Workers, SpanStates, Unused
<1>2. NothingFeedsBack
  BY DEF NothingFeedsBack, Unused
<1>3. ASSUME NEW t \in Tasks PROVE TaskKnows(t)
  <2>1. /\ blocks[t] = <<>> /\ origin[t].depth = 0 /\ origin[t].current = None
        /\ depth[t] = 0 /\ current[t] = None /\ origin[t].work = "application"
    OBVIOUS
  <2>2. Nested(blocks[t], origin[t], depth[t], current[t])
    BY <2>1, NestedEmpty
  <2>3. DOMAIN blocks[t] = {}
    BY <2>1
  <2> QED
    BY <2>1, <2>2, <2>3 DEF TaskKnows, HasSpan, NotesFailure, StartsSuppressed
<1>4. ASSUME NEW s \in Spans PROVE EndsInBlock(s)
  BY DEF EndsInBlock, Unused
<1> QED
  BY <1>1, <1>2, <1>3, <1>4 DEF Knowledge

\* All that a task is inside of.
Context(t) == <<depth[t], current[t], blocks[t], raising[t], marking[t], origin[t]>>

LEMMA UntouchedTask ==
  ASSUME NEW t \in Tasks, TaskKnows(t), Context(t)' = Context(t), SpansKeep
  PROVE  TaskKnows(t)'
<1>0. /\ depth'[t] = depth[t] /\ current'[t] = current[t] /\ blocks'[t] = blocks[t]
      /\ raising'[t] = raising[t] /\ marking'[t] = marking[t] /\ origin'[t] = origin[t]
  BY DEF Context
<1>1. HasSpan(t)'
  BY <1>0 DEF TaskKnows, HasSpan, SpansKeep
<1>2. NotesFailure(t)'
  <2> SUFFICES ASSUME NEW i \in DOMAIN blocks[t], blocks[t][i].noted
               PROVE  LET b == blocks[t][i] IN
                      /\ i = Len(blocks[t]) /\ raising[t] /\ b.kind = "span"
                      /\ span'[b.span].phase = "live" =>
                           /\ span'[b.span].failed
                           /\ \/ marking[t] = b.span
                              \/ marking[t] = None /\ span'[b.span].status # "unset"
    BY <1>0 DEF NotesFailure
  <2>1. /\ i = Len(blocks[t]) /\ raising[t] /\ blocks[t][i].kind = "span"
        /\ blocks[t][i].span \in Spans /\ span[blocks[t][i].span].phase # "unused"
    BY DEF TaskKnows, NotesFailure, HasSpan
  <2> QED
    BY <2>1 DEF TaskKnows, NotesFailure, SpansKeep
<1>3. StartsSuppressed(t)'
  BY <1>0 DEF TaskKnows, StartsSuppressed
<1> QED
  BY <1>0, <1>1, <1>2, <1>3 DEF TaskKnows

\* A span that is to be ended stays in the block that will do so.
LEMMA EndsStay ==
  ASSUME Knowledge, NEW s \in Spans, span[s].phase # "unused", SpansKeep,
         span'[s].phase = "live" =>
           \A t \in Tasks : \A i \in DOMAIN blocks[t] :
             blocks[t][i].kind = "span" /\ blocks[t][i].span = s /\ blocks[t][i].ends =>
               \E j \in DOMAIN blocks'[t] :
                 /\ blocks'[t][j].kind = "span" /\ blocks'[t][j].span = s
                 /\ blocks'[t][j].ends
  PROVE  EndsInBlock(s)'
BY DEF Knowledge, EndsInBlock, SpansKeep

\* Who works for an exporter is suppressed.
LEMMA ExporterIsSilent ==
  ASSUME Knowledge, NEW t \in Tasks, Work(t) = "exporter"
  PROVE  instrumentation_suppressed(t)
<1>0. /\ DOMAIN blocks[t] = 1..Len(blocks[t]) /\ Len(blocks[t]) \in Nat
      /\ origin[t].depth \in Nat
      /\ depth[t] = origin[t].depth + Suppressing(blocks[t], Len(blocks[t]))
      /\ Suppressing(blocks[t], Len(blocks[t])) \in Nat
  BY SuppressingType DEF Knowledge, TelemetryTypeOK, Origins, TaskKnows, Nested
<1>1. CASE \E i \in DOMAIN blocks[t] : blocks[t][i].kind = "export"
  <2>1. Suppressing(blocks[t], Len(blocks[t])) > 0
    BY <1>0, <1>1, SuppressingSome
  <2> QED
    BY <1>0, <2>1 DEF instrumentation_suppressed
<1>2. CASE ~\E i \in DOMAIN blocks[t] : blocks[t][i].kind = "export"
  <2>1. origin[t].depth > 0
    BY <1>2 DEF Work, Knowledge, TaskKnows, StartsSuppressed
  <2> QED
    BY <1>0, <2>1 DEF instrumentation_suppressed
<1> QED
  BY <1>1, <1>2

-----------------------------------------------------------------------------
(* Steps that leave the context of every task alone.                        *)

\* Of a step that starts no span, only what it does to blocks and tasks counts.
LEMMA NoSpanStarts ==
  ASSUME Knowledge, SpansKeep, records' = records,
         \A r \in Spans : span'[r].phase # "unused" => span[r].phase # "unused",
         \A r \in Spans : span'[r].work = span[r].work /\ span'[r].ends = span[r].ends,
         \A t \in Tasks : \A i \in DOMAIN blocks[t] :
           \E j \in DOMAIN blocks'[t] :
             /\ blocks'[t][j].kind = blocks[t][i].kind /\ blocks'[t][j].span = blocks[t][i].span
             /\ blocks'[t][j].ends = blocks[t][i].ends
  PROVE  NothingFeedsBack' /\ \A s \in Spans : EndsInBlock(s)'
<1>1. NothingFeedsBack'
  BY DEF Knowledge, NothingFeedsBack
<1>2. ASSUME NEW s \in Spans PROVE EndsInBlock(s)'
  <2>1. CASE span[s].phase # "unused"
    BY <2>1, EndsStay
  <2>2. CASE span[s].phase = "unused"
    BY <2>2 DEF EndsInBlock
  <2> QED
    BY <2>1, <2>2
<1> QED
  BY <1>1, <1>2

LEMMA StartSpanStep ==
  ASSUME Knowledge, NEW t \in Tasks, NEW s \in Spans, start_span(t, s)
  PROVE  Knowledge'
<1>0. /\ ~instrumentation_suppressed(t) /\ Made(t, s, FALSE)
      /\ UNCHANGED <<depth, current, blocks, raising, marking, origin, records>>
  BY DEF start_span, contextVars
<1>1. /\ span' \in [Spans -> SpanStates] /\ SpansKeep
      /\ span'[s].ends = FALSE /\ span'[s].work = Work(t)
      /\ \A r \in Spans : r # s => span'[r] = span[r]
  BY <1>0, MadeSpans DEF Knowledge
<1>2. TelemetryTypeOK'
  BY <1>0, <1>1 DEF Knowledge, TelemetryTypeOK
<1>3. NothingFeedsBack'
  BY <1>0, <1>1, ExporterIsSilent DEF Knowledge, NothingFeedsBack
<1>4. ASSUME NEW u \in Tasks PROVE TaskKnows(u)'
  BY <1>0, <1>1, UntouchedTask DEF Knowledge, Context
<1>5. ASSUME NEW r \in Spans PROVE EndsInBlock(r)'
  BY <1>0, <1>1 DEF Knowledge, EndsInBlock
<1> QED
  BY <1>2, <1>3, <1>4, <1>5 DEF Knowledge

LEMMA SetOkStep ==
  ASSUME Knowledge, NEW t \in Tasks, NEW s \in Spans, set_ok(t, s)
  PROVE  Knowledge'
<1>0. /\ span' = Marked(s, "ok")
      /\ UNCHANGED <<depth, current, blocks, raising, marking, origin, records>>
  BY DEF set_ok, contextVars
<1>1. /\ span' \in [Spans -> SpanStates] /\ SpansKeep
      /\ \A r \in Spans : span'[r].phase = span[r].phase /\ span'[r].work = span[r].work
                           /\ span'[r].ends = span[r].ends
  BY <1>0, MarkedSpans DEF Knowledge
<1>2. TelemetryTypeOK'
  BY <1>0, <1>1 DEF Knowledge, TelemetryTypeOK
<1>3. NothingFeedsBack' /\ \A r \in Spans : EndsInBlock(r)'
  BY <1>0, <1>1, NoSpanStarts
<1>4. ASSUME NEW u \in Tasks PROVE TaskKnows(u)'
  BY <1>0, <1>1, UntouchedTask DEF Knowledge, Context
<1> QED
  BY <1>2, <1>3, <1>4 DEF Knowledge

LEMMA EndStep ==
  ASSUME Knowledge, NEW t \in Tasks, NEW s \in Spans, end(t, s)
  PROVE  Knowledge'
<1>0. /\ span' = Ended(s) /\ span[s].phase # "unused"
      /\ UNCHANGED <<depth, current, blocks, raising, marking, origin, records>>
  BY DEF end, contextVars
<1>1. /\ span' \in [Spans -> SpanStates] /\ SpansKeep
      /\ \A r \in Spans : span'[r].phase # "unused" => span[r].phase # "unused"
      /\ \A r \in Spans : span'[r].work = span[r].work /\ span'[r].ends = span[r].ends
  BY <1>0, EndedSpans DEF Knowledge
<1>2. TelemetryTypeOK'
  BY <1>0, <1>1 DEF Knowledge, TelemetryTypeOK
<1>3. NothingFeedsBack' /\ \A r \in Spans : EndsInBlock(r)'
  BY <1>0, <1>1, NoSpanStarts
<1>4. ASSUME NEW u \in Tasks PROVE TaskKnows(u)'
  BY <1>0, <1>1, UntouchedTask DEF Knowledge, Context
<1> QED
  BY <1>2, <1>3, <1>4 DEF Knowledge

LEMMA EmitStep ==
  ASSUME Knowledge, NEW t \in Tasks, emit(t)
  PROVE  Knowledge'
<1>0. /\ ~instrumentation_suppressed(t) /\ records' = records \cup {Work(t)}
      /\ UNCHANGED <<depth, current, blocks, raising, marking, origin, span>>
  BY DEF emit, contextVars
<1>1. Work(t) \in Workers
  BY DEF Work, Knowledge, TelemetryTypeOK, Origins, Workers
<1>2. TelemetryTypeOK'
  BY <1>0, <1>1 DEF Knowledge, TelemetryTypeOK
<1>3. NothingFeedsBack'
  BY <1>0, ExporterIsSilent DEF Knowledge, NothingFeedsBack
<1>4. ASSUME NEW u \in Tasks PROVE TaskKnows(u)'
  BY <1>0, UntouchedTask, SameSpans DEF Knowledge, Context
<1>5. ASSUME NEW r \in Spans PROVE EndsInBlock(r)'
  BY <1>0 DEF Knowledge, EndsInBlock
<1> QED
  BY <1>2, <1>3, <1>4, <1>5 DEF Knowledge

-----------------------------------------------------------------------------
(* Steps of one task that leave its nesting alone.                          *)

LEMMA RecordStep ==
  ASSUME Knowledge, NEW t \in Tasks, NEW s \in Spans, record_exception(t, s)
  PROVE  Knowledge'
<1>0. /\ Runs(t) /\ span' = Noted(s) /\ marking' = [marking EXCEPT ![t] = s]
      /\ UNCHANGED <<depth, current, blocks, raising, origin, records>>
  BY DEF record_exception
<1>1. /\ span' \in [Spans -> SpanStates] /\ SpansKeep
      /\ \A r \in Spans : span'[r].phase = span[r].phase /\ span'[r].work = span[r].work
                           /\ span'[r].ends = span[r].ends
  BY <1>0, NotedSpans DEF Knowledge
<1>2. TelemetryTypeOK'
  BY <1>0, <1>1 DEF Knowledge, TelemetryTypeOK
<1>3. NothingFeedsBack' /\ \A r \in Spans : EndsInBlock(r)'
  BY <1>0, <1>1, NoSpanStarts
<1>4. ASSUME NEW u \in Tasks, u # t PROVE TaskKnows(u)'
  BY <1>0, <1>1, <1>4, UntouchedTask DEF Knowledge, TelemetryTypeOK, Context
<1>5. TaskKnows(t)'
  <2>1. HasSpan(t)'
    BY <1>0, <1>1 DEF Knowledge, TaskKnows, HasSpan
  <2>2. NotesFailure(t)'
    BY <1>0 DEF Runs, Knowledge, TaskKnows, NotesFailure
  <2> QED
    BY <1>0, <2>1, <2>2 DEF Knowledge, TaskKnows, StartsSuppressed
<1> QED
  BY <1>2, <1>3, <1>4, <1>5 DEF Knowledge

LEMMA MarkErrorStep ==
  ASSUME Knowledge, NEW t \in Tasks, MarkError(t)
  PROVE  Knowledge'
<1> DEFINE s == marking[t]
<1>0. /\ s \in Spans /\ span' = Marked(s, "error") /\ marking' = [marking EXCEPT ![t] = None]
      /\ UNCHANGED <<depth, current, blocks, raising, origin, records>>
  BY DEF MarkError, Knowledge, TelemetryTypeOK
<1>1. /\ span' \in [Spans -> SpanStates] /\ SpansKeep
      /\ span'[s].phase = "live" => span'[s].status # "unset"
      /\ \A r \in Spans : span'[r].phase = span[r].phase /\ span'[r].work = span[r].work
                           /\ span'[r].ends = span[r].ends
  BY <1>0, MarkedSpans DEF Knowledge
<1>2. TelemetryTypeOK'
  BY <1>0, <1>1 DEF Knowledge, TelemetryTypeOK
<1>3. NothingFeedsBack' /\ \A r \in Spans : EndsInBlock(r)'
  BY <1>0, <1>1, NoSpanStarts
<1>4. ASSUME NEW u \in Tasks, u # t PROVE TaskKnows(u)'
  BY <1>0, <1>1, <1>4, UntouchedTask DEF Knowledge, TelemetryTypeOK, Context
<1>5. TaskKnows(t)'
  <2>1. HasSpan(t)'
    BY <1>0, <1>1 DEF Knowledge, TaskKnows, HasSpan
  <2>2. marking'[t] = None
    BY <1>0 DEF Knowledge, TelemetryTypeOK
  <2>3. NotesFailure(t)'
    <3> SUFFICES ASSUME NEW i \in DOMAIN blocks[t], blocks[t][i].noted
                 PROVE  LET b == blocks[t][i] IN
                        /\ i = Len(blocks[t]) /\ raising[t] /\ b.kind = "span"
                        /\ span'[b.span].phase = "live" =>
                             /\ span'[b.span].failed
                             /\ span'[b.span].status # "unset"
      BY <1>0, <2>2 DEF NotesFailure
    <3>1. /\ i = Len(blocks[t]) /\ raising[t] /\ blocks[t][i].kind = "span"
          /\ blocks[t][i].span \in Spans /\ span[blocks[t][i].span].phase # "unused"
      BY DEF Knowledge, TaskKnows, NotesFailure, HasSpan
    <3>2. span[blocks[t][i].span].phase = "live" =>
            /\ span[blocks[t][i].span].failed
            /\ s = blocks[t][i].span \/ span[blocks[t][i].span].status # "unset"
      BY DEF Knowledge, TaskKnows, NotesFailure
    <3> QED
      BY <1>1, <3>1, <3>2 DEF SpansKeep
  <2> QED
    BY <1>0, <2>1, <2>3 DEF Knowledge, TaskKnows, StartsSuppressed
<1> QED
  BY <1>2, <1>3, <1>4, <1>5 DEF Knowledge

\* An exception is raised, or handled: no block has noted a failure.
LEMMA RaisingStep ==
  ASSUME Knowledge, NEW t \in Tasks, Raise(t) \/ Catch(t)
  PROVE  Knowledge'
<1>0. /\ UNCHANGED <<depth, current, blocks, marking, origin, span, records>>
      /\ \E r \in BOOLEAN : raising' = [raising EXCEPT ![t] = r]
  BY DEF Raise, Catch
<1>1. TelemetryTypeOK'
  BY <1>0 DEF Knowledge, TelemetryTypeOK
<1>2. NothingFeedsBack' /\ \A r \in Spans : EndsInBlock(r)'
  BY <1>0 DEF Knowledge, NothingFeedsBack, EndsInBlock
<1>3. ASSUME NEW u \in Tasks, u # t PROVE TaskKnows(u)'
  BY <1>0, <1>3, UntouchedTask, SameSpans DEF Knowledge, TelemetryTypeOK, Context
<1>4. \A i \in DOMAIN blocks[t] : ~blocks[t][i].noted
  <2>1. blocks[t] = <<>> => DOMAIN blocks[t] = {}
    OBVIOUS
  <2>2. CASE Raise(t)
    BY <2>2 DEF Raise, Runs, Knowledge, TaskKnows, NotesFailure
  <2>3. CASE Catch(t)
    BY <2>1, <2>3 DEF Catch, Top, Last, Knowledge, TaskKnows, NotesFailure
  <2> QED
    BY <2>2, <2>3
<1>5. TaskKnows(t)'
  BY <1>0, <1>4 DEF Knowledge, TaskKnows, HasSpan, NotesFailure, StartsSuppressed
<1> QED
  BY <1>1, <1>2, <1>3, <1>5 DEF Knowledge

-----------------------------------------------------------------------------
(* Blocks are entered.                                                      *)

\* Every block of a task is still one of its blocks.
BlocksStay(t) ==
  \A i \in DOMAIN blocks[t] :
    \E j \in DOMAIN blocks'[t] :
      /\ blocks'[t][j].kind = blocks[t][i].kind /\ blocks'[t][j].span = blocks[t][i].span
      /\ blocks'[t][j].ends = blocks[t][i].ends

LEMMA EnterBlock ==
  ASSUME Knowledge, NEW t \in Tasks, NEW b \in Block, Runs(t), SpansKeep,
         blocks' = [blocks EXCEPT ![t] = Append(@, b)],
         b.depth = depth[t], b.current = current[t], ~b.noted,
         b.kind = "span" => b.span \in Spans /\ span'[b.span].phase # "unused",
         depth' = [depth EXCEPT ![t] = IF b.kind \in {"suppress", "export"} THEN @ + 1 ELSE @],
         current' = [current EXCEPT ![t] = IF b.kind = "span" THEN b.span ELSE @],
         UNCHANGED <<raising, marking, origin>>
  PROVE  /\ depth' \in [Tasks -> Nat] /\ current' \in [Tasks -> Spans \cup {None}]
         /\ blocks' \in [Tasks -> Seq(Block)]
         /\ \A u \in Tasks : TaskKnows(u)' /\ BlocksStay(u)
         /\ \E j \in DOMAIN blocks'[t] : blocks'[t][j] = b
<1> DEFINE bs == blocks[t]
           cs == Append(bs, b)
<1> USE DEF Knowledge, TelemetryTypeOK
<1>0. bs \in Seq(Block) /\ depth[t] \in Nat /\ current[t] \in Spans \cup {None}
      /\ origin[t].depth \in Nat /\ origin[t].running
  BY DEF Origins, Runs
<1>1. /\ blocks'[t] = cs /\ origin'[t] = origin[t]
      /\ depth'[t] = IF b.kind \in {"suppress", "export"} THEN depth[t] + 1 ELSE depth[t]
      /\ current'[t] = IF b.kind = "span" THEN b.span ELSE current[t]
  OBVIOUS
<1>2. /\ cs \in Seq(Block) /\ DOMAIN cs = 1..(Len(bs) + 1) /\ DOMAIN bs = 1..Len(bs)
      /\ Len(bs) \in Nat /\ cs[Len(bs) + 1] = b /\ \A i \in 1..Len(bs) : cs[i] = bs[i]
  BY <1>0
<1>3. /\ depth' \in [Tasks -> Nat] /\ current' \in [Tasks -> Spans \cup {None}]
      /\ blocks' \in [Tasks -> Seq(Block)]
  BY <1>0, <1>2
<1>4. ASSUME NEW u \in Tasks, u # t PROVE Context(u)' = Context(u) /\ blocks'[u] = blocks[u]
  BY <1>4 DEF Context
<1>5. ASSUME NEW u \in Tasks, u # t PROVE TaskKnows(u)' /\ BlocksStay(u)
  BY <1>4, <1>5, UntouchedTask DEF BlocksStay
<1>6. Nested(cs, origin[t],
             IF b.kind \in {"suppress", "export"} THEN depth[t] + 1 ELSE depth[t],
             IF b.kind = "span" THEN b.span ELSE current[t])
  BY <1>0, NestedPush DEF TaskKnows
<1>7. HasSpan(t)'
  <2> SUFFICES ASSUME NEW i \in DOMAIN cs, cs[i].kind = "span"
               PROVE  cs[i].span \in Spans /\ span'[cs[i].span].phase # "unused"
    BY <1>1 DEF HasSpan
  <2>1. CASE i = Len(bs) + 1
    BY <1>2, <2>1
  <2>2. CASE i # Len(bs) + 1
    <3>1. i \in DOMAIN bs /\ cs[i] = bs[i]
      BY <1>2, <2>2
    <3>2. bs[i].span \in Spans /\ span[bs[i].span].phase # "unused"
      BY <3>1 DEF TaskKnows, HasSpan
    <3> QED
      BY <3>1, <3>2 DEF SpansKeep
  <2> QED
    BY <2>1, <2>2
<1>8. NotesFailure(t)'
  <2>1. \A i \in DOMAIN bs : ~bs[i].noted
    BY DEF Runs, TaskKnows, NotesFailure
  <2>2. \A i \in DOMAIN cs : ~cs[i].noted
    BY <1>2, <2>1
  <2> QED
    BY <1>1, <2>2 DEF NotesFailure
<1>9. StartsSuppressed(t)'
  BY <1>0, <1>1 DEF TaskKnows, StartsSuppressed
<1>10. TaskKnows(t)'
  BY <1>1, <1>6, <1>7, <1>8, <1>9 DEF TaskKnows
<1>11. BlocksStay(t) /\ \E j \in DOMAIN blocks'[t] : blocks'[t][j] = b
  <2>1. \A i \in DOMAIN bs : i \in DOMAIN cs /\ cs[i] = bs[i]
    BY <1>2
  <2>2. BlocksStay(t)
    <3> HIDE DEF cs
    <3> QED
      BY <1>1, <2>1 DEF BlocksStay
  <2>3. Len(bs) + 1 \in DOMAIN cs /\ cs[Len(bs) + 1] = b
    BY <1>2
  <2>4. \E j \in DOMAIN blocks'[t] : blocks'[t][j] = b
    <3> HIDE DEF cs
    <3> QED
      BY <1>1, <2>3
  <2> QED
    BY <2>2, <2>4
<1> QED
  BY <1>3, <1>5, <1>10, <1>11

LEMMA EnterSpanStep ==
  ASSUME Knowledge, NEW t \in Tasks, NEW s \in Spans, NEW ends \in BOOLEAN, EnterSpan(t, s, ends)
  PROVE  Knowledge'
<1> DEFINE b == Opened(t, "span", s, ends)
<1>0. /\ Runs(t) /\ ~instrumentation_suppressed(t) /\ Made(t, s, ends)
      /\ blocks' = [blocks EXCEPT ![t] = Append(@, b)]
      /\ current' = [current EXCEPT ![t] = s]
      /\ UNCHANGED <<depth, raising, marking, origin, records>>
  BY DEF EnterSpan, Open
<1>1. /\ span' \in [Spans -> SpanStates] /\ SpansKeep
      /\ span[s].phase = "unused" /\ span'[s].phase # "unused"
      /\ span'[s].ends = ends /\ span'[s].work = Work(t)
      /\ \A r \in Spans : r # s => span'[r] = span[r]
  BY <1>0, MadeSpans DEF Knowledge
<1>2. /\ b \in Block /\ b.kind = "span" /\ b.span = s /\ b.ends = ends
      /\ b.depth = depth[t] /\ b.current = current[t] /\ ~b.noted
  BY DEF Opened, Block, Knowledge, TelemetryTypeOK
<1>3. depth' = [depth EXCEPT ![t] = IF b.kind \in {"suppress", "export"} THEN @ + 1 ELSE @]
      /\ current' = [current EXCEPT ![t] = IF b.kind = "span" THEN b.span ELSE @]
  BY <1>0, <1>2 DEF Knowledge, TelemetryTypeOK
<1>4. /\ depth' \in [Tasks -> Nat] /\ current' \in [Tasks -> Spans \cup {None}]
      /\ blocks' \in [Tasks -> Seq(Block)]
      /\ \A u \in Tasks : TaskKnows(u)' /\ BlocksStay(u)
      /\ \E j \in DOMAIN blocks'[t] : blocks'[t][j] = b
  <2>1. b.span \in Spans /\ span'[b.span].phase # "unused"
    BY <1>1, <1>2
  <2> HIDE DEF b
  <2> QED
    BY <1>0, <1>1, <1>2, <1>3, <2>1, EnterBlock
<1>5. TelemetryTypeOK'
  BY <1>0, <1>1, <1>4 DEF Knowledge, TelemetryTypeOK
<1>6. NothingFeedsBack'
  BY <1>0, <1>1, ExporterIsSilent DEF Knowledge, NothingFeedsBack
<1>7. EndsInBlock(s)'
  BY <1>1, <1>2, <1>4 DEF EndsInBlock
<1>8. ASSUME NEW r \in Spans, r # s PROVE EndsInBlock(r)'
  <2>1. CASE span[r].phase # "unused"
    <3>1. \A u \in Tasks : BlocksStay(u)
      BY <1>4
    <3> QED
      BY <1>1, <2>1, <3>1, EndsStay DEF BlocksStay
  <2>2. CASE span[r].phase = "unused"
    BY <1>1, <1>8, <2>2 DEF EndsInBlock
  <2> QED
    BY <2>1, <2>2
<1> QED
  BY <1>4, <1>5, <1>6, <1>7, <1>8 DEF Knowledge

LEMMA EnterOtherStep ==
  ASSUME Knowledge, NEW t \in Tasks,
         EnterNull(t) \/ \E kind \in {"suppress", "export"} : Suppress(t, kind)
  PROVE  Knowledge'
<1>1. PICK kind \in {"null", "suppress", "export"} :
        /\ Runs(t) /\ blocks' = [blocks EXCEPT ![t] = Append(@, Opened(t, kind, None, FALSE))]
        /\ depth' = [depth EXCEPT ![t] = IF kind = "null" THEN @ ELSE @ + 1]
        /\ UNCHANGED <<current, raising, marking, origin, span, records>>
  <2>1. CASE EnterNull(t)
    BY <2>1 DEF EnterNull, Open, Knowledge, TelemetryTypeOK
  <2>2. ASSUME NEW kind \in {"suppress", "export"}, Suppress(t, kind)
        PROVE  /\ Runs(t)
               /\ blocks' = [blocks EXCEPT ![t] = Append(@, Opened(t, kind, None, FALSE))]
               /\ depth' = [depth EXCEPT ![t] = IF kind = "null" THEN @ ELSE @ + 1]
               /\ UNCHANGED <<current, raising, marking, origin, span, records>>
    BY <2>2 DEF Suppress, Open
  <2> QED
    BY <2>1, <2>2
<1> DEFINE b == Opened(t, kind, None, FALSE)
<1>2. /\ b \in Block /\ b.kind = kind /\ b.kind # "span"
      /\ b.depth = depth[t] /\ b.current = current[t] /\ ~b.noted
  BY DEF Opened, Block, Knowledge, TelemetryTypeOK
<1>3. depth' = [depth EXCEPT ![t] = IF b.kind \in {"suppress", "export"} THEN @ + 1 ELSE @]
      /\ current' = [current EXCEPT ![t] = IF b.kind = "span" THEN b.span ELSE @]
  BY <1>1, <1>2 DEF Knowledge, TelemetryTypeOK
<1>4. /\ depth' \in [Tasks -> Nat] /\ current' \in [Tasks -> Spans \cup {None}]
      /\ blocks' \in [Tasks -> Seq(Block)]
      /\ \A u \in Tasks : TaskKnows(u)' /\ BlocksStay(u)
  BY <1>1, <1>2, <1>3, SameSpans, EnterBlock
<1>5. TelemetryTypeOK'
  BY <1>1, <1>4 DEF Knowledge, TelemetryTypeOK
<1>6. NothingFeedsBack' /\ \A r \in Spans : EndsInBlock(r)'
  BY <1>1, <1>4, SameSpans, NoSpanStarts DEF BlocksStay
<1> QED
  BY <1>4, <1>5, <1>6 DEF Knowledge

-----------------------------------------------------------------------------
(* Blocks are left.                                                         *)

LEMMA LeaveBlock ==
  ASSUME Knowledge, NEW t \in Tasks, blocks[t] # <<>>, Restore(t, Top(t)),
         NEW r \in BOOLEAN, raising' = [raising EXCEPT ![t] = r]
  PROVE  Knowledge'
<1> DEFINE b == Top(t)
           bs == blocks[t]
           cs == Front(bs)
           n == Len(bs) - 1
<1> USE DEF Knowledge, TelemetryTypeOK
<1>0. /\ blocks' = [blocks EXCEPT ![t] = cs]
      /\ depth' = IF b.kind \in {"suppress", "export"} THEN [depth EXCEPT ![t] = b.depth] ELSE depth
      /\ current' = IF b.kind = "span" THEN [current EXCEPT ![t] = b.current] ELSE current
      /\ span' = IF b.kind = "span" /\ b.ends THEN Ended(b.span) ELSE span
      /\ UNCHANGED <<marking, origin, records>>
  BY DEF Restore
<1>1. /\ bs \in Seq(Block) /\ n \in Nat /\ Len(bs) = n + 1 /\ b = bs[n + 1] /\ b \in Block
      /\ DOMAIN bs = 1..(n + 1) /\ origin[t].depth \in Nat
  <2>1. bs \in Seq(Block) /\ bs # <<>> /\ origin[t].depth \in Nat
    BY DEF Origins
  <2> QED
    BY <2>1 DEF Top, Last
<1>2. cs \in Seq(Block) /\ DOMAIN cs = 1..n /\ Len(cs) = n /\ \A i \in 1..n : cs[i] = bs[i]
  BY <1>1 DEF Front
<1>3. b.depth \in Nat /\ b.current \in Spans \cup {None}
      /\ (b.kind = "span" => b.span \in Spans /\ span[b.span].phase # "unused")
  <2>1. b = blocks[t][n + 1] /\ n + 1 \in DOMAIN blocks[t]
    BY <1>1
  <2> HIDE DEF b
  <2>2. b.depth \in Nat /\ b.current \in Spans \cup {None}
    BY <1>1 DEF Block
  <2>3. b.kind = "span" => b.span \in Spans /\ span[b.span].phase # "unused"
    BY <2>1 DEF TaskKnows, HasSpan
  <2> QED
    BY <2>2, <2>3
<1>4. /\ span' \in [Spans -> SpanStates] /\ SpansKeep
      /\ \A s \in Spans : span'[s].phase # "unused" => span[s].phase # "unused"
      /\ \A s \in Spans : span'[s].work = span[s].work /\ span'[s].ends = span[s].ends
      /\ b.kind = "span" /\ b.ends => span'[b.span].phase = "ended"
  <2>1. CASE b.kind = "span" /\ b.ends
    BY <1>0, <1>3, <2>1, EndedSpans
  <2>2. CASE ~(b.kind = "span" /\ b.ends)
    BY <1>0, <2>2, SameSpans
  <2> QED
    BY <2>1, <2>2
<1>5. TelemetryTypeOK'
  BY <1>0, <1>2, <1>3, <1>4
<1>6. ASSUME NEW u \in Tasks, u # t
      PROVE  TaskKnows(u)' /\ blocks'[u] = blocks[u]
  BY <1>0, <1>4, <1>6, UntouchedTask DEF Context
<1>7. /\ blocks'[t] = cs /\ origin'[t] = origin[t]
      /\ depth'[t] = IF b.kind \in {"suppress", "export"} THEN b.depth ELSE depth[t]
      /\ current'[t] = IF b.kind = "span" THEN b.current ELSE current[t]
  BY <1>0
<1>8. TaskKnows(t)'
  <2>1. Nested(bs, origin[t], depth[t], current[t])
    BY DEF TaskKnows
  <2>2. Nested(cs, origin[t],
               IF b.kind \in {"suppress", "export"} THEN b.depth ELSE depth[t],
               IF b.kind = "span" THEN b.current ELSE current[t])
    <3> HIDE DEF b
    <3> QED
      BY <1>1, <2>1, NestedPop
  <2>3. HasSpan(t)'
    <3> SUFFICES ASSUME NEW i \in DOMAIN cs, cs[i].kind = "span"
                 PROVE  cs[i].span \in Spans /\ span'[cs[i].span].phase # "unused"
      BY <1>7 DEF HasSpan
    <3>1. i \in DOMAIN bs /\ cs[i] = bs[i]
      BY <1>1, <1>2
    <3>2. bs[i].span \in Spans /\ span[bs[i].span].phase # "unused"
      BY <3>1 DEF TaskKnows, HasSpan
    <3> QED
      BY <1>4, <3>1, <3>2 DEF SpansKeep
  <2>4. NotesFailure(t)'
    <3>1. ASSUME NEW i \in DOMAIN cs PROVE ~cs[i].noted
      <4>1. i \in DOMAIN bs /\ cs[i] = bs[i] /\ i # Len(bs)
        BY <1>1, <1>2
      <4> QED
        BY <4>1 DEF TaskKnows, NotesFailure
    <3> QED
      BY <1>7, <3>1 DEF NotesFailure
  <2>5. StartsSuppressed(t)'
    BY <1>7 DEF TaskKnows, StartsSuppressed
  <2> QED
    BY <1>7, <2>2, <2>3, <2>4, <2>5 DEF TaskKnows
<1>9. NothingFeedsBack'
  BY <1>0, <1>4 DEF NothingFeedsBack
<1>10. ASSUME NEW s \in Spans PROVE EndsInBlock(s)'
  <2>1. CASE span[s].phase = "unused"
    BY <1>4, <2>1 DEF EndsInBlock
  <2>2. CASE span[s].phase # "unused"
    <3>1. ASSUME NEW u \in Tasks, NEW i \in DOMAIN blocks[u], span'[s].phase = "live",
                 blocks[u][i].kind = "span", blocks[u][i].span = s, blocks[u][i].ends
          PROVE  i \in DOMAIN blocks'[u] /\ blocks'[u][i] = blocks[u][i]
      <4>1. CASE u # t
        BY <1>6, <4>1
      <4>2. CASE u = t /\ i = n + 1
        BY <1>1, <1>4, <3>1, <4>2
      <4>3. CASE u = t /\ i # n + 1
        BY <1>1, <1>2, <1>7, <4>3
      <4> QED
        BY <4>1, <4>2, <4>3
    <3> QED
      BY <1>4, <2>2, <3>1, EndsStay
  <2> QED
    BY <2>1, <2>2
<1> QED
  BY <1>5, <1>6, <1>8, <1>9, <1>10

LEMMA LeaveStep ==
  ASSUME Knowledge, NEW t \in Tasks, Leave(t) \/ Unwind(t)
  PROVE  Knowledge'
<1>1. CASE Leave(t)
  <2>1. raising' = [raising EXCEPT ![t] = FALSE]
    BY <1>1 DEF Leave, Runs, Knowledge, TelemetryTypeOK
  <2> QED
    BY <1>1, <2>1, LeaveBlock DEF Leave
<1>2. CASE Unwind(t)
  <2>1. (Len(blocks[t]) > 1) \in BOOLEAN
    OBVIOUS
  <2> QED
    BY <1>2, <2>1, LeaveBlock DEF Unwind
<1> QED
  BY <1>1, <1>2

\* A failure is noted on the span of the block that is left next.
LEMMA NoteFailureStep ==
  ASSUME Knowledge, NEW t \in Tasks, NoteFailure(t)
  PROVE  Knowledge'
<1> DEFINE bs == blocks[t]
           n == Len(bs)
           s == bs[n].span
           b == [bs[n] EXCEPT !.noted = TRUE]
           cs == [bs EXCEPT ![n] = b]
<1> USE DEF Knowledge, TelemetryTypeOK
<1>0. /\ raising[t] /\ marking[t] = None /\ bs # <<>> /\ bs[n].kind = "span" /\ ~bs[n].noted
      /\ span' = Noted(s) /\ marking' = [marking EXCEPT ![t] = s]
      /\ blocks' = [blocks EXCEPT ![t] = cs]
      /\ UNCHANGED <<depth, current, raising, origin, records>>
  BY DEF NoteFailure, Top, Last
<1>1. /\ bs \in Seq(Block) /\ n \in Nat /\ n \in 1..n /\ DOMAIN bs = 1..n /\ bs[n] \in Block
      /\ origin[t].depth \in Nat
  <2>1. bs \in Seq(Block) /\ bs # <<>> /\ origin[t].depth \in Nat
    BY <1>0 DEF Origins
  <2> QED
    BY <2>1
<1>2. s \in Spans /\ span[s].phase # "unused"
  BY <1>0, <1>1 DEF TaskKnows, HasSpan
<1>3. /\ b \in Block /\ b.kind = bs[n].kind /\ b.span = bs[n].span /\ b.ends = bs[n].ends
      /\ b.depth = bs[n].depth /\ b.current = bs[n].current
  BY <1>1 DEF Block
<1>4. /\ cs \in Seq(Block) /\ Len(cs) = n /\ DOMAIN cs = 1..n
      /\ cs[n] = b /\ \A i \in 1..n : i # n => cs[i] = bs[i]
  BY <1>1, <1>3
<1>5. \A i \in 1..n : /\ cs[i].kind = bs[i].kind /\ cs[i].span = bs[i].span
                      /\ cs[i].ends = bs[i].ends /\ cs[i].depth = bs[i].depth
                      /\ cs[i].current = bs[i].current
  BY <1>3, <1>4
<1>6. /\ span' \in [Spans -> SpanStates] /\ SpansKeep
      /\ span'[s].phase = "live" => span'[s].failed
      /\ \A r \in Spans : span'[r].phase = span[r].phase /\ span'[r].work = span[r].work
                           /\ span'[r].ends = span[r].ends
  BY <1>0, <1>2, NotedSpans
<1> HIDE DEF b, cs
<1>7. TelemetryTypeOK'
  BY <1>0, <1>2, <1>4, <1>6
<1>8. ASSUME NEW u \in Tasks, u # t PROVE TaskKnows(u)' /\ blocks'[u] = blocks[u]
  BY <1>0, <1>6, <1>8, UntouchedTask DEF Context
<1>9. blocks'[t] = cs /\ marking'[t] = s /\ raising'[t]
  BY <1>0
<1>10. TaskKnows(t)'
  <2>1. Nested(cs, origin[t], depth[t], current[t])
    BY <1>1, <1>4, <1>5, NestedAlike DEF TaskKnows, Alike
  <2>2. HasSpan(t)'
    <3> SUFFICES ASSUME NEW i \in DOMAIN cs, cs[i].kind = "span"
                 PROVE  cs[i].span \in Spans /\ span'[cs[i].span].phase # "unused"
      BY <1>9 DEF HasSpan
    <3>1. i \in DOMAIN bs /\ bs[i].kind = "span" /\ cs[i].span = bs[i].span
      BY <1>1, <1>4, <1>5
    <3>2. bs[i].span \in Spans /\ span[bs[i].span].phase # "unused"
      BY <3>1 DEF TaskKnows, HasSpan
    <3> QED
      BY <1>6, <3>1, <3>2
  <2>3. NotesFailure(t)'
    <3> SUFFICES ASSUME NEW i \in DOMAIN cs, cs[i].noted
                 PROVE  /\ i = Len(cs) /\ cs[i].kind = "span"
                        /\ span'[cs[i].span].phase = "live" =>
                             span'[cs[i].span].failed /\ s = cs[i].span
      BY <1>9 DEF NotesFailure
    <3>1. i = n
      BY <1>1, <1>4 DEF TaskKnows, NotesFailure
    <3> QED
      BY <1>0, <1>1, <1>4, <1>5, <1>6, <3>1
  <2>4. StartsSuppressed(t)'
    BY <1>0, <1>1, <1>9 DEF TaskKnows, StartsSuppressed
  <2> QED
    BY <1>0, <1>9, <2>1, <2>2, <2>3, <2>4 DEF TaskKnows
<1>11. ASSUME NEW u \in Tasks PROVE BlocksStay(u)
  BY <1>1, <1>4, <1>5, <1>8, <1>9 DEF BlocksStay
<1>12. NothingFeedsBack' /\ \A r \in Spans : EndsInBlock(r)'
  BY <1>0, <1>6, <1>11, NoSpanStarts DEF BlocksStay
<1> QED
  BY <1>7, <1>8, <1>10, <1>12

-----------------------------------------------------------------------------
(* Tasks are started.                                                       *)

LEMMA StartStep ==
  ASSUME Knowledge, NEW t \in Tasks, NEW u \in Tasks, StartTask(t, u) \/ StartThread(t, u)
  PROVE  Knowledge'
<1> USE DEF Knowledge, TelemetryTypeOK
<1>0. /\ ~origin[u].running /\ UNCHANGED <<blocks, raising, marking, span, records>>
      /\ depth' = [depth EXCEPT ![u] = origin'[u].depth]
      /\ current' = [current EXCEPT ![u] = origin'[u].current]
  BY DEF StartTask, StartThread
<1>1. /\ origin' = [origin EXCEPT ![u] = origin'[u]] /\ origin'[u] \in Origins
      /\ origin'[u].running
      /\ origin'[u].work = "exporter" => origin'[u].depth > 0
  <2>1. Work(t) \in Workers
    BY DEF Work, Origins, Workers
  <2>2. CASE StartTask(t, u)
    <3> DEFINE o == [running |-> TRUE, work |-> Work(t), depth |-> depth[t], current |-> current[t]]
    <3>1. origin' = [origin EXCEPT ![u] = o] /\ o \in Origins
      BY <2>1, <2>2 DEF StartTask, Origins
    <3>2. origin'[u] = o
      BY <3>1
    <3>3. o.work = "exporter" => o.depth > 0
      BY ExporterIsSilent DEF instrumentation_suppressed
    <3> QED
      BY <3>1, <3>2, <3>3
  <2>3. CASE StartThread(t, u)
    <3> DEFINE o == [Bare(TRUE) EXCEPT !.work = IF Work(t) = "exporter" THEN "outside" ELSE Work(t)]
    <3>1. origin' = [origin EXCEPT ![u] = o] /\ o \in Origins /\ o.work # "exporter" /\ o.running
      BY <2>1, <2>3 DEF StartThread, Origins, Bare, Workers
    <3>2. origin'[u] = o
      BY <3>1
    <3> QED
      BY <3>1, <3>2
  <2> QED
    BY <2>2, <2>3
<1>2. origin'[u].depth \in Nat /\ origin'[u].current \in Spans \cup {None}
  BY <1>1 DEF Origins
<1>3. TelemetryTypeOK'
  BY <1>0, <1>1, <1>2
<1>4. ASSUME NEW v \in Tasks, v # u PROVE TaskKnows(v)'
  <2>1. depth'[v] = depth[v] /\ current'[v] = current[v] /\ origin'[v] = origin[v]
    BY <1>0, <1>1, <1>4
  <2> QED
    BY <1>0, <2>1, UntouchedTask, SameSpans DEF Context
<1>5. TaskKnows(u)'
  <2>1. blocks[u] = <<>> /\ blocks'[u] = <<>>
    BY <1>0 DEF TaskKnows, StartsSuppressed
  <2>2. DOMAIN blocks'[u] = {}
    BY <2>1
  <2>3. depth'[u] = origin'[u].depth /\ current'[u] = origin'[u].current
    BY <1>0
  <2>4. Nested(blocks'[u], origin'[u], depth'[u], current'[u])
    BY <1>2, <2>1, <2>3, NestedEmpty
  <2> QED
    BY <1>1, <2>1, <2>2, <2>4 DEF TaskKnows, HasSpan, NotesFailure, StartsSuppressed
<1>6. NothingFeedsBack' /\ \A r \in Spans : EndsInBlock(r)'
  BY <1>0 DEF NothingFeedsBack, EndsInBlock
<1> QED
  BY <1>3, <1>4, <1>5, <1>6

-----------------------------------------------------------------------------
(* The theorems.                                                            *)

LEMMA KnowledgeStays ==
  ASSUME Knowledge, TelemetryNext
  PROVE  Knowledge'
<1>1. PICK t \in Tasks :
        \/ SpanStep(t) \/ MarkError(t) \/ EnterNull(t)
        \/ \E kind \in {"suppress", "export"} : Suppress(t, kind)
        \/ Leave(t) \/ Raise(t) \/ NoteFailure(t) \/ Unwind(t) \/ Catch(t) \/ emit(t)
        \/ \E u \in Tasks : StartTask(t, u) \/ StartThread(t, u)
  BY DEF TelemetryNext
<1>2. CASE SpanStep(t)
  BY <1>2, StartSpanStep, SetOkStep, EndStep, RecordStep, EnterSpanStep DEF SpanStep
<1>3. CASE MarkError(t)
  BY <1>3, MarkErrorStep
<1>4. CASE EnterNull(t) \/ \E kind \in {"suppress", "export"} : Suppress(t, kind)
  BY <1>4, EnterOtherStep
<1>5. CASE Leave(t) \/ Unwind(t)
  BY <1>5, LeaveStep
<1>6. CASE Raise(t) \/ Catch(t)
  BY <1>6, RaisingStep
<1>7. CASE NoteFailure(t)
  BY <1>7, NoteFailureStep
<1>8. CASE emit(t)
  BY <1>8, EmitStep
<1>9. CASE \E u \in Tasks : StartTask(t, u) \/ StartThread(t, u)
  BY <1>9, StartStep
<1> QED
  BY <1>1, <1>2, <1>3, <1>4, <1>5, <1>6, <1>7, <1>8, <1>9

\* An exception leaves a block by Unwind.
LEMMA OnlyUnwindLeaves ==
  ASSUME Knowledge, TelemetryNext, NEW t \in Tasks, raising[t],
         Len(blocks'[t]) < Len(blocks[t])
  PROVE  Unwind(t)
<1> USE DEF Knowledge, TelemetryTypeOK
<1>0. Len(blocks[t]) \in Nat /\ blocks'[t] # blocks[t]
  OBVIOUS
<1>1. PICK u \in Tasks :
        \/ SpanStep(u) \/ MarkError(u) \/ EnterNull(u)
        \/ \E kind \in {"suppress", "export"} : Suppress(u, kind)
        \/ Leave(u) \/ Raise(u) \/ NoteFailure(u) \/ Unwind(u) \/ Catch(u) \/ emit(u)
        \/ \E v \in Tasks : StartTask(u, v) \/ StartThread(u, v)
  BY DEF TelemetryNext
<1>2. CASE Runs(u) /\ \E b : blocks' = [blocks EXCEPT ![u] = Append(@, b)]
  BY <1>0, <1>2 DEF Runs
<1>3. CASE SpanStep(u)
  <2>1. CASE \E s \in Spans : start_span(u, s) \/ set_ok(u, s) \/ end(u, s)
    BY <1>0, <2>1 DEF start_span, set_ok, end, contextVars
  <2>2. CASE \E s \in Spans : record_exception(u, s)
    BY <1>0, <2>2 DEF record_exception
  <2>3. CASE \E s \in Spans : \E ends \in BOOLEAN : EnterSpan(u, s, ends)
    BY <1>2, <2>3 DEF EnterSpan, Open
  <2> QED
    BY <1>3, <2>1, <2>2, <2>3 DEF SpanStep
<1>4. CASE EnterNull(u) \/ \E kind \in {"suppress", "export"} : Suppress(u, kind)
  BY <1>2, <1>4 DEF EnterNull, Suppress, Open
<1>5. CASE MarkError(u) \/ Raise(u) \/ Catch(u) \/ emit(u)
  BY <1>0, <1>5 DEF MarkError, Raise, Catch, emit, contextVars
<1>6. CASE \E v \in Tasks : StartTask(u, v) \/ StartThread(u, v)
  BY <1>0, <1>6 DEF StartTask, StartThread
<1>7. CASE Leave(u)
  BY <1>0, <1>7 DEF Leave, Runs, Restore
<1>8. CASE Unwind(u)
  BY <1>0, <1>8 DEF Unwind, Restore
<1>9. CASE NoteFailure(u)
  <2>1. blocks'[u] = [blocks[u] EXCEPT ![Len(blocks[u])].noted = TRUE]
    BY <1>9 DEF NoteFailure
  <2>2. Len(blocks'[u]) = Len(blocks[u])
    BY <2>1
  <2> QED
    BY <1>0, <1>9, <2>2 DEF NoteFailure
<1> QED
  BY <1>1, <1>3, <1>4, <1>5, <1>6, <1>7, <1>8, <1>9

LEMMA KnowledgeStutters ==
  ASSUME Knowledge, UNCHANGED telemetryVars
  PROVE  Knowledge'
<1>0. UNCHANGED <<depth, current, blocks, raising, marking, origin, span, records>>
  BY DEF telemetryVars
<1>1. TelemetryTypeOK' /\ NothingFeedsBack' /\ \A s \in Spans : EndsInBlock(s)'
  BY <1>0 DEF Knowledge, TelemetryTypeOK, NothingFeedsBack, EndsInBlock
<1>2. ASSUME NEW t \in Tasks PROVE TaskKnows(t)'
  BY <1>0, UntouchedTask, SameSpans DEF Knowledge, Context
<1> QED
  BY <1>1, <1>2 DEF Knowledge

LEMMA KnowledgeInvariant == TelemetrySpec => []Knowledge
<1> QED
  BY KnowledgeInit, KnowledgeStays, KnowledgeStutters, PTL DEF TelemetrySpec

\* What blocks, spans and tasks say of one another stays true, for any tasks,
\* spans and depth of blocks (suppression.py, tracing.py:103-130).
THEOREM TelemetryInvariant == TelemetrySpec => []TelemetryInv
BY KnowledgeInvariant, KnowledgeIsInv, PTL

\* The variables keep their types.
THEOREM TelemetryTypeCorrect == TelemetrySpec => []TelemetryTypeOK
<1>1. TelemetryInv => TelemetryTypeOK
  BY DEF TelemetryInv
<1> QED
  BY <1>1, TelemetryInvariant, PTL

\* A task is suppressed as deep as it is inside of suppressing blocks, whatever
\* is thrown through them (suppression.py:26-32).
THEOREM DepthsAreNesting == TelemetrySpec => []DepthIsNesting
<1>1. TelemetryInv => DepthIsNesting
  BY DEF TelemetryInv
<1> QED
  BY <1>1, TelemetryInvariant, PTL

\* The current span of a task is that of the innermost block of a span that it
\* is inside of (tracing.py:103-130).
THEOREM CurrentsAreInnermost == TelemetrySpec => []CurrentIsInnermost
<1>1. TelemetryInv => CurrentIsInnermost
  BY DEF TelemetryInv
<1> QED
  BY <1>1, TelemetryInvariant, PTL

\* No span and no log record is made on behalf of an exporter, except in the
\* threads that it starts (suppression.py:35-92).
THEOREM NothingIsFedBack == TelemetrySpec => []NothingFeedsBack
<1>1. TelemetryInv => NothingFeedsBack
  BY DEF TelemetryInv
<1> QED
  BY <1>1, TelemetryInvariant, PTL

\* A span that its block was to end has ended, or is inside of its block still
\* (tracing.py:116-130).
THEOREM BlocksEndSpans == TelemetrySpec => []SpansGetEnded
<1>1. TelemetryInv => SpansGetEnded
  BY DEF TelemetryInv, EndsInBlock, SpansGetEnded
<1> QED
  BY <1>1, TelemetryInvariant, PTL

\* No failed span leaves its block without the event and without a status,
\* unless somebody had ended it before (tracing.py:48-59, 126-130).
THEOREM FailuresShow == TelemetrySpec => FailureShows
<1> DEFINE Shows ==
      \A t \in Tasks :
        raising[t] /\ Len(blocks'[t]) < Len(blocks[t]) /\ Top(t).kind = "span" =>
          LET left == span[Top(t).span]
          IN  left.phase = "live" => left.failed /\ left.status # "unset"
<1>1. ASSUME Knowledge, TelemetryNext PROVE Shows
  <2> SUFFICES ASSUME NEW t \in Tasks, raising[t], Len(blocks'[t]) < Len(blocks[t]),
                      Top(t).kind = "span", span[Top(t).span].phase = "live"
               PROVE  span[Top(t).span].failed /\ span[Top(t).span].status # "unset"
    OBVIOUS
  <2>1. marking[t] = None /\ blocks[t] # <<>> /\ Top(t).noted
    BY <1>1, OnlyUnwindLeaves DEF Unwind
  <2>2. blocks[t] \in Seq(Block)
    BY <1>1 DEF Knowledge, TelemetryTypeOK
  <2>3. Len(blocks[t]) \in DOMAIN blocks[t]
    BY <2>1, <2>2
  <2>4. Top(t).span \in Spans
    BY <1>1, <2>3 DEF Knowledge, TaskKnows, HasSpan, Top, Last
  <2> QED
    BY <1>1, <2>1, <2>3, <2>4, TelemetryAssumption
    DEF Knowledge, TaskKnows, NotesFailure, Top, Last, TelemetryAssumption
<1>2. ASSUME Knowledge, [TelemetryNext]_telemetryVars PROVE [Shows]_telemetryVars
  BY <1>1, <1>2
<1> QED
  BY <1>2, KnowledgeInvariant, PTL DEF TelemetrySpec, FailureShows

=============================================================================
