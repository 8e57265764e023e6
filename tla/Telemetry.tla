------------------------------ MODULE Telemetry -----------------------------
(***************************************************************************)
(* instruments/tracing.py, instruments/logging.py, context/propagation.py  *)
(* and providers/suppression.py: spans and log records that are made in   *)
(* nested blocks, some of which suppress them.                             *)
(*                                                                         *)
(* What is current and whether telemetry is suppressed are ContextVars.  A *)
(* task stands for whatever has a context of its own: a thread, or an      *)
(* asyncio task, which starts with a copy of its creator's.                *)
(***************************************************************************)
EXTENDS Naturals, Sequences, FiniteSets, SequencesExt

CONSTANTS
  Tasks,      \* tasks and threads of the process
  Initial,    \* those that run from the start
  Spans,      \* the spans that may be started
  MaxBlocks,  \* bound: MaxBlocks[t] blocks are what task t may be inside of
  None        \* no span

ASSUME TelemetryAssumption ==
  /\ Initial \subseteq Tasks
  /\ None \notin Spans
  /\ MaxBlocks \in [Tasks -> Nat]

VARIABLES
  depth,     \* depth[t]: _suppression_depth in the context of t
  current,   \* current[t]: the current span in the context of t
  blocks,    \* blocks[t]: the with blocks and exporter calls t is inside of
  raising,   \* raising[t]: an exception is leaving them
  marking,   \* marking[t]: the span whose status t is about to set
  origin,    \* origin[t]: what t started with
  span,      \* span[s]: the SDK's span s
  records     \* whose work has made log records

telemetryVars == <<depth, current, blocks, raising, marking, origin, span, records>>
contextVars == <<depth, current, blocks, raising, marking, origin>>

-----------------------------------------------------------------------------
(* A block keeps what it has to restore: the token of the ContextVar it has *)
(* set.  A "null" block is one of start_as_current_span that is suppressed. *)

Block == [kind : {"span", "null", "suppress", "export"}, span : Spans \cup {None},
          depth : Nat, current : Spans \cup {None}, ends : BOOLEAN, noted : BOOLEAN]

Opened(t, kind, s, ends) ==
  [kind |-> kind, span |-> s, depth |-> depth[t], current |-> current[t],
   ends |-> ends, noted |-> FALSE]

Top(t) == Last(blocks[t])

\* Whose work may be done: that of the application, of an exporter, or of a
\* thread that an exporter has started.
Workers == {"application", "exporter", "outside"}

SpanStates == [phase : {"unused", "live", "ended"},
               status : {"unset", "ok", "error"}, failed : BOOLEAN,
               ends : BOOLEAN, work : Workers]

Unused == [phase |-> "unused", status |-> "unset", failed |-> FALSE,
           ends |-> FALSE, work |-> "application"]

Origins == [running : BOOLEAN, depth : Nat, current : Spans \cup {None},
            work : Workers]

Bare(running) == [running |-> running, depth |-> 0, current |-> None,
                  work |-> "application"]

\* Whose work t is doing.
Work(t) ==
  IF \E i \in DOMAIN blocks[t] : blocks[t][i].kind = "export"
  THEN "exporter" ELSE origin[t].work

\* t runs code of the application or of an exporter.
Runs(t) == origin[t].running /\ ~raising[t] /\ marking[t] = None

instrumentation_suppressed(t) == depth[t] > 0

TelemetryInit ==
  /\ depth = [t \in Tasks |-> 0]
  /\ current = [t \in Tasks |-> None]
  /\ blocks = [t \in Tasks |-> <<>>]
  /\ raising = [t \in Tasks |-> FALSE]
  /\ marking = [t \in Tasks |-> None]
  /\ origin = [t \in Tasks |-> Bare(t \in Initial)]
  /\ span = [s \in Spans |-> Unused]
  /\ records = {}

-----------------------------------------------------------------------------
(* Spans.                                                                   *)

\* The SDK makes span s.  Whether its block is to end it, and whose work it is,
\* are kept for the properties.
Made(t, s, ends) ==
  /\ span[s].phase = "unused"
  /\ span' = [span EXCEPT ![s] = [Unused EXCEPT
                !.phase = "live", !.ends = ends, !.work = Work(t)]]

\* An ended span takes no more events, and OK is a span's last status.
Noted(s) == [span EXCEPT ![s].failed = @ \/ span[s].phase = "live"]

Marked(s, status) ==
  [span EXCEPT ![s].status =
     IF span[s].phase = "live" /\ @ # "ok" THEN status ELSE @]

Ended(s) == [span EXCEPT ![s].phase = "ended"]

\* start_span.  A suppressed one is INVALID_SPAN, which changes nothing.
start_span(t, s) ==
  /\ Runs(t) /\ ~instrumentation_suppressed(t)
  /\ Made(t, s, FALSE)
  /\ UNCHANGED <<contextVars, records>>

\* SafeSpan.set_ok
set_ok(t, s) ==
  /\ Runs(t) /\ span[s].phase # "unused"
  /\ span' = Marked(s, "ok")
  /\ UNCHANGED <<contextVars, records>>

\* SafeSpan.end
end(t, s) ==
  /\ Runs(t) /\ span[s].phase # "unused"
  /\ span' = Ended(s)
  /\ UNCHANGED <<contextVars, records>>

\* SafeSpan.record_exception: first the event, then the status.
record_exception(t, s) ==
  /\ Runs(t) /\ span[s].phase # "unused"
  /\ span' = Noted(s)
  /\ marking' = [marking EXCEPT ![t] = s]
  /\ UNCHANGED <<depth, current, blocks, raising, origin, records>>

MarkError(t) ==
  /\ marking[t] # None
  /\ span' = Marked(marking[t], "error")
  /\ marking' = [marking EXCEPT ![t] = None]
  /\ UNCHANGED <<depth, current, blocks, raising, origin, records>>

-----------------------------------------------------------------------------
(* Blocks.                                                                  *)

Open(t, b) ==
  /\ Len(blocks[t]) < MaxBlocks[t]
  /\ blocks' = [blocks EXCEPT ![t] = Append(@, b)]

\* Mutant: suppression is not looked at.
EnterSpanAlways(t, s, ends) ==
  /\ Runs(t)
  /\ Made(t, s, ends)
  /\ Open(t, Opened(t, "span", s, ends))
  /\ current' = [current EXCEPT ![t] = s]
  /\ UNCHANGED <<depth, raising, marking, origin, records>>

\* start_as_current_span
EnterSpan(t, s, ends) ==
  /\ Runs(t) /\ ~instrumentation_suppressed(t)
  /\ Made(t, s, ends)
  /\ Open(t, Opened(t, "span", s, ends))
  /\ current' = [current EXCEPT ![t] = s]
  /\ UNCHANGED <<depth, raising, marking, origin, records>>

\* start_as_current_span where telemetry is suppressed.
EnterNull(t) ==
  /\ Runs(t) /\ instrumentation_suppressed(t)
  /\ Open(t, Opened(t, "null", None, FALSE))
  /\ UNCHANGED <<depth, current, raising, marking, origin, span, records>>

\* suppress_instrumentation, used by the application or around an exporter.
Suppress(t, kind) ==
  /\ Runs(t)
  /\ Open(t, Opened(t, kind, None, FALSE))
  /\ depth' = [depth EXCEPT ![t] = @ + 1]
  /\ UNCHANGED <<current, raising, marking, origin, span, records>>

\* The block b that t leaves puts back what it had changed.
Restore(t, b) ==
  /\ blocks' = [blocks EXCEPT ![t] = Front(@)]
  /\ depth' = IF b.kind \in {"suppress", "export"}
              THEN [depth EXCEPT ![t] = b.depth] ELSE depth
  /\ current' = IF b.kind = "span" THEN [current EXCEPT ![t] = b.current] ELSE current
  /\ span' = IF b.kind = "span" /\ b.ends THEN Ended(b.span) ELSE span
  /\ UNCHANGED <<marking, origin, records>>

\* A block ends, and an exporter's wrapper returns.
Leave(t) ==
  /\ Runs(t) /\ blocks[t] # <<>>
  /\ Restore(t, Top(t))
  /\ UNCHANGED raising

\* The application or the exporter raises, or a call of theirs is rejected:
\* by safe_name, sanitize_attributes or correlation_attributes.
Raise(t) ==
  /\ Runs(t) /\ blocks[t] # <<>>
  /\ raising' = [raising EXCEPT ![t] = TRUE]
  /\ UNCHANGED <<depth, current, blocks, marking, origin, span, records>>

\* start_as_current_span records what leaves its block, as record_exception.
NoteFailure(t) ==
  /\ raising[t] /\ marking[t] = None /\ blocks[t] # <<>>
  /\ Top(t).kind = "span" /\ ~Top(t).noted
  /\ span' = Noted(Top(t).span)
  /\ marking' = [marking EXCEPT ![t] = Top(t).span]
  /\ blocks' = [blocks EXCEPT ![t][Len(blocks[t])].noted = TRUE]
  /\ UNCHANGED <<depth, current, raising, origin, records>>

\* Mutant: an exception goes through a block of a span unseen.
UnwindUnnoted(t) ==
  /\ raising[t] /\ marking[t] = None /\ blocks[t] # <<>>
  /\ Restore(t, Top(t))
  /\ raising' = [raising EXCEPT ![t] = Len(blocks[t]) > 1]

\* Mutant: suppression ends at the end of the block only.
UnwindSuppressed(t) ==
  /\ raising[t] /\ marking[t] = None /\ blocks[t] # <<>>
  /\ Top(t).kind = "span" => Top(t).noted
  /\ Restore(t, [Top(t) EXCEPT !.depth = depth[t]])
  /\ raising' = [raising EXCEPT ![t] = Len(blocks[t]) > 1]

\* Mutant: the span stays current.
UnwindCurrent(t) ==
  /\ raising[t] /\ marking[t] = None /\ blocks[t] # <<>>
  /\ Top(t).kind = "span" => Top(t).noted
  /\ Restore(t, [Top(t) EXCEPT !.current = current[t]])
  /\ raising' = [raising EXCEPT ![t] = Len(blocks[t]) > 1]

\* Mutant: a span is ended only where its block is left in order.
UnwindOpen(t) ==
  /\ raising[t] /\ marking[t] = None /\ blocks[t] # <<>>
  /\ Top(t).kind = "span" => Top(t).noted
  /\ Restore(t, [Top(t) EXCEPT !.ends = FALSE])
  /\ raising' = [raising EXCEPT ![t] = Len(blocks[t]) > 1]

\* The exception leaves a block, which restores all the same.
Unwind(t) ==
  /\ raising[t] /\ marking[t] = None /\ blocks[t] # <<>>
  /\ Top(t).kind = "span" => Top(t).noted
  /\ Restore(t, Top(t))
  /\ raising' = [raising EXCEPT ![t] = Len(blocks[t]) > 1]

\* Between two blocks, the application handles the exception.
Catch(t) ==
  /\ raising[t] /\ marking[t] = None
  /\ blocks[t] # <<>> => ~Top(t).noted
  /\ raising' = [raising EXCEPT ![t] = FALSE]
  /\ UNCHANGED <<depth, current, blocks, marking, origin, span, records>>

-----------------------------------------------------------------------------
(* Log records, and tasks.                                                 *)

\* StructuredLogger.emit.  The record names what is current for t.
emit(t) ==
  /\ Runs(t) /\ ~instrumentation_suppressed(t)
  /\ records' = records \cup {Work(t)}
  /\ UNCHANGED <<contextVars, span>>

\* t starts a task u, with a copy of its context.
StartTask(t, u) ==
  /\ Runs(t) /\ ~origin[u].running
  /\ origin' = [origin EXCEPT ![u] =
       [running |-> TRUE, work |-> Work(t), depth |-> depth[t], current |-> current[t]]]
  /\ depth' = [depth EXCEPT ![u] = origin'[u].depth]
  /\ current' = [current EXCEPT ![u] = origin'[u].current]
  /\ UNCHANGED <<blocks, raising, marking, span, records>>

\* t starts a thread u, with an empty context; what an exporter leaves to one is
\* out of the reach of the guard.
StartThread(t, u) ==
  /\ Runs(t) /\ ~origin[u].running
  /\ origin' = [origin EXCEPT ![u] =
       [Bare(TRUE) EXCEPT !.work = IF Work(t) = "exporter" THEN "outside" ELSE Work(t)]]
  /\ depth' = [depth EXCEPT ![u] = origin'[u].depth]
  /\ current' = [current EXCEPT ![u] = origin'[u].current]
  /\ UNCHANGED <<blocks, raising, marking, span, records>>

SpanStep(t) ==
  \E s \in Spans :
    \/ start_span(t, s) \/ set_ok(t, s) \/ end(t, s) \/ record_exception(t, s)
    \/ \E ends \in BOOLEAN : EnterSpan(t, s, ends)

TelemetryNext ==
  \E t \in Tasks :
    \/ SpanStep(t)
    \/ MarkError(t)
    \/ EnterNull(t) \/ \E kind \in {"suppress", "export"} : Suppress(t, kind)
    \/ Leave(t) \/ Raise(t) \/ NoteFailure(t) \/ Unwind(t) \/ Catch(t)
    \/ emit(t)
    \/ \E u \in Tasks : StartTask(t, u) \/ StartThread(t, u)

TelemetrySpec == TelemetryInit /\ [][TelemetryNext]_telemetryVars

-----------------------------------------------------------------------------
(* Properties.                                                              *)

\* The variables have their types.
TelemetryTypeOK ==
  /\ depth \in [Tasks -> Nat]
  /\ current \in [Tasks -> Spans \cup {None}]
  /\ blocks \in [Tasks -> Seq(Block)]
  /\ raising \in [Tasks -> BOOLEAN]
  /\ marking \in [Tasks -> Spans \cup {None}]
  /\ origin \in [Tasks -> Origins]
  /\ span \in [Spans -> SpanStates]
  /\ records \subseteq Workers

\* How many of the first n blocks of bs suppress what is made inside of them.
Suppressing(bs, n) == Cardinality({i \in 1..n : bs[i].kind \in {"suppress", "export"}})

\* s is the span of the innermost of the first n blocks of bs that have one.
Innermost(bs, n, outside, s) ==
  \/ s = outside /\ \A i \in 1..n : bs[i].kind # "span"
  \/ \E i \in 1..n :
       /\ bs[i].kind = "span" /\ bs[i].span = s
       /\ \A j \in (i + 1)..n : bs[j].kind # "span"

\* However blocks are nested, left and thrown through, a task is suppressed as
\* deep as it is inside of suppressing blocks and of an exporter, on top of what
\* it was started with: an exporter that raises silences no thread for good, and
\* one that is called while suppressed switches nothing on when it returns.
DepthIsNesting ==
  \A t \in Tasks : depth[t] = origin[t].depth + Suppressing(blocks[t], Len(blocks[t]))

\* The current span of a task, which its log records and children name, is that
\* of the innermost block it is inside of, and none that was left by an
\* exception; suppressed blocks do not hide it.
CurrentIsInnermost ==
  \A t \in Tasks : Innermost(blocks[t], Len(blocks[t]), origin[t].current, current[t])

\* Nothing that is made on behalf of an exporter, by itself or by a task that
\* goes on after the exporter has returned, becomes telemetry to be exported;
\* all that can is the work of threads that the exporter starts.
NothingFeedsBack ==
  /\ \A s \in Spans : span[s].work # "exporter"
  /\ "exporter" \notin records

\* A span that its block was to end is ended or is still inside of that block,
\* whatever happened to the block.
SpansGetEnded ==
  \A s \in Spans :
    span[s].ends /\ span[s].phase = "live" =>
      \E t \in Tasks : \E i \in DOMAIN blocks[t] : blocks[t][i].span = s

\* An exception that leaves the block of a span which nobody has ended leaves
\* the exception event on it, and no status but ERROR, or OK where another step
\* had set that before: no failed span is exported as one without a status.
FailureShows ==
  [][\A t \in Tasks :
       raising[t] /\ Len(blocks'[t]) < Len(blocks[t]) /\ Top(t).kind = "span" =>
         LET left == span[Top(t).span]
         IN  left.phase = "live" => left.failed /\ left.status # "unset"]_telemetryVars

-----------------------------------------------------------------------------
(* The inductive invariant.                                                 *)

\* Each block puts back what the blocks around it have made.
RestoresNesting(t) ==
  \A i \in DOMAIN blocks[t] :
    /\ blocks[t][i].depth = origin[t].depth + Suppressing(blocks[t], i - 1)
    /\ Innermost(blocks[t], i - 1, origin[t].current, blocks[t][i].current)

\* The span of a block has been made.
HasSpan(t) ==
  \A i \in DOMAIN blocks[t] :
    blocks[t][i].kind = "span" =>
      blocks[t][i].span \in Spans /\ span[blocks[t][i].span].phase # "unused"

\* A failure is noted in the block that the exception leaves next, and of its
\* span nobody forgets that it has failed; the status comes second.
NotesFailure(t) ==
  \A i \in DOMAIN blocks[t] :
    LET b == blocks[t][i] IN
    b.noted =>
      /\ i = Len(blocks[t]) /\ raising[t] /\ b.kind = "span"
      /\ span[b.span].phase = "live" =>
           /\ span[b.span].failed
           /\ marking[t] = b.span \/ (marking[t] = None /\ span[b.span].status # "unset")

\* A task that was started for an exporter is suppressed from its start on.
StartsSuppressed(t) ==
  /\ ~origin[t].running => blocks[t] = <<>>
  /\ origin[t].work = "exporter" => origin[t].depth > 0

EndsInBlock(s) ==
  span[s].ends /\ span[s].phase = "live" =>
    \E t \in Tasks : \E i \in DOMAIN blocks[t] :
      LET b == blocks[t][i] IN b.kind = "span" /\ b.span = s /\ b.ends

TelemetryInv ==
  /\ TelemetryTypeOK /\ DepthIsNesting /\ CurrentIsInnermost /\ NothingFeedsBack
  /\ \A t \in Tasks : RestoresNesting(t) /\ HasSpan(t) /\ NotesFailure(t) /\ StartsSuppressed(t)
  /\ \A s \in Spans : EndsInBlock(s)

=============================================================================
