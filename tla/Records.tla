------------------------------- MODULE Records -------------------------------
(***************************************************************************)
(* What log records, spans and metric points carry: the attributes of the  *)
(* call, those that context/propagation.py takes from the context, and the *)
(* body; and which calls raise because policy.py refuses one of them.      *)
(*                                                                         *)
(* Calls come one at a time here, each in some context, and one live span  *)
(* is watched, the one that was started last.  Telemetry has the nesting   *)
(* of contexts, Instruments the counting of series, and Bodies the walk    *)
(* that decides which bodies are refused.                                  *)
(***************************************************************************)
EXTENDS Policy

CONSTANTS
  MaxAllowed,  \* entries of an allowlist (24)
  MaxSystem,   \* attributes of a metric point from the context (32)
  MaxSpan,     \* attributes of a span of the SDK (128 by default)
  Policies,    \* allowlists that are asked for
  Contexts,    \* contexts of the application
  Calls,       \* calls it makes
  Refused(_),  \* whether sanitize_body refuses a body
  None         \* no call, no span

Identifiers == {"request.id", "correlation.id"}
SpanNames == {<<"", "trace_id">>, <<"", "span_id">>}
ExceptionNames == {<<"", "exception.type">>}

\* The calls on a span that look at no context.
Annotations == {"event", "attribute"}

\* The default bound of sanitize_attributes holds all that a context may give, that
\* of the SDK what a span is started with, and the names that the code itself adds
\* have none of the parts of denied keys.
ASSUME BoundsAssumption ==
  /\ {MaxAllowed, MaxSystem, MaxAttributes, MaxSpan} \subseteq Nat
  /\ 2 * MaxAllowed + 4 <= MaxAttributes /\ MaxAttributes + 2 * MaxAllowed + 2 <= MaxSpan
  /\ (Identifiers \cup {name[2] : name \in SpanNames \cup ExceptionNames}) \cap BadKeys = {}

\* Allowlists are tuples, ids are strings, there are five kinds of calls, and one
\* of them is for a single attribute.
ASSUME RecordsAssumption ==
  /\ \A p \in Policies : p.scope \in Seq(ToSet(p.scope)) /\ p.baggage \in Seq(ToSet(p.baggage))
  /\ \A c \in Contexts : /\ DOMAIN c.ids \subseteq Identifiers
                         /\ \A key \in DOMAIN c.ids : c.ids[key] \in {Leaf("text"), Leaf("loose")}
                         /\ c.suppressed \in BOOLEAN /\ c.span \in BOOLEAN
  /\ \A c \in Calls : /\ c.kind \in {"log", "span", "metric"} \cup Annotations
                      /\ c.valid \in BOOLEAN
                      /\ c.kind = "attribute" => Cardinality(DOMAIN c.attributes) = 1
  /\ None \notin Calls /\ None \notin Contexts

VARIABLES
  allow,    \* the ContextPolicy: sequences of the allowed scope and baggage keys
  context,  \* the current context
  call,     \* the call that was made last
  outcome,  \* what became of it
  live      \* the live span that was started last, or NoSpan

recordVars == <<allow, context, call, outcome, live>>

-----------------------------------------------------------------------------
(* The ContextPolicy.                                                       *)

Allowed(keys) ==
  Len(keys) <= MaxAllowed /\ ToSet(keys) \cap BadKeys = {} /\ IsInjective(keys)

\* Mutant: denied keys may be allowed, as the values are checked later.
ValidPolicyOpen(p) ==
  \A keys \in {p.scope, p.baggage} : Len(keys) <= MaxAllowed /\ IsInjective(keys)

\* ContextPolicy.__post_init__
ValidPolicy(p) == Allowed(p.scope) /\ Allowed(p.baggage)

-----------------------------------------------------------------------------
(* A context has the ids and the scope of Meridian's context, baggage, a    *)
(* valid current span or none, and may be that of an exporter.              *)

Prefixed(prefix, values, keys) ==
  [name \in {prefix} \X (DOMAIN values \cap keys) |-> values[name[2]]]

\* What goes before, of two functions, and what the other one adds.
Over(f, g) ==
  [x \in DOMAIN f \cup DOMAIN g |-> IF x \in DOMAIN f THEN f[x] ELSE g[x]]

\* The names of a set with text.
Texts(names) == [name \in names |-> Leaf("text")]

\* Baggage that is no scalar is passed over; scope values are not.
Readable(values) ==
  {key \in DOMAIN values : values[key].kind = "leaf" /\ values[key].sort \in Scalars \cup {"loose"}}

\* Mutant: all of the scope is copied.
CorrelationOfScope(include_request) ==
  Over(Prefixed("meridian", context.ids, IF include_request THEN Identifiers ELSE {}),
  Over(Prefixed("meridian.scope", context.scope, DOMAIN context.scope),
  Over(Prefixed("baggage", context.baggage, ToSet(allow.baggage) \cap Readable(context.baggage)),
       Texts(IF include_request /\ context.span THEN SpanNames ELSE {}))))

\* The values of correlation_attributes, before they are sanitized.
Correlation(include_request) ==
  Over(Prefixed("meridian", context.ids, IF include_request THEN Identifiers ELSE {}),
  Over(Prefixed("meridian.scope", context.scope, ToSet(allow.scope)),
  Over(Prefixed("baggage", context.baggage, ToSet(allow.baggage) \cap Readable(context.baggage)),
       Texts(IF include_request /\ context.span THEN SpanNames ELSE {}))))

-----------------------------------------------------------------------------
(* A call: its kind; whether its names, its severity or amount and, for a   *)
(* metric, which attributes it has are in order; its attributes, the body   *)
(* of a log record, and whether it has an exception.                        *)

\* A span takes what the context gives without the ids of the span around it.
Without(values, names) == Restrict(values, DOMAIN values \ names)
WithoutSpan(values) == Without(values, SpanNames)

ExceptionOf(c) == Texts(IF c.exception THEN ExceptionNames ELSE {})

\* Mutant: the attributes of the call go last.
AttributesOfCall(c) ==
  CASE c.kind = "log" -> Over(c.attributes, Over(Correlation(TRUE), ExceptionOf(c)))
    [] c.kind = "span" -> Over(c.attributes, WithoutSpan(Correlation(TRUE)))
    [] c.kind = "metric" -> Over(c.attributes, Correlation(FALSE))
    [] OTHER -> c.attributes

\* What goes to the SDK: dict.update, so that what comes later stays.
Attributes(c) ==
  CASE c.kind = "log" -> Over(ExceptionOf(c), Over(Correlation(TRUE), c.attributes))
    [] c.kind = "span" -> Over(WithoutSpan(Correlation(TRUE)), c.attributes)
    [] c.kind = "metric" -> Over(Correlation(FALSE), c.attributes)
    [] OTHER -> c.attributes

Raises(c) ==
  \/ ~c.valid \/ ~sanitize_attributes(c.attributes)
  \/ c.kind \notin Annotations /\ ~sanitize_attributes(Correlation(c.kind # "metric"))
  \/ c.kind = "metric" /\ Cardinality(DOMAIN Correlation(FALSE)) > MaxSystem
  \/ c.kind = "log" /\ Refused(c.body)

Outcome(answer, attributes) == [answer |-> answer, attributes |-> attributes]

Reached(c) == IF Raises(c) THEN Outcome("raised", <<>>) ELSE Outcome("recorded", Attributes(c))

\* A span: the context it was started in, the names that the call gave it, those
\* that were set on it since and those that the SDK has dropped, and its attributes.
Span(ctx, given, set, lost, attributes) ==
  [context |-> ctx, given |-> given, set |-> set, lost |-> lost, attributes |-> attributes]

NoSpan == Span(None, {}, {}, {}, <<>>)

Open == live.context # None

RecordsInit ==
  /\ allow \in {p \in Policies : ValidPolicy(p)}
  /\ context \in Contexts
  /\ call = None /\ outcome = Outcome("none", <<>>) /\ live = NoSpan

\* The application goes on in another context.
Move ==
  /\ call = None
  /\ context' \in Contexts
  /\ UNCHANGED <<allow, call, outcome, live>>

Make(c) ==
  /\ call = None /\ call' = c
  /\ UNCHANGED <<allow, context>>

Started(c) == Span(context, DOMAIN c.attributes, {}, {}, Attributes(c))

\* StructuredLogger.emit, SafeTracer.start_span and the recording methods of
\* instruments, which do nothing where telemetry is suppressed.
Emit(c) ==
  /\ c.kind \notin Annotations
  /\ Make(c)
  /\ outcome' = IF context.suppressed THEN Outcome("suppressed", <<>>) ELSE Reached(c)
  /\ live' = IF c.kind = "span" /\ ~context.suppressed /\ ~Raises(c) THEN Started(c) ELSE live

\* What is checked on any span, an ended or an invalid one then ignores.
Noted(c) == IF ~Open /\ ~Raises(c) THEN Outcome("ignored", <<>>) ELSE Reached(c)

\* SafeSpan.add_event: an event has attributes of its own.
AddEvent(c) ==
  /\ c.kind = "event"
  /\ Make(c)
  /\ outcome' = Noted(c)
  /\ UNCHANGED live

\* External: a span that is full drops its oldest attribute for a new one; which
\* one that is is left open.
Dropped(c) ==
  IF DOMAIN c.attributes \subseteq DOMAIN live.attributes
     \/ Cardinality(DOMAIN live.attributes) < MaxSpan
  THEN {{}} ELSE {{name} : name \in DOMAIN live.attributes}

\* SafeSpan.set_attribute: the name takes the new value, whoever gave it one.
SetAttribute(c) ==
  /\ c.kind = "attribute"
  /\ Make(c)
  /\ outcome' = Noted(c)
  /\ IF ~Open \/ Raises(c) THEN UNCHANGED live
     ELSE \E dropped \in Dropped(c) :
            live' = Span(live.context, live.given,
                         live.set \cup DOMAIN c.attributes, live.lost \cup dropped,
                         Over(c.attributes, Without(live.attributes, dropped)))

\* SafeSpan.end
EndSpan ==
  /\ call = None /\ Open
  /\ live' = NoSpan
  /\ UNCHANGED <<allow, context, call, outcome>>

\* The call has returned.
Return ==
  /\ call # None
  /\ call' = None /\ outcome' = Outcome("none", <<>>)
  /\ UNCHANGED <<allow, context, live>>

RecordsNext ==
  \/ Move \/ Return \/ EndSpan
  \/ \E c \in Calls : Emit(c) \/ AddEvent(c) \/ SetAttribute(c)

RecordsSpec == RecordsInit /\ [][RecordsNext]_recordVars

-----------------------------------------------------------------------------
(* Properties.                                                              *)

Recorded == outcome.answer = "recorded"

\* The scope and the baggage of ctx are among the attributes, but for the names
\* that are excepted.
CarriesScope(attributes, ctx, excepted) ==
  LET has(name, value) ==
        name \in excepted \/ (name \in DOMAIN attributes /\ attributes[name] = value) IN
  /\ \A key \in DOMAIN ctx.scope \cap ToSet(allow.scope) :
       has(<<"meridian.scope", key>>, ctx.scope[key])
  /\ \A key \in Readable(ctx.baggage) \cap ToSet(allow.baggage) :
       has(<<"baggage", key>>, ctx.baggage[key])

CarriesIds(attributes, ctx, excepted) ==
  \A key \in DOMAIN ctx.ids :
    LET name == <<"meridian", key>> IN
    name \in excepted \/ (name \in DOMAIN attributes /\ attributes[name] = ctx.ids[key])

\* Whatever attributes a call gives the same names, a log record names the request,
\* scope, baggage and span that it was made in, and a metric point and a span that
\* starts theirs.  A span goes on to name those that it was started in, wherever
\* the application has gone since, but for what the application itself has set on
\* it under their names, which nothing protects, and what the SDK has dropped.
CorrelationWins ==
  /\ Recorded /\ call.kind \notin Annotations =>
       /\ CarriesScope(outcome.attributes, context, {})
       /\ call.kind # "metric" => CarriesIds(outcome.attributes, context, {})
       /\ call.kind = "log" /\ context.span =>
            \A name \in SpanNames :
              name \in DOMAIN outcome.attributes /\ outcome.attributes[name] = Leaf("text")
  /\ Open =>
       /\ CarriesScope(live.attributes, live.context, live.set \cup live.lost)
       /\ CarriesIds(live.attributes, live.context, live.set \cup live.lost)

\* Nothing of the context leaves the process but what is on the allowlists, the
\* ids of the request, which no series of a metric has, and the span, for which
\* only a log record has names; and nothing leaves under a key that is denied.  The
\* same goes for all that a live span has gathered.
NothingElseLeaves ==
  LET allowed(name) ==
        \/ name[1] = "meridian.scope" /\ name[2] \in ToSet(allow.scope)
        \/ name[1] = "baggage" /\ name[2] \in ToSet(allow.baggage) IN
  /\ Recorded =>
       \A name \in DOMAIN outcome.attributes :
         /\ name[2] \notin BadKeys
         /\ \/ name \in DOMAIN call.attributes \/ allowed(name)
            \/ name[1] = "meridian" /\ call.kind \in {"log", "span"}
            \/ name[1] = "" /\ call.kind = "log"
  /\ Open =>
       \A name \in DOMAIN live.attributes :
         /\ name[2] \notin BadKeys
         /\ name \in live.given \cup live.set \/ allowed(name) \/ name[1] = "meridian"

\* A call that is in order is refused for its context alone: where a value that
\* is allowlisted, or an id, is not fit for an attribute, and for a metric also
\* where the context has more of them than a series may take, which allowlists
\* that are accepted can come to.  In such a context all of its kind are
\* refused; where telemetry is suppressed none is.
SilencedByContext ==
  call # None /\ call.kind \notin Annotations /\ call.valid /\ sanitize_attributes(call.attributes)
  /\ (call.kind = "log" => ~Refused(call.body)) =>
    LET scope == DOMAIN context.scope \cap ToSet(allow.scope)
        baggage == Readable(context.baggage) \cap ToSet(allow.baggage)
        unfit ==
          \/ \E key \in scope : ~PassesAttribute(context.scope[key])
          \/ \E key \in baggage : context.baggage[key].sort = "loose"
          \/ call.kind # "metric" /\ \E key \in DOMAIN context.ids : context.ids[key].sort = "loose"
          \/ call.kind = "metric" /\ Cardinality(scope) + Cardinality(baggage) > MaxSystem
    IN  outcome.answer = "raised" <=> unfit /\ ~context.suppressed

-----------------------------------------------------------------------------
(* The inductive invariant: the allowlists are valid, the answer of a call  *)
(* is that of the context that it was made in, and the live span is as the  *)
(* properties say.                                                          *)

Answered ==
  outcome = IF call = None THEN Outcome("none", <<>>)
            ELSE IF call.kind \in Annotations THEN Noted(call)
            ELSE IF context.suppressed THEN Outcome("suppressed", <<>>)
            ELSE Reached(call)

SpanKept ==
  /\ live.context \in Contexts \cup {None}
  /\ Open =>
       /\ CarriesScope(live.attributes, live.context, live.set \cup live.lost)
       /\ CarriesIds(live.attributes, live.context, live.set \cup live.lost)
       /\ \A name \in DOMAIN live.attributes :
            /\ name[2] \notin BadKeys
            /\ \/ name \in live.given \cup live.set
               \/ name[1] = "meridian.scope" /\ name[2] \in ToSet(allow.scope)
               \/ name[1] = "baggage" /\ name[2] \in ToSet(allow.baggage)
               \/ name[1] = "meridian"

RecordsInv ==
  /\ allow \in Policies /\ ValidPolicy(allow)
  /\ context \in Contexts /\ call \in Calls \cup {None}
  /\ Answered /\ SpanKept

=============================================================================
