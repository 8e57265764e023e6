---------------------------- MODULE RecordsProofs ----------------------------
(***************************************************************************)
(* Proofs about Records, for any allowlists, contexts, calls and bounds,   *)
(* and whatever bodies are refused.                                        *)
(***************************************************************************)
EXTENDS Records, FiniteSetTheorems, TLAPS

-----------------------------------------------------------------------------
(* The names and values that a context gives.                               *)

ScopeKeys == DOMAIN context.scope \cap ToSet(allow.scope)
BaggageKeys == Readable(context.baggage) \cap ToSet(allow.baggage)
IdKeys(include) == IF include THEN DOMAIN context.ids ELSE {}
SpanOf(include) == IF include /\ context.span THEN SpanNames ELSE {}

LEMMA OverDomain ==
  ASSUME NEW f, NEW g
  PROVE  DOMAIN Over(f, g) = DOMAIN f \cup DOMAIN g
BY DEF Over

LEMMA OverFirst ==
  ASSUME NEW f, NEW g, NEW x \in DOMAIN f
  PROVE  x \in DOMAIN Over(f, g) /\ Over(f, g)[x] = f[x]
BY DEF Over

LEMMA OverSecond ==
  ASSUME NEW f, NEW g, NEW x \in DOMAIN g, x \notin DOMAIN f
  PROVE  x \in DOMAIN Over(f, g) /\ Over(f, g)[x] = g[x]
BY DEF Over

\* Those of the keys that have a value.
Common(values, keys) == DOMAIN values \cap keys

\* The names with a prefix.
Under(prefix, S) == {prefix} \X S

LEMMA UnderNames ==
  ASSUME NEW prefix, NEW S
  PROVE  /\ \A key \in S : <<prefix, key>> \in Under(prefix, S)
         /\ \A name \in Under(prefix, S) :
              name[1] = prefix /\ name[2] \in S /\ name = <<prefix, name[2]>>
BY DEF Under

LEMMA UnderOne ==
  ASSUME NEW prefix, NEW S, NEW name, name[1] # prefix
  PROVE  name \notin Under(prefix, S)
BY UnderNames

LEMMA SpanNameParts ==
  ASSUME NEW name \in SpanNames
  PROVE  name[1] = "" /\ name[2] \in {"trace_id", "span_id"}
<1>1. CASE name = <<"", "trace_id">>
  BY <1>1
<1>2. CASE name = <<"", "span_id">>
  BY <1>2
<1> QED
  BY <1>1, <1>2 DEF SpanNames

LEMMA PrefixedNames ==
  ASSUME NEW prefix, NEW values, NEW keys
  PROVE  /\ DOMAIN Prefixed(prefix, values, keys) = Under(prefix, Common(values, keys))
         /\ \A key \in Common(values, keys) :
              Prefixed(prefix, values, keys)[<<prefix, key>>] = values[key]
BY DEF Prefixed, Under, Common

\* The parts of Correlation have different prefixes, so that none hides another.
LEMMA CorrelationParts ==
  ASSUME RecordsInv, NEW include \in BOOLEAN
  PROVE  LET c == Correlation(include) IN
         /\ DOMAIN c = Under("meridian", IdKeys(include)) \cup Under("meridian.scope", ScopeKeys)
                       \cup Under("baggage", BaggageKeys) \cup SpanOf(include)
         /\ \A key \in IdKeys(include) : c[<<"meridian", key>>] = context.ids[key]
         /\ \A key \in ScopeKeys : c[<<"meridian.scope", key>>] = context.scope[key]
         /\ \A key \in BaggageKeys : c[<<"baggage", key>>] = context.baggage[key]
         /\ \A name \in SpanOf(include) : c[name] = Leaf("text")
<1> DEFINE idKeys == IF include THEN Identifiers ELSE {}
           allowed == ToSet(allow.baggage) \cap Readable(context.baggage)
           ids == Prefixed("meridian", context.ids, idKeys)
           scope == Prefixed("meridian.scope", context.scope, ToSet(allow.scope))
           baggage == Prefixed("baggage", context.baggage, allowed)
           span == Texts(IF include /\ context.span THEN SpanNames ELSE {})
           c == Correlation(include)
<1>1. IdKeys(include) = Common(context.ids, idKeys)
  BY RecordsAssumption DEF RecordsInv, RecordsAssumption, IdKeys, Common
<1>2. BaggageKeys = Common(context.baggage, allowed)
  BY DEF BaggageKeys, Readable, Common
<1>a. ScopeKeys = Common(context.scope, ToSet(allow.scope))
  BY DEF ScopeKeys, Common
<1>7. c = Over(ids, Over(scope, Over(baggage, span)))
  BY DEF Correlation
<1> HIDE DEF c, idKeys, allowed
<1>3. /\ DOMAIN ids = Under("meridian", IdKeys(include))
      /\ \A key \in IdKeys(include) : ids[<<"meridian", key>>] = context.ids[key]
  BY <1>1, PrefixedNames
<1>4. /\ DOMAIN scope = Under("meridian.scope", ScopeKeys)
      /\ \A key \in ScopeKeys : scope[<<"meridian.scope", key>>] = context.scope[key]
  BY <1>a, PrefixedNames
<1>5. /\ DOMAIN baggage = Under("baggage", BaggageKeys)
      /\ \A key \in BaggageKeys : baggage[<<"baggage", key>>] = context.baggage[key]
  BY <1>2, PrefixedNames
<1>6. DOMAIN span = SpanOf(include) /\ \A name \in SpanOf(include) : span[name] = Leaf("text")
  BY DEF Texts, SpanOf
<1>8. \A name \in SpanOf(include) : name[1] = ""
  BY SpanNameParts DEF SpanOf
<1> HIDE DEF ids, scope, baggage, span
<1>9. DOMAIN c = DOMAIN ids \cup DOMAIN scope \cup DOMAIN baggage \cup DOMAIN span
  <2>1. DOMAIN Over(baggage, span) = DOMAIN baggage \cup DOMAIN span
    BY OverDomain
  <2>2. DOMAIN Over(scope, Over(baggage, span)) = DOMAIN scope \cup DOMAIN Over(baggage, span)
    BY OverDomain
  <2>3. DOMAIN c = DOMAIN ids \cup DOMAIN Over(scope, Over(baggage, span))
    BY <1>7, OverDomain
  <2> QED
    BY <2>1, <2>2, <2>3
<1>10. ASSUME NEW key \in IdKeys(include)
       PROVE  c[<<"meridian", key>>] = context.ids[key]
  <2>1. <<"meridian", key>> \in DOMAIN ids
    BY <1>3, UnderNames
  <2> QED
    BY <1>3, <1>7, <2>1, OverFirst
<1>11. ASSUME NEW key \in ScopeKeys
       PROVE  c[<<"meridian.scope", key>>] = context.scope[key]
  <2> DEFINE name == <<"meridian.scope", key>>
  <2>1. name \in DOMAIN scope /\ name \notin DOMAIN ids
    BY <1>3, <1>4, UnderNames
  <2> HIDE DEF name
  <2>2. name \in DOMAIN Over(scope, Over(baggage, span))
        /\ Over(scope, Over(baggage, span))[name] = scope[name]
    BY <2>1, OverFirst
  <2>3. c[name] = scope[name]
    BY <1>7, <2>1, <2>2, OverSecond
  <2> QED
    BY <1>4, <2>3 DEF name
<1>12. ASSUME NEW key \in BaggageKeys
       PROVE  c[<<"baggage", key>>] = context.baggage[key]
  <2> DEFINE name == <<"baggage", key>>
             rest == Over(baggage, span)
  <2>1. name \in DOMAIN baggage /\ name \notin DOMAIN ids /\ name \notin DOMAIN scope
    BY <1>3, <1>4, <1>5, UnderNames
  <2> HIDE DEF name
  <2>2. name \in DOMAIN rest /\ rest[name] = baggage[name]
    BY <2>1, OverFirst
  <2>3. name \in DOMAIN Over(scope, rest) /\ Over(scope, rest)[name] = baggage[name]
    BY <2>1, <2>2, OverSecond
  <2>4. c[name] = baggage[name]
    BY <1>7, <2>1, <2>3, OverSecond
  <2> QED
    BY <1>5, <2>4 DEF name
<1>13. ASSUME NEW name \in SpanOf(include)
       PROVE  c[name] = Leaf("text")
  <2>1. name \notin DOMAIN ids /\ name \notin DOMAIN scope /\ name \notin DOMAIN baggage
    <3>1. name[1] = ""
      BY <1>8
    <3> QED
      BY <1>3, <1>4, <1>5, <3>1, UnderOne
  <2>2. name \in DOMAIN Over(baggage, span) /\ Over(baggage, span)[name] = span[name]
    BY <1>6, <2>1, OverSecond
  <2>3. name \in DOMAIN Over(scope, Over(baggage, span))
        /\ Over(scope, Over(baggage, span))[name] = span[name]
    BY <2>1, <2>2, OverSecond
  <2>4. c[name] = span[name]
    BY <1>7, <2>1, <2>3, OverSecond
  <2> QED
    BY <1>6, <2>4
<1> QED
  BY <1>3, <1>4, <1>5, <1>6, <1>9, <1>10, <1>11, <1>12, <1>13 DEF c

-----------------------------------------------------------------------------
(* What a call is recorded with.                                            *)

LEMMA ExceptionNameParts ==
  ASSUME NEW c, NEW name \in DOMAIN ExceptionOf(c)
  PROVE  name[1] = "" /\ name[2] = "exception.type" /\ name \in ExceptionNames
<1>1. name \in ExceptionNames
  BY DEF ExceptionOf, Texts
<1>2. name = <<"", "exception.type">>
  BY <1>1 DEF ExceptionNames
<1> QED
  BY <1>1, <1>2

\* What the context gives for a call.
Given(c) == Correlation(c.kind # "metric")

\* The names of the context win over those of the call, and the only one that
\* is set later is that of the exception.
LEMMA ContextStays ==
  ASSUME NEW c, c.kind \in {"log", "span", "metric"}, NEW name \in DOMAIN Given(c),
         name \notin DOMAIN ExceptionOf(c), c.kind # "span" \/ name \notin SpanNames
  PROVE  name \in DOMAIN Attributes(c) /\ Attributes(c)[name] = Given(c)[name]
<1>1. CASE c.kind = "log"
  <2>1. Attributes(c) = Over(ExceptionOf(c), Over(Given(c), c.attributes))
    BY <1>1 DEF Attributes, Given
  <2>2. name \in DOMAIN Over(Given(c), c.attributes)
        /\ Over(Given(c), c.attributes)[name] = Given(c)[name]
    BY OverFirst
  <2> QED
    BY <2>1, <2>2, OverSecond
<1>2. CASE c.kind = "span"
  <2>1. Attributes(c) = Over(WithoutSpan(Given(c)), c.attributes)
    BY <1>2 DEF Attributes, Given
  <2>2. name \in DOMAIN WithoutSpan(Given(c)) /\ WithoutSpan(Given(c))[name] = Given(c)[name]
    BY <1>2 DEF WithoutSpan, Without, Restrict
  <2> QED
    BY <2>1, <2>2, OverFirst
<1>3. CASE c.kind = "metric"
  <2>1. Attributes(c) = Over(Given(c), c.attributes)
    BY <1>3 DEF Attributes, Given
  <2> QED
    BY <2>1, OverFirst
<1> QED
  BY <1>1, <1>2, <1>3

\* Names come from the call, from the context, or are that of the exception.
LEMMA OverNames ==
  ASSUME NEW f, NEW g, NEW x \in DOMAIN Over(f, g)
  PROVE  x \in DOMAIN f \/ x \in DOMAIN g
BY DEF Over

LEMMA NamesHaveOrigin ==
  ASSUME NEW c, c.kind \in {"log", "span", "metric"} \cup Annotations,
         NEW name \in DOMAIN Attributes(c)
  PROVE  \/ name \in DOMAIN c.attributes
         \/ c.kind \notin Annotations /\ name \in DOMAIN Given(c)
            /\ (c.kind = "span" => name \notin SpanNames)
         \/ c.kind = "log" /\ name \in DOMAIN ExceptionOf(c)
<1>1. CASE c.kind = "log"
  <2>1. Attributes(c) = Over(ExceptionOf(c), Over(Given(c), c.attributes))
    BY <1>1 DEF Attributes, Given
  <2>2. \/ name \in DOMAIN ExceptionOf(c)
        \/ name \in DOMAIN Over(Given(c), c.attributes)
    BY <2>1, OverNames
  <2> QED
    BY <1>1, <2>2, OverNames DEF Annotations
<1>2. CASE c.kind = "span"
  <2>1. Attributes(c) = Over(WithoutSpan(Given(c)), c.attributes)
    BY <1>2 DEF Attributes, Given
  <2>2. name \in DOMAIN WithoutSpan(Given(c)) \/ name \in DOMAIN c.attributes
    BY <2>1, OverNames
  <2>3. name \in DOMAIN WithoutSpan(Given(c)) => name \in DOMAIN Given(c) \ SpanNames
    BY DEF WithoutSpan, Without, Restrict
  <2> QED
    BY <1>2, <2>2, <2>3 DEF Annotations
<1>3. CASE c.kind = "metric"
  <2>1. Attributes(c) = Over(Given(c), c.attributes)
    BY <1>3 DEF Attributes, Given
  <2> QED
    BY <1>3, <2>1, OverNames DEF Annotations
<1>4. CASE c.kind \in Annotations
  BY <1>4 DEF Attributes, Annotations
<1> QED
  BY <1>1, <1>2, <1>3, <1>4

\* Whatever a call says, what it records has the values of its context.
LEMMA AttributesCarry ==
  ASSUME RecordsInv, NEW c, c.kind \in {"log", "span", "metric"}
  PROVE  /\ CarriesScope(Attributes(c), context, {})
         /\ c.kind # "metric" => CarriesIds(Attributes(c), context, {})
         /\ c.kind = "log" /\ context.span =>
              \A name \in SpanNames :
                name \in DOMAIN Attributes(c) /\ Attributes(c)[name] = Leaf("text")
<1> DEFINE include == c.kind # "metric"
           has(name, value) ==
             name \in DOMAIN Attributes(c) /\ Attributes(c)[name] = value
<1>2. include \in BOOLEAN /\ Given(c) = Correlation(include)
  BY DEF Given
<1>a. ASSUME NEW name \in DOMAIN Given(c), name[1] # ""
      PROVE  /\ name \in DOMAIN Attributes(c)
             /\ Attributes(c)[name] = Given(c)[name]
  <2>1. name \notin SpanNames /\ name \notin DOMAIN ExceptionOf(c)
    BY <1>a, SpanNameParts, ExceptionNameParts
  <2> QED
    BY <2>1, ContextStays
<1>3. ASSUME NEW prefix, NEW S, NEW key \in S, prefix # "",
             Under(prefix, S) \subseteq DOMAIN Given(c)
      PROVE  has(<<prefix, key>>, Given(c)[<<prefix, key>>])
  <2>1. <<prefix, key>> \in DOMAIN Given(c) /\ <<prefix, key>>[1] # ""
    BY <1>3, UnderNames
  <2> QED
    BY <1>a, <2>1
<1> HIDE DEF include
<1>4. \A key \in ScopeKeys : has(<<"meridian.scope", key>>, context.scope[key])
  <2>1. Under("meridian.scope", ScopeKeys) \subseteq DOMAIN Given(c)
    BY <1>2, CorrelationParts
  <2>2. \A key \in ScopeKeys : Given(c)[<<"meridian.scope", key>>] = context.scope[key]
    <3>1. \A key \in ScopeKeys : Correlation(include)[<<"meridian.scope", key>>] = context.scope[key]
      BY <1>2, CorrelationParts
    <3> QED
      BY <1>2, <3>1
  <2> QED
    BY <1>3, <2>1, <2>2
<1>5. \A key \in BaggageKeys : has(<<"baggage", key>>, context.baggage[key])
  <2>1. Under("baggage", BaggageKeys) \subseteq DOMAIN Given(c)
    BY <1>2, CorrelationParts
  <2>2. \A key \in BaggageKeys : Given(c)[<<"baggage", key>>] = context.baggage[key]
    <3>1. \A key \in BaggageKeys : Correlation(include)[<<"baggage", key>>] = context.baggage[key]
      BY <1>2, CorrelationParts
    <3> QED
      BY <1>2, <3>1
  <2> QED
    BY <1>3, <2>1, <2>2
<1>6. ASSUME c.kind # "metric"
      PROVE  \A key \in DOMAIN context.ids : has(<<"meridian", key>>, context.ids[key])
  <2>1. IdKeys(include) = DOMAIN context.ids
    BY <1>6 DEF IdKeys, include
  <2>2. Under("meridian", IdKeys(include)) \subseteq DOMAIN Given(c)
    BY <1>2, CorrelationParts
  <2>3. \A key \in IdKeys(include) : Given(c)[<<"meridian", key>>] = context.ids[key]
    <3>1. \A key \in IdKeys(include) : Correlation(include)[<<"meridian", key>>] = context.ids[key]
      BY <1>2, CorrelationParts
    <3> QED
      BY <1>2, <3>1
  <2> QED
    BY <1>3, <2>1, <2>2, <2>3
<1>7. ASSUME c.kind = "log", context.span, NEW name \in SpanNames
      PROVE  has(name, Leaf("text"))
  <2>1. name \in SpanOf(include)
    BY <1>7 DEF SpanOf, include
  <2>2. name \in DOMAIN Given(c) /\ Given(c)[name] = Leaf("text")
    <3>1. name \in DOMAIN Given(c)
      BY <1>2, <2>1, CorrelationParts
    <3>2. \A n \in SpanOf(include) : Correlation(include)[n] = Leaf("text")
      BY <1>2, CorrelationParts
    <3> QED
      BY <1>2, <2>1, <3>1, <3>2
  <2>3. name \notin DOMAIN ExceptionOf(c)
    BY SpanNameParts, ExceptionNameParts
  <2> QED
    BY <1>7, <2>2, <2>3, ContextStays
<1> QED
  BY <1>4, <1>5, <1>6, <1>7 DEF CarriesScope, CarriesIds, ScopeKeys, BaggageKeys

\* It takes from the context what is allowed and no more.
LEMMA AttributesAreAllowed ==
  ASSUME RecordsInv, NEW c \in Calls, ~Raises(c), NEW name \in DOMAIN Attributes(c)
  PROVE  /\ name[2] \notin BadKeys
         /\ \/ name \in DOMAIN c.attributes
            \/ name[1] = "meridian.scope" /\ name[2] \in ToSet(allow.scope)
            \/ name[1] = "baggage" /\ name[2] \in ToSet(allow.baggage)
            \/ name[1] = "meridian" /\ c.kind \in {"log", "span"}
            \/ name[1] = "" /\ c.kind = "log"
<1>1. c.kind \in {"log", "span", "metric"} \cup Annotations
  BY RecordsAssumption DEF RecordsAssumption
<1>2. CASE name \in DOMAIN c.attributes
  BY <1>2 DEF Raises, sanitize_attributes
<1>3. CASE c.kind = "log" /\ name \in DOMAIN ExceptionOf(c)
  <2>1. name[1] = "" /\ name[2] = "exception.type" /\ name \in ExceptionNames
    BY <1>3, ExceptionNameParts
  <2>2. name[2] \notin BadKeys
    BY <2>1, BoundsAssumption DEF BoundsAssumption
  <2> QED
    BY <1>3, <2>1, <2>2
<1>4. CASE /\ c.kind \notin Annotations /\ name \in DOMAIN Given(c)
           /\ c.kind = "span" => name \notin SpanNames
  <2> DEFINE include == c.kind # "metric"
  <2>1. name[2] \notin BadKeys
    BY <1>1, <1>4 DEF Raises, sanitize_attributes, Given
  <2>2. include \in BOOLEAN /\ Given(c) = Correlation(include)
    BY DEF Given
  <2>3. \/ name \in Under("meridian", IdKeys(include))
        \/ name \in Under("meridian.scope", ScopeKeys)
        \/ name \in Under("baggage", BaggageKeys) \/ name \in SpanOf(include)
    BY <1>4, <2>2, CorrelationParts
  <2>4. CASE name \in Under("meridian", IdKeys(include))
    <3>1. name[1] = "meridian" /\ name[2] \in IdKeys(include)
      BY <2>4, UnderNames
    <3> QED
      BY <1>1, <1>4, <2>1, <3>1 DEF IdKeys
  <2>5. CASE name \in Under("meridian.scope", ScopeKeys)
    <3>1. name[1] = "meridian.scope" /\ name[2] \in ScopeKeys
      BY <2>5, UnderNames
    <3> QED
      BY <2>1, <3>1 DEF ScopeKeys
  <2>6. CASE name \in Under("baggage", BaggageKeys)
    <3>1. name[1] = "baggage" /\ name[2] \in BaggageKeys
      BY <2>6, UnderNames
    <3> QED
      BY <2>1, <3>1 DEF BaggageKeys
  <2>7. CASE name \in SpanOf(include)
    <3>1. name \in SpanNames /\ c.kind # "metric"
      BY <2>7 DEF SpanOf
    <3>2. name[1] = ""
      BY <3>1, SpanNameParts
    <3> QED
      BY <1>1, <1>4, <2>1, <3>1, <3>2
  <2> QED
    BY <2>3, <2>4, <2>5, <2>6, <2>7
<1> QED
  <2> HIDE DEF Given
  <2>1. \/ name \in DOMAIN c.attributes
        \/ c.kind \notin Annotations /\ name \in DOMAIN Given(c)
           /\ (c.kind = "span" => name \notin SpanNames)
        \/ c.kind = "log" /\ name \in DOMAIN ExceptionOf(c)
    BY <1>1, NamesHaveOrigin
  <2> QED
    BY <1>2, <1>3, <1>4, <2>1

-----------------------------------------------------------------------------
(* The live span.                                                           *)

LEMMA SpanFields ==
  ASSUME NEW ctx, NEW given, NEW set, NEW lost, NEW attributes
  PROVE  LET s == Span(ctx, given, set, lost, attributes) IN
         /\ s.context = ctx /\ s.given = given /\ s.set = set /\ s.lost = lost
         /\ s.attributes = attributes
BY DEF Span

\* A span starts with the values of its context and what is allowed.
LEMMA StartKeeps ==
  ASSUME RecordsInv, NEW c \in Calls, c.kind = "span", ~Raises(c),
         live' = Started(c), allow' = allow
  PROVE  SpanKept'
<1> DEFINE a == Attributes(c)
<1>1. /\ live'.context = context /\ live'.given = DOMAIN c.attributes
      /\ live'.set = {} /\ live'.lost = {} /\ live'.attributes = a
  BY SpanFields DEF Started
<1>2. CarriesScope(a, context, {}) /\ CarriesIds(a, context, {})
  BY AttributesCarry
<1>3. ASSUME NEW name \in DOMAIN a
      PROVE  /\ name[2] \notin BadKeys
             /\ \/ name \in DOMAIN c.attributes
                \/ name[1] = "meridian.scope" /\ name[2] \in ToSet(allow.scope)
                \/ name[1] = "baggage" /\ name[2] \in ToSet(allow.baggage)
                \/ name[1] = "meridian"
  BY <1>3, AttributesAreAllowed
<1> HIDE DEF a
<1>4. (CarriesScope(live.attributes, live.context, live.set \cup live.lost))'
  BY <1>1, <1>2 DEF CarriesScope
<1>5. (CarriesIds(live.attributes, live.context, live.set \cup live.lost))'
  BY <1>1, <1>2 DEF CarriesIds
<1> QED
  BY <1>1, <1>3, <1>4, <1>5 DEF SpanKept, RecordsInv

\* What is set on a span, and what is dropped for it, is excepted from then on.
LEMMA SetKeeps ==
  ASSUME RecordsInv, Open, NEW c \in Calls, ~Raises(c), NEW dropped,
         live' = Span(live.context, live.given,
                      live.set \cup DOMAIN c.attributes, live.lost \cup dropped,
                      Over(c.attributes, Without(live.attributes, dropped))),
         allow' = allow
  PROVE  SpanKept'
<1> DEFINE a == live.attributes
           b == Over(c.attributes, Without(a, dropped))
           free == live.set \cup live.lost
           freed == (live.set \cup DOMAIN c.attributes) \cup (live.lost \cup dropped)
<1>1. /\ live'.context = live.context /\ live'.given = live.given
      /\ live'.set = live.set \cup DOMAIN c.attributes
      /\ live'.lost = live.lost \cup dropped /\ live'.attributes = b
  BY SpanFields
<1>2. /\ DOMAIN b \subseteq DOMAIN c.attributes \cup DOMAIN a
      /\ free \subseteq freed
      /\ \A name \in DOMAIN a : name \notin freed => name \in DOMAIN b /\ b[name] = a[name]
  BY DEF Over, Without, Restrict
<1>3. /\ CarriesScope(a, live.context, free) /\ CarriesIds(a, live.context, free)
      /\ \A name \in DOMAIN a :
           /\ name[2] \notin BadKeys
           /\ \/ name \in live.given \cup live.set
              \/ name[1] = "meridian.scope" /\ name[2] \in ToSet(allow.scope)
              \/ name[1] = "baggage" /\ name[2] \in ToSet(allow.baggage)
              \/ name[1] = "meridian"
  BY DEF RecordsInv, SpanKept
<1>4. \A name \in DOMAIN c.attributes : name[2] \notin BadKeys
  BY DEF Raises, sanitize_attributes
<1>5. live'.set \cup live'.lost = freed
  BY <1>1
<1> HIDE DEF a, b, free, freed
<1>6. CarriesScope(b, live.context, freed) /\ CarriesIds(b, live.context, freed)
  BY <1>2, <1>3 DEF CarriesScope, CarriesIds
<1>7. (CarriesScope(live.attributes, live.context, live.set \cup live.lost))'
  BY <1>1, <1>5, <1>6 DEF CarriesScope
<1>8. (CarriesIds(live.attributes, live.context, live.set \cup live.lost))'
  BY <1>1, <1>5, <1>6 DEF CarriesIds
<1>9. ASSUME NEW name \in DOMAIN b
      PROVE  /\ name[2] \notin BadKeys
             /\ \/ name \in live'.given \cup live'.set
                \/ name[1] = "meridian.scope" /\ name[2] \in ToSet(allow.scope)
                \/ name[1] = "baggage" /\ name[2] \in ToSet(allow.baggage)
                \/ name[1] = "meridian"
  BY <1>1, <1>2, <1>3, <1>4, <1>9
<1> QED
  BY <1>1, <1>7, <1>8, <1>9 DEF SpanKept, RecordsInv

LEMMA SpanStays ==
  ASSUME RecordsInv, UNCHANGED <<allow, live>>
  PROVE  SpanKept'
BY DEF RecordsInv, SpanKept, Open, CarriesScope, CarriesIds

-----------------------------------------------------------------------------
(* The invariant.                                                           *)

LEMMA RecordsInvInit == RecordsInit => RecordsInv
BY SpanFields DEF RecordsInit, RecordsInv, Answered, SpanKept, NoSpan, Open

LEMMA SameAnswer ==
  ASSUME UNCHANGED <<allow, context>>, NEW c
  PROVE  Reached(c)' = Reached(c) /\ Raises(c)' = Raises(c)
BY DEF Reached, Raises, Attributes, Correlation, ExceptionOf

LEMMA RecordsInvStep == RecordsInv /\ [RecordsNext]_recordVars => RecordsInv'
<1> SUFFICES ASSUME RecordsInv, [RecordsNext]_recordVars PROVE RecordsInv'
  OBVIOUS
<1>0. /\ allow \in Policies /\ ValidPolicy(allow) /\ context \in Contexts
      /\ call \in Calls \cup {None} /\ Answered
  BY DEF RecordsInv
<1>1. CASE Move
  BY <1>0, <1>1, SpanStays DEF Move, Answered, RecordsInv
<1>2. ASSUME NEW c \in Calls, Emit(c)
      PROVE  RecordsInv'
  <2>1. call' = c /\ c # None /\ UNCHANGED <<allow, context>> /\ c.kind \notin Annotations
    BY <1>2, RecordsAssumption DEF Emit, Make, RecordsAssumption
  <2>2. Answered'
    BY <1>2, <2>1, SameAnswer DEF Emit, Answered
  <2>3. SpanKept'
    BY <1>2, <2>1, StartKeeps, SpanStays DEF Emit
  <2> QED
    BY <1>0, <2>1, <2>2, <2>3 DEF RecordsInv
<1>3. ASSUME NEW c \in Calls, AddEvent(c)
      PROVE  RecordsInv'
  <2>1. /\ call' = c /\ c # None /\ UNCHANGED <<allow, context, live>>
        /\ c.kind \in Annotations
    BY <1>3, RecordsAssumption DEF AddEvent, Make, RecordsAssumption, Annotations
  <2>2. Answered'
    BY <1>3, <2>1, SameAnswer DEF AddEvent, Answered, Noted, Open
  <2> QED
    BY <1>0, <2>1, <2>2, SpanStays DEF RecordsInv
<1>4. ASSUME NEW c \in Calls, SetAttribute(c)
      PROVE  RecordsInv'
  <2>1. /\ call' = c /\ c # None /\ UNCHANGED <<allow, context>>
        /\ c.kind \in Annotations /\ outcome' = Noted(c)
    BY <1>4, RecordsAssumption DEF SetAttribute, Make, RecordsAssumption, Annotations
  <2>2. \/ UNCHANGED live
        \/ /\ Open /\ ~Raises(c)
           /\ \E dropped \in Dropped(c) :
                live' = Span(live.context, live.given,
                             live.set \cup DOMAIN c.attributes, live.lost \cup dropped,
                             Over(c.attributes, Without(live.attributes, dropped)))
    BY <1>4 DEF SetAttribute
  <2>3. Open' <=> Open
    <3>1. ASSUME NEW given, NEW set, NEW lost, NEW attributes,
                 live' = Span(live.context, given, set, lost, attributes)
          PROVE  live'.context = live.context
      BY <3>1, SpanFields
    <3>2. live'.context = live.context
      BY <2>2, <3>1
    <3> QED
      BY <3>2 DEF Open
  <2>4. Answered'
    BY <2>1, <2>3, SameAnswer DEF Answered, Noted
  <2>5. SpanKept'
    BY <2>1, <2>2, SetKeeps, SpanStays
  <2> QED
    BY <1>0, <2>1, <2>4, <2>5 DEF RecordsInv
<1>5. CASE Return
  BY <1>0, <1>5, SpanStays DEF Return, Answered, RecordsInv
<1>6. CASE EndSpan
  BY <1>0, <1>6, SpanFields DEF EndSpan, Answered, SpanKept, NoSpan, Open, RecordsInv
<1>7. CASE UNCHANGED recordVars
  <2>1. UNCHANGED <<allow, context, call, outcome, live>>
    BY <1>7 DEF recordVars
  <2>2. Answered'
    BY <1>0, <2>1, SameAnswer DEF Answered, Noted, Open
  <2> QED
    BY <1>0, <2>1, <2>2, SpanStays DEF RecordsInv
<1> QED
  BY <1>1, <1>2, <1>3, <1>4, <1>5, <1>6, <1>7 DEF RecordsNext

\* What a call was answered goes with its context for as long as it lasts, and
\* the live span keeps what it was started with.
THEOREM RecordsInvariant == RecordsSpec => []RecordsInv
BY RecordsInvInit, RecordsInvStep, PTL DEF RecordsSpec

\* What was recorded are the merged attributes of a call that did not raise.
LEMMA RecordedCall ==
  ASSUME RecordsInv, Recorded
  PROVE  /\ call \in Calls /\ call.kind \in {"log", "span", "metric"} \cup Annotations
         /\ ~Raises(call) /\ outcome.attributes = Attributes(call)
BY RecordsAssumption DEF RecordsInv, Answered, Noted, Recorded, Outcome, Reached, RecordsAssumption

\* Whatever a call says, its telemetry has the values of its context, and a span
\* keeps them but for what the application sets and the SDK drops.
THEOREM ContextWins == RecordsSpec => []CorrelationWins
<1>1. ASSUME RecordsInv PROVE CorrelationWins
  <2>1. ASSUME Recorded, call.kind \notin Annotations
        PROVE  /\ CarriesScope(outcome.attributes, context, {})
               /\ call.kind # "metric" => CarriesIds(outcome.attributes, context, {})
               /\ call.kind = "log" /\ context.span =>
                    \A name \in SpanNames :
                      name \in DOMAIN outcome.attributes /\ outcome.attributes[name] = Leaf("text")
    BY <1>1, <2>1, RecordedCall, AttributesCarry
  <2> QED
    BY <1>1, <2>1 DEF CorrelationWins, RecordsInv, SpanKept
<1> QED
  BY <1>1, RecordsInvariant, PTL

\* Telemetry takes from the context what is allowed and no more.
THEOREM OnlyAllowedLeaves == RecordsSpec => []NothingElseLeaves
<1>1. ASSUME RecordsInv PROVE NothingElseLeaves
  <2>1. ASSUME Recorded, NEW name \in DOMAIN outcome.attributes
        PROVE  /\ name[2] \notin BadKeys
               /\ \/ name \in DOMAIN call.attributes
                  \/ name[1] = "meridian.scope" /\ name[2] \in ToSet(allow.scope)
                  \/ name[1] = "baggage" /\ name[2] \in ToSet(allow.baggage)
                  \/ name[1] = "meridian" /\ call.kind \in {"log", "span"}
                  \/ name[1] = "" /\ call.kind = "log"
    BY <1>1, <2>1, RecordedCall, AttributesAreAllowed
  <2>2. ASSUME Open, NEW name \in DOMAIN live.attributes
        PROVE  /\ name[2] \notin BadKeys
               /\ \/ name \in live.given \cup live.set
                  \/ name[1] = "meridian.scope" /\ name[2] \in ToSet(allow.scope)
                  \/ name[1] = "baggage" /\ name[2] \in ToSet(allow.baggage)
                  \/ name[1] = "meridian"
    BY <1>1, <2>2 DEF RecordsInv, SpanKept
  <2> QED
    BY <2>1, <2>2 DEF NothingElseLeaves
<1> QED
  BY <1>1, RecordsInvariant, PTL

-----------------------------------------------------------------------------
(* How many names a context gives.                                          *)

LEMMA AllowedAreFew ==
  ASSUME NEW keys, keys \in Seq(ToSet(keys)), Len(keys) <= MaxAllowed
  PROVE  IsFiniteSet(ToSet(keys)) /\ Cardinality(ToSet(keys)) <= MaxAllowed
<1> DEFINE D == 1..Len(keys)
<1>1. Len(keys) \in Nat /\ DOMAIN keys = D /\ MaxAllowed \in Nat
  BY BoundsAssumption DEF BoundsAssumption
<1>2. IsFiniteSet(D) /\ Cardinality(D) = Len(keys)
  <2>1. Len(keys) \in Int /\ 1 \in Int
    BY <1>1
  <2>2. /\ IsFiniteSet(1..Len(keys))
        /\ Cardinality(1..Len(keys)) = IF 1 > Len(keys) THEN 0 ELSE Len(keys) - 1 + 1
    BY <2>1, FS_Interval
  <2> QED
    BY <1>1, <2>2
<1>3. keys \in Surjection(D, ToSet(keys))
  BY <1>1 DEF Surjection, ToSet
<1> HIDE DEF D
<1>4. IsFiniteSet(ToSet(keys)) /\ Cardinality(ToSet(keys)) <= Cardinality(D)
  BY <1>2, <1>3, FS_Surjection
<1>5. Cardinality(ToSet(keys)) \in Nat
  BY <1>4, FS_CardinalityType
<1> QED
  BY <1>1, <1>2, <1>4, <1>5

LEMMA UnderSize ==
  ASSUME NEW prefix, NEW S, IsFiniteSet(S)
  PROVE  IsFiniteSet(Under(prefix, S)) /\ Cardinality(Under(prefix, S)) = Cardinality(S)
<1>1. IsFiniteSet({prefix}) /\ Cardinality({prefix}) = 1
  BY FS_Singleton
<1>2. /\ IsFiniteSet({prefix} \X S)
      /\ Cardinality({prefix} \X S) = Cardinality({prefix}) * Cardinality(S)
  BY <1>1, FS_Product
<1>3. Cardinality(S) \in Nat
  BY FS_CardinalityType
<1> QED
  BY <1>1, <1>2, <1>3 DEF Under

LEMMA DisjointSize ==
  ASSUME NEW S, NEW T, IsFiniteSet(S), IsFiniteSet(T), \A x \in S : x \notin T
  PROVE  /\ IsFiniteSet(S \cup T) /\ Cardinality(S \cup T) = Cardinality(S) + Cardinality(T)
         /\ Cardinality(S) \in Nat /\ Cardinality(T) \in Nat
<1>1. S \cap T = {}
  OBVIOUS
<1>2. Cardinality(S \cap T) = 0
  BY <1>1, FS_EmptySet
<1> QED
  BY <1>2, FS_Union, FS_CardinalityType

LEMMA PairSize ==
  ASSUME NEW a, NEW b, NEW S \in SUBSET {a, b}
  PROVE  IsFiniteSet(S) /\ Cardinality(S) \in 0..2
<1>1. IsFiniteSet({a}) /\ Cardinality({a}) = 1
  BY FS_Singleton
<1>2. IsFiniteSet({a, b}) /\ Cardinality({a, b}) <= 2 /\ Cardinality({a, b}) \in Nat
  <2>1. {a, b} = {a} \cup {b}
    OBVIOUS
  <2>2. /\ IsFiniteSet({a} \cup {b})
        /\ Cardinality({a} \cup {b}) = IF b \in {a} THEN Cardinality({a}) ELSE Cardinality({a}) + 1
    BY <1>1, FS_AddElement
  <2>3. Cardinality({a, b}) = 1 \/ Cardinality({a, b}) = 2
    BY <1>1, <2>1, <2>2
  <2>4. IsFiniteSet({a, b})
    BY <2>1, <2>2
  <2> QED
    <3> DEFINE n == Cardinality({a, b})
    <3>1. n = 1 \/ n = 2
      BY <2>3
    <3> HIDE DEF n
    <3>2. n <= 2 /\ n \in Nat
      BY <3>1
    <3> QED
      BY <2>4, <3>2 DEF n
<1>3. IsFiniteSet(S) /\ Cardinality(S) <= Cardinality({a, b})
  BY <1>2, FS_Subset
<1> QED
  BY <1>2, <1>3, FS_CardinalityType

\* Scope and baggage keys are finitely many.
LEMMA KeysAreFew ==
  ASSUME RecordsInv
  PROVE  /\ IsFiniteSet(ScopeKeys) /\ Cardinality(ScopeKeys) \in 0..MaxAllowed
         /\ IsFiniteSet(BaggageKeys) /\ Cardinality(BaggageKeys) \in 0..MaxAllowed
<1>1. ASSUME NEW keys, keys \in {allow.scope, allow.baggage}, NEW S \in SUBSET ToSet(keys)
      PROVE  IsFiniteSet(S) /\ Cardinality(S) \in 0..MaxAllowed
  <2>1. keys \in Seq(ToSet(keys)) /\ Len(keys) <= MaxAllowed
    BY <1>1, RecordsAssumption DEF RecordsInv, RecordsAssumption, ValidPolicy, Allowed
  <2>2. IsFiniteSet(ToSet(keys)) /\ Cardinality(ToSet(keys)) <= MaxAllowed
    BY <2>1, AllowedAreFew
  <2>3. IsFiniteSet(S) /\ Cardinality(S) <= Cardinality(ToSet(keys))
    BY <2>2, FS_Subset
  <2>4. Cardinality(S) \in Nat /\ Cardinality(ToSet(keys)) \in Nat /\ MaxAllowed \in Nat
    BY <2>2, <2>3, FS_CardinalityType, BoundsAssumption DEF BoundsAssumption
  <2> QED
    BY <2>2, <2>3, <2>4
<1> QED
  BY <1>1 DEF ScopeKeys, BaggageKeys

\* All that a context may give fits in a record, and for a metric point it is
\* scope and baggage.
LEMMA NamesAreFew ==
  ASSUME RecordsInv, NEW include \in BOOLEAN
  PROVE  /\ Cardinality(DOMAIN Correlation(include)) <= MaxAttributes
         /\ ~include => Cardinality(DOMAIN Correlation(include)) =
                          Cardinality(ScopeKeys) + Cardinality(BaggageKeys)
<1> DEFINE A == Under("meridian", IdKeys(include))
           B == Under("meridian.scope", ScopeKeys)
           C == Under("baggage", BaggageKeys)
           D == SpanOf(include)
<1>1. IsFiniteSet(IdKeys(include)) /\ Cardinality(IdKeys(include)) \in 0..2
  <2>1. IdKeys(include) \in SUBSET {"request.id", "correlation.id"}
    BY RecordsAssumption DEF RecordsInv, RecordsAssumption, IdKeys, Identifiers
  <2> QED
    BY <2>1, PairSize
<1>2. IsFiniteSet(A) /\ Cardinality(A) = Cardinality(IdKeys(include))
  BY <1>1, UnderSize
<1>3. IsFiniteSet(B) /\ Cardinality(B) = Cardinality(ScopeKeys)
  BY KeysAreFew, UnderSize
<1>4. IsFiniteSet(C) /\ Cardinality(C) = Cardinality(BaggageKeys)
  BY KeysAreFew, UnderSize
<1>5. IsFiniteSet(D) /\ Cardinality(D) \in 0..2
  <2>1. D \in SUBSET {<<"", "trace_id">>, <<"", "span_id">>}
    BY DEF SpanOf, SpanNames
  <2> HIDE DEF D
  <2> QED
    BY <2>1, PairSize
<1>6. /\ \A name \in A : name[1] = "meridian"
      /\ \A name \in B : name[1] = "meridian.scope"
      /\ \A name \in C : name[1] = "baggage"
      /\ \A name \in D : name[1] = ""
  <2>1. \A name \in A : name[1] = "meridian"
    BY UnderNames
  <2>2. \A name \in B : name[1] = "meridian.scope"
    BY UnderNames
  <2>3. \A name \in C : name[1] = "baggage"
    BY UnderNames
  <2>4. \A name \in D : name[1] = ""
    BY SpanNameParts DEF SpanOf
  <2> QED
    BY <2>1, <2>2, <2>3, <2>4
<1>7. ~include => IdKeys(include) = {} /\ D = {}
  BY DEF IdKeys, SpanOf
<1>8. DOMAIN Correlation(include) = A \cup B \cup C \cup D
  BY CorrelationParts
<1> HIDE DEF A, B, C, D
<1>9. /\ IsFiniteSet(A \cup B)
      /\ Cardinality(A \cup B) = Cardinality(A) + Cardinality(B)
  BY <1>2, <1>3, <1>6, DisjointSize
<1>10. /\ IsFiniteSet(A \cup B \cup C)
       /\ Cardinality(A \cup B \cup C) = Cardinality(A \cup B) + Cardinality(C)
  BY <1>4, <1>6, <1>9, DisjointSize
<1>11. Cardinality(A \cup B \cup C \cup D) = Cardinality(A \cup B \cup C) + Cardinality(D)
  BY <1>5, <1>6, <1>10, DisjointSize
<1>12. Cardinality({}) = 0
  BY FS_EmptySet
<1>13. Cardinality(DOMAIN Correlation(include)) =
         Cardinality(IdKeys(include)) + Cardinality(ScopeKeys)
         + Cardinality(BaggageKeys) + Cardinality(D)
  BY <1>2, <1>3, <1>4, <1>8, <1>9, <1>10, <1>11
<1>14. /\ MaxAllowed \in Nat /\ MaxAttributes \in Nat
       /\ 2 * MaxAllowed + 4 <= MaxAttributes
  BY BoundsAssumption DEF BoundsAssumption
<1>15. ~include => Cardinality(IdKeys(include)) = 0 /\ Cardinality(D) = 0
  BY <1>7, <1>12
<1> QED
  BY <1>1, <1>5, <1>13, <1>14, <1>15, KeysAreFew

-----------------------------------------------------------------------------
(* What a context is refused for.                                           *)

\* None of its names is denied, as the allowlists have no such key.
LEMMA NoNameIsDenied ==
  ASSUME RecordsInv, NEW include \in BOOLEAN, NEW name \in DOMAIN Correlation(include)
  PROVE  name[2] \notin BadKeys
<1>1. \/ name \in Under("meridian", IdKeys(include)) \/ name \in Under("meridian.scope", ScopeKeys)
      \/ name \in Under("baggage", BaggageKeys) \/ name \in SpanOf(include)
  BY CorrelationParts
<1>2. CASE name \in Under("meridian", IdKeys(include))
  <2>1. name[2] \in IdKeys(include)
    BY <1>2, UnderNames
  <2>2. IdKeys(include) \subseteq Identifiers
    BY RecordsAssumption DEF RecordsInv, RecordsAssumption, IdKeys
  <2> QED
    BY <2>1, <2>2, BoundsAssumption DEF BoundsAssumption
<1>3. CASE name \in Under("meridian.scope", ScopeKeys)
  <2>1. name[2] \in ScopeKeys
    BY <1>3, UnderNames
  <2> QED
    BY <2>1 DEF ScopeKeys, RecordsInv, ValidPolicy, Allowed
<1>4. CASE name \in Under("baggage", BaggageKeys)
  <2>1. name[2] \in BaggageKeys
    BY <1>4, UnderNames
  <2> QED
    BY <2>1 DEF BaggageKeys, RecordsInv, ValidPolicy, Allowed
<1>5. CASE name \in SpanOf(include)
  <2>1. name \in SpanNames
    BY <1>5 DEF SpanOf
  <2> QED
    BY <2>1, BoundsAssumption DEF BoundsAssumption
<1> QED
  BY <1>1, <1>2, <1>3, <1>4, <1>5

LEMMA LeafPasses ==
  ASSUME NEW value, value.kind = "leaf", value.sort \in Scalars \cup {"loose"}
  PROVE  PassesAttribute(value) <=> value.sort # "loose"
BY DEF PassesAttribute, Scalars

\* Its values pass, but for these.
Unfit(include) ==
  \/ \E key \in ScopeKeys : ~PassesAttribute(context.scope[key])
  \/ \E key \in BaggageKeys : context.baggage[key].sort = "loose"
  \/ \E key \in IdKeys(include) : context.ids[key].sort = "loose"

LEMMA ContextPasses ==
  ASSUME RecordsInv, NEW include \in BOOLEAN
  PROVE  sanitize_attributes(Correlation(include)) <=> ~Unfit(include)
<1> DEFINE c == Correlation(include)
<1>1. sanitize_attributes(c) <=> \A name \in DOMAIN c : PassesAttribute(c[name])
  BY NamesAreFew, NoNameIsDenied DEF sanitize_attributes
<1>2. ASSUME NEW key \in BaggageKeys
      PROVE  PassesAttribute(context.baggage[key]) <=> context.baggage[key].sort # "loose"
  BY LeafPasses DEF BaggageKeys, Readable
<1>3. ASSUME NEW key \in IdKeys(include)
      PROVE  PassesAttribute(context.ids[key]) <=> context.ids[key].sort # "loose"
  <2>1. context.ids[key] \in {Leaf("text"), Leaf("loose")}
    BY RecordsAssumption DEF RecordsInv, RecordsAssumption, IdKeys
  <2>2. context.ids[key].kind = "leaf" /\ context.ids[key].sort \in Scalars \cup {"loose"}
    BY <2>1 DEF Leaf, Scalars
  <2> QED
    BY <2>2, LeafPasses
<1>4. PassesAttribute(Leaf("text"))
  BY DEF PassesAttribute, Leaf, Scalars
<1>5. /\ \A key \in IdKeys(include) : c[<<"meridian", key>>] = context.ids[key]
      /\ \A key \in ScopeKeys : c[<<"meridian.scope", key>>] = context.scope[key]
      /\ \A key \in BaggageKeys : c[<<"baggage", key>>] = context.baggage[key]
  BY CorrelationParts
<1>a. \A name \in SpanOf(include) : c[name] = Leaf("text")
  BY CorrelationParts
<1>6. /\ Under("meridian", IdKeys(include)) \subseteq DOMAIN c
      /\ Under("meridian.scope", ScopeKeys) \subseteq DOMAIN c
      /\ Under("baggage", BaggageKeys) \subseteq DOMAIN c
      /\ \A name \in DOMAIN c :
           \/ name \in Under("meridian", IdKeys(include))
           \/ name \in Under("meridian.scope", ScopeKeys)
           \/ name \in Under("baggage", BaggageKeys) \/ name \in SpanOf(include)
  BY CorrelationParts
<1> HIDE DEF c
<1>7. ASSUME \A name \in DOMAIN c : PassesAttribute(c[name])
      PROVE  ~Unfit(include)
  <2>1. \A key \in ScopeKeys : PassesAttribute(context.scope[key])
    BY <1>5, <1>6, <1>7, UnderNames
  <2>2. \A key \in BaggageKeys : PassesAttribute(context.baggage[key])
    BY <1>5, <1>6, <1>7, UnderNames
  <2>3. \A key \in IdKeys(include) : PassesAttribute(context.ids[key])
    BY <1>5, <1>6, <1>7, UnderNames
  <2> QED
    BY <1>2, <1>3, <2>1, <2>2, <2>3 DEF Unfit
<1>8. ASSUME ~Unfit(include), NEW name \in DOMAIN c
      PROVE  PassesAttribute(c[name])
  <2>1. CASE name \in Under("meridian", IdKeys(include))
    <3>1. name[2] \in IdKeys(include) /\ name = <<"meridian", name[2]>>
      BY <2>1, UnderNames
    <3>2. PassesAttribute(context.ids[name[2]])
      BY <1>3, <1>8, <3>1 DEF Unfit
    <3> QED
      BY <1>5, <3>1, <3>2
  <2>2. CASE name \in Under("meridian.scope", ScopeKeys)
    <3>1. name[2] \in ScopeKeys /\ name = <<"meridian.scope", name[2]>>
      BY <2>2, UnderNames
    <3>2. PassesAttribute(context.scope[name[2]])
      BY <1>8, <3>1 DEF Unfit
    <3> QED
      BY <1>5, <3>1, <3>2
  <2>3. CASE name \in Under("baggage", BaggageKeys)
    <3>1. name[2] \in BaggageKeys /\ name = <<"baggage", name[2]>>
      BY <2>3, UnderNames
    <3>2. PassesAttribute(context.baggage[name[2]])
      BY <1>2, <1>8, <3>1 DEF Unfit
    <3> QED
      BY <1>5, <3>1, <3>2
  <2>4. CASE name \in SpanOf(include)
    BY <1>4, <1>a, <2>4
  <2> QED
    BY <1>6, <2>1, <2>2, <2>3, <2>4
<1> QED
  BY <1>1, <1>7, <1>8 DEF c

\* A call that is in order raises for its context alone, and exactly where that
\* has a value that is not fit or too much for a metric point.
THEOREM ContextSilences == RecordsSpec => []SilencedByContext
<1>1. RecordsInv => SilencedByContext
  <2> DEFINE include == call.kind # "metric"
             unfit == \/ Unfit(include)
                      \/ /\ call.kind = "metric"
                         /\ Cardinality(ScopeKeys) + Cardinality(BaggageKeys) > MaxSystem
  <2> SUFFICES ASSUME RecordsInv, call # None, call.kind \notin Annotations, call.valid,
                      sanitize_attributes(call.attributes),
                      call.kind = "log" => ~Refused(call.body)
               PROVE  outcome.answer = "raised" <=> unfit /\ ~context.suppressed
    BY DEF SilencedByContext, Unfit, IdKeys, ScopeKeys, BaggageKeys
  <2>1. sanitize_attributes(Correlation(include)) <=> ~Unfit(include)
    BY ContextPasses
  <2>2. call.kind = "metric" =>
          Cardinality(DOMAIN Correlation(FALSE)) = Cardinality(ScopeKeys) + Cardinality(BaggageKeys)
    BY NamesAreFew
  <2>3. Raises(call) <=> unfit
    BY <2>1, <2>2 DEF Raises, Annotations
  <2>4. outcome = IF context.suppressed THEN Outcome("suppressed", <<>>) ELSE Reached(call)
    BY DEF RecordsInv, Answered
  <2>5. Reached(call).answer = "raised" <=> Raises(call)
    BY DEF Reached, Outcome
  <2>6. Outcome("suppressed", <<>>).answer # "raised"
    BY DEF Outcome
  <2> HIDE DEF unfit
  <2> QED
    BY <2>3, <2>4, <2>5, <2>6
<1> QED
  BY <1>1, RecordsInvariant, PTL

=============================================================================
