----------------------------- MODULE MCRecords ------------------------------
(* Records and Bodies on small instances.                                    *)
EXTENDS Bodies

MCText == Leaf("text")
MCPolicy(scope, baggage) == [scope |-> scope, baggage |-> baggage]
MCPolicies ==
  {MCPolicy(scope, <<"a", "b">>) :
     scope \in {<<"a", "b">>, <<"a", "a">>, <<"a", "token">>, <<"a", "b", "c">>}}
  \cup {MCPolicy(<<>>, <<"token">>), MCPolicy(<<"a">>, <<>>)}

\* Some keys with text, and perhaps one with another value.
MCValues(others) ==
  {<<>>, "a" :> MCText, "a" :> MCText @@ "b" :> MCText, "c" :> MCText,
   "token" :> MCText, "a" :> MCText @@ "token" :> MCText}
  \cup {"a" :> value : value \in others}

MCContext(ids, scope, baggage, span, suppressed) ==
  [ids |-> ids, scope |-> scope, baggage |-> baggage, span |-> span, suppressed |-> suppressed]

\* What one part of a context may be while the others are plain, and all in full.
MCIds == "request.id" :> MCText @@ "correlation.id" :> MCText
MCTwoKeys == "a" :> MCText @@ "b" :> MCText
MCContexts ==
  {MCContext(ids, <<>>, <<>>, FALSE, FALSE) : ids \in {<<>>, "correlation.id" :> Leaf("loose")}}
  \cup {MCContext(MCIds, scope, <<>>, TRUE, FALSE) : scope \in MCValues({Leaf("odd"), Array(<<"text">>)})}
  \cup {MCContext(<<>>, "a" :> MCText, baggage, FALSE, FALSE) :
          baggage \in MCValues({Leaf("odd"), Leaf("loose")})}
  \cup {MCContext(MCIds, MCTwoKeys, MCTwoKeys, TRUE, suppressed) : suppressed \in BOOLEAN}

MCNumber == Leaf("number")
MCAttributes ==
  {<<>>, <<"", "a">> :> MCNumber, <<"", "token">> :> MCNumber,
   <<"", "a">> :> Array(<<>>), <<"", "a">> :> Array(<<"text", "number">>),
   <<"", "a">> :> Array(<<"text", "text">>) @@ <<"", "b">> :> Leaf("loose"),
   <<"", "trace_id">> :> MCNumber @@ <<"baggage", "a">> :> MCNumber,
   <<"meridian", "request.id">> :> MCNumber @@ <<"", "exception.type">> :> MCNumber,
   <<"meridian.scope", "b">> :> MCNumber,
   [name \in {""} \X {"a", "b", "c", "d", "e", "f", "g", "h", "i"} |-> MCNumber]}

\* What spans are started with: nothing, names of the context, too much, and as
\* much as there may be.
MCEight == [name \in {""} \X {"a", "b", "c", "d", "e", "f", "g", "h"} |-> MCNumber]
MCStarts ==
  {<<>>, <<"", "token">> :> MCNumber, MCEight,
   <<"meridian", "request.id">> :> MCNumber @@ <<"baggage", "a">> :> MCNumber}

MCCall(kind, valid, attributes, exception, body) ==
  [kind |-> kind, valid |-> valid, attributes |-> attributes,
   exception |-> exception, body |-> body]

\* Mappings with some of the keys, in their order, and values of V.
MCNothing == Leaf("nothing")
MCMappings(keys, V) ==
  {Mapping(SelectSeq([i \in DOMAIN keys |-> Entry(keys[i], v[i])],
                     LAMBDA entry : entry.body # MCNothing)) :
     v \in [DOMAIN keys -> V \cup {MCNothing}]}

MCLeaves == {Leaf(sort) : sort \in {"text", "loose", "null", "odd"}}
MCArrays == {Array(sorts) : sorts \in {<<>>, <<"text">>, <<"null", "text">>,
                                       <<"text", "number">>, <<"text", "text", "text">>}}
MCFull == Array(<<"text", "text">>)
MCOf(keys, value) == Mapping([i \in DOMAIN keys |-> Entry(keys[i], value)])

\* Flat ones, with any value; wide ones; and deep ones, of which two are side by
\* side and reach the bounds together.
MCFlat == MCMappings(<<"a">>, MCLeaves \cup MCArrays)
          \cup {MCOf(<<"token", "a">>, MCText)}
MCWide == MCMappings(<<"a", "b">>,
            {MCOf(<<>>, MCText), MCOf(<<"a">>, MCText), MCOf(<<"a", "b">>, MCText),
             MCOf(<<"a", "b">>, MCFull), MCOf(<<"a", "b", "c">>, MCFull),
             MCOf(<<"token">>, MCText)})
MCTwo == {MCOf(<<"a">>, MCFull), MCOf(<<"a", "b">>, MCFull), MCOf(<<"a">>, MCOf(<<>>, MCText))}
MCDeep == MCMappings(<<"a", "b">>, MCTwo \cup {MCOf(<<"a">>, m) : m \in MCTwo})
MCBodies == MCLeaves \cup MCArrays \cup MCFlat \cup MCWide \cup MCDeep

\* Any attributes, with a plain body; any body, in a record without attributes;
\* and attributes of a span one by one.
MCOnes == {<<"", "i">> :> MCNumber, <<"", "token">> :> MCNumber,
           <<"meridian", "request.id">> :> MCNumber}
MCCalls ==
  {MCCall(kind, TRUE, attributes, kind = "log" /\ attributes # <<>>, MCText) :
     kind \in {"log", "metric", "event"}, attributes \in MCAttributes}
  \cup {MCCall("span", TRUE, attributes, FALSE, MCText) : attributes \in MCStarts}
  \cup {MCCall("attribute", TRUE, attributes, FALSE, MCText) : attributes \in MCOnes}
  \cup {MCCall(kind, FALSE, <<>>, FALSE, MCText) : kind \in {"log", "span", "metric", "event"}}
  \cup {MCCall("log", TRUE, <<>>, FALSE, body) : body \in MCBodies}

\* What the walk refuses.
MCRefused(body) == sanitize_body(body).refused
=============================================================================
