--------------------------- MODULE MCInstruments ----------------------------
(* Instruments on small instances.                                           *)
EXTENDS Instruments

CONSTANTS t1, t2, m1, m2, a1, a2, a3, c1, c2

Decl(n, k, d) == [name |-> n, kind |-> k, detail |-> d]

\* "duration" is asked for alone, differently, and in a pack after "requests";
\* the SDK does not take the unit of "odd", and "bad" is no definition.
MCPlans ==
  { <<Decl("duration", "histogram", "plain")>>,
    <<Decl("duration", "gauge", "plain")>>,
    <<Decl("requests", "counter", "tight"), Decl("duration", "histogram", "plain")>>,
    <<Decl("requests", "counter", "odd")>>,
    <<Decl("duration", "histogram", "bad")>> }

\* One instrument, asked for by everybody.
MCOnePlan == { <<Decl("requests", "counter", "tight")>> }

MCLimit == [d \in Details |-> IF d = "plain" THEN 2 ELSE 1]
MCAccepts == [d \in Details |-> IF d = "plain" THEN Attributes \ {a3} ELSE Attributes]
MCOwnScope == [m \in Meters |-> m]
MCOneScope == [m \in Meters |-> m1]
=============================================================================
