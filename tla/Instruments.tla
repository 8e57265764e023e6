----------------------------- MODULE Instruments ----------------------------
(***************************************************************************)
(* instruments/metrics.py, instruments/packs.py and CardinalityGuard of    *)
(* policy.py: instruments are declared once per meter and record through a *)
(* guard that bounds the number of their series.                           *)
(*                                                                         *)
(* A meter is a SafeMeter.  Its lock covers only _register, and a guard's  *)
(* lock only the check of one series: the SDK is called outside of both.   *)
(***************************************************************************)
EXTENDS Naturals, FiniteSets, Sequences

CONSTANTS
  Threads,          \* threads of the application
  Interruptible,    \* those that KeyboardInterrupt can reach
  Meters,           \* the SafeMeters
  Scope,            \* Scope[m]: the SDK meter that m is bound to
  Names, Kinds,     \* names and kinds of instruments
  Details,          \* the other fields of an InstrumentDefinition
  Limit,            \* Limit[d]: cardinality_limit
  Accepts,          \* Accepts[d]: the attributes that d allows
  Invalid,          \* details that InstrumentDefinition rejects
  Unsupported,      \* details that the SDK rejects
  Plans,            \* what callers create: one instrument, or those of a pack
  Attributes,       \* attributes that callers record with
  Correlations,     \* correlation attributes of a context
  BadCorrelations,  \* those that sanitize_attributes rejects
  None              \* no meter, no instrument, no series

Declarations == [name : Names, kind : Kinds, detail : Details]

ASSUME InstrumentsAssumption ==
  /\ Interruptible \subseteq Threads
  /\ Limit \in [Details -> Nat \ {0}]
  /\ Accepts \in [Details -> SUBSET Attributes]
  /\ Plans \subseteq Seq(Declarations) \ {<<>>}
  /\ {"counter", "histogram"} \subseteq Kinds

VARIABLES
  declared,  \* declared[m]: _definitions, a set of instruments
  series,    \* series[g]: _series of guard g
  sdk,       \* sdk[s][n]: the series the SDK has for instrument n of meter s
  held,      \* the instruments that have been returned to callers
  frame,     \* frame[t]: the call that t is inside of
  result     \* result[t]: what the last call of t returned or raised

instrumentVars == <<declared, series, sdk, held, frame, result>>

-----------------------------------------------------------------------------
(* A guard is named by the entry it was made for and the thread that made   *)
(* it.  An instrument is an entry of _definitions, or what is returned.     *)

Guards == Meters \X Names \X Threads
Series == Attributes \X Correlations

Instruments == [meter : Meters, name : Names, kind : Kinds, detail : Details,
                guard : Guards]

Amounts == {"valid", "negative", "unfit"}

Waiting == [pc |-> "idle", meter |-> None, plan |-> <<>>, made |-> {}, inst |-> None,
            id |-> None, amount |-> "valid"]

Frames == [pc : {"idle", "register", "make", "guard", "add"},
           meter : Meters \cup {None}, plan : Seq(Declarations),
           made : SUBSET Instruments, inst : Instruments \cup {None},
           id : Series \cup {None}, amount : Amounts]

Result(kind, inst, id) == [kind |-> kind, inst |-> inst, id |-> id]
Plain(kind) == Result(kind, None, None)

Results == [kind : {"none", "created", "recorded", "suppressed", "invalid",
                    "unsupported", "exceeded", "interrupted"},
            inst : Instruments \cup {None}, id : Series \cup {None}]

Return(t, r) ==
  /\ frame' = [frame EXCEPT ![t] = Waiting]
  /\ result' = [result EXCEPT ![t] = r]

\* The instrument that the plan of f asks for next, guarded by g.
Wanted(f, g) ==
  LET d == Head(f.plan) IN
  [meter |-> f.meter, name |-> d.name, kind |-> d.kind, detail |-> d.detail, guard |-> g]

Entries(m, n) == {i \in declared[m] : i.name = n}

InstrumentsInit ==
  /\ declared = [m \in Meters |-> {}]
  /\ series = [g \in Guards |-> {}]
  /\ sdk = [s \in {Scope[m] : m \in Meters} |-> [n \in Names |-> {}]]
  /\ held = {}
  /\ frame = [t \in Threads |-> Waiting]
  /\ result = [t \in Threads |-> Plain("none")]

-----------------------------------------------------------------------------
(* Declaring instruments.                                                   *)

Create(t, m, plan) ==
  /\ frame[t].pc = "idle"
  /\ frame' = [frame EXCEPT ![t] = [Waiting EXCEPT
                 !.pc = "register", !.meter = m, !.plan = plan]]
  /\ result' = [result EXCEPT ![t] = Plain("none")]
  /\ UNCHANGED <<declared, series, sdk, held>>

\* InstrumentDefinition.__post_init__ raises, before anything is registered.
RejectDefinition(t) ==
  /\ frame[t].pc = "register" /\ Head(frame[t].plan).detail \in Invalid
  /\ Return(t, Plain("invalid"))
  /\ UNCHANGED <<declared, series, sdk, held>>

\* Mutant: a declaration that is already there gets a guard of its own.
RegisterAnew(t) ==
  LET f == frame[t]
      d == Head(f.plan)
      fresh == Wanted(f, <<f.meter, d.name, t>>) IN
  /\ f.pc = "register" /\ d.detail \notin Invalid
  /\ \A i \in Entries(f.meter, d.name) : i = Wanted(f, i.guard)
  /\ declared' = [declared EXCEPT ![f.meter] =
                    (@ \ Entries(f.meter, d.name)) \cup {fresh}]
  /\ frame' = [frame EXCEPT ![t] = [f EXCEPT !.pc = "make", !.inst = fresh]]
  /\ UNCHANGED <<series, sdk, held, result>>

\* _register: the entry is looked up and made in one critical section.
Register(t) ==
  LET f == frame[t]
      d == Head(f.plan)
      fresh == Wanted(f, <<f.meter, d.name, t>>) IN
  /\ f.pc = "register" /\ d.detail \notin Invalid
  /\ \/ /\ Entries(f.meter, d.name) = {}
        /\ declared' = [declared EXCEPT ![f.meter] = @ \cup {fresh}]
        /\ frame' = [frame EXCEPT ![t] = [f EXCEPT !.pc = "make", !.inst = fresh]]
     \/ \E i \in Entries(f.meter, d.name) :
          /\ i = Wanted(f, i.guard)
          /\ frame' = [frame EXCEPT ![t] = [f EXCEPT !.pc = "make", !.inst = i]]
          /\ UNCHANGED declared
  /\ UNCHANGED <<series, sdk, held, result>>

\* The name was declared differently.
RejectName(t) ==
  LET f == frame[t] IN
  /\ f.pc = "register" /\ Head(f.plan).detail \notin Invalid
  /\ \E i \in Entries(f.meter, Head(f.plan).name) : i # Wanted(f, i.guard)
  /\ Return(t, Plain("invalid"))
  /\ UNCHANGED <<declared, series, sdk, held>>

\* The SDK makes the instrument.  The last one of the plan ends the call, and
\* only then does the caller get any of them.
Make(t) ==
  LET f == frame[t]
      made == f.made \cup {f.inst} IN
  /\ f.pc = "make" /\ f.inst.detail \notin Unsupported
  /\ IF Len(f.plan) = 1
     THEN Return(t, Plain("created")) /\ held' = held \cup made
     ELSE /\ frame' = [frame EXCEPT ![t] = [f EXCEPT
                         !.pc = "register", !.plan = Tail(@), !.made = made]]
          /\ UNCHANGED <<held, result>>
  /\ UNCHANGED <<declared, series, sdk>>

\* The SDK raises: the name stays declared, without an instrument.
MakeRaises(t) ==
  /\ frame[t].pc = "make" /\ frame[t].inst.detail \in Unsupported
  /\ Return(t, Plain("unsupported"))
  /\ UNCHANGED <<declared, series, sdk, held>>

-----------------------------------------------------------------------------
(* Recording.                                                               *)

\* _measurement
Measurable(kind, amount) ==
  amount = "valid" \/ (amount = "negative" /\ kind # "counter")

\* instrumentation_suppressed() is true in the caller's context.
Suppressed(t) ==
  /\ frame[t].pc = "idle" /\ held # {}
  /\ result' = [result EXCEPT ![t] = Plain("suppressed")]
  /\ UNCHANGED <<declared, series, sdk, held, frame>>

\* The measurement, the attributes or the context of the call are rejected.
RejectMeasurement(t, i, amount, a, c) ==
  /\ frame[t].pc = "idle"
  /\ ~Measurable(i.kind, amount) \/ a \notin Accepts[i.detail] \/ c \in BadCorrelations
  /\ result' = [result EXCEPT ![t] = Plain("invalid")]
  /\ UNCHANGED <<declared, series, sdk, held, frame>>

\* Mutant: the measurement is left to the SDK to check.
MeasureUnchecked(t, i, amount, a, c) ==
  /\ frame[t].pc = "idle"
  /\ a \in Accepts[i.detail] /\ c \notin BadCorrelations
  /\ frame' = [frame EXCEPT ![t] = [Waiting EXCEPT
                 !.pc = "guard", !.inst = i, !.id = <<a, c>>, !.amount = amount]]
  /\ result' = [result EXCEPT ![t] = Plain("none")]
  /\ UNCHANGED <<declared, series, sdk, held>>

\* The call is in order: its series is the attributes and the context's.
Measure(t, i, amount, a, c) ==
  /\ frame[t].pc = "idle"
  /\ Measurable(i.kind, amount) /\ a \in Accepts[i.detail] /\ c \notin BadCorrelations
  /\ frame' = [frame EXCEPT ![t] = [Waiting EXCEPT
                 !.pc = "guard", !.inst = i, !.id = <<a, c>>, !.amount = amount]]
  /\ result' = [result EXCEPT ![t] = Plain("none")]
  /\ UNCHANGED <<declared, series, sdk, held>>

Full(i) == Cardinality(series[i.guard]) >= Limit[i.detail]

\* Mutant: one series too many.
AdmitOneMore(t) ==
  LET f == frame[t]
      seen == series[f.inst.guard] IN
  /\ f.pc = "guard" /\ (f.id \in seen \/ Cardinality(seen) <= Limit[f.inst.detail])
  /\ series' = [series EXCEPT ![f.inst.guard] = @ \cup {f.id}]
  /\ frame' = [frame EXCEPT ![t] = [f EXCEPT !.pc = "add"]]
  /\ UNCHANGED <<declared, sdk, held, result>>

\* The guard admits a series that it knows or has room for.
Admit(t) ==
  LET f == frame[t] IN
  /\ f.pc = "guard" /\ (f.id \in series[f.inst.guard] \/ ~Full(f.inst))
  /\ series' = [series EXCEPT ![f.inst.guard] = @ \cup {f.id}]
  /\ frame' = [frame EXCEPT ![t] = [f EXCEPT !.pc = "add"]]
  /\ UNCHANGED <<declared, sdk, held, result>>

\* Mutant: a full guard refuses the series it knows as well.
RefuseAll(t) ==
  LET f == frame[t] IN
  /\ f.pc = "guard" /\ Full(f.inst)
  /\ Return(t, Result("exceeded", f.inst, f.id))
  /\ UNCHANGED <<declared, series, sdk, held>>

\* CardinalityExceeded.
Refuse(t) ==
  LET f == frame[t] IN
  /\ f.pc = "guard" /\ f.id \notin series[f.inst.guard] /\ Full(f.inst)
  /\ Return(t, Result("exceeded", f.inst, f.id))
  /\ UNCHANGED <<declared, series, sdk, held>>

\* What the SDK's instruments take: its histograms drop a negative amount as
\* its counters do, with a warning, though _measurement lets it pass.
SdkTakes(kind, amount) ==
  amount = "valid" \/ (amount = "negative" /\ kind \notin {"counter", "histogram"})

\* The SDK records, except what its instrument does not take.
Add(t) ==
  LET f == frame[t]
      s == Scope[f.inst.meter] IN
  /\ f.pc = "add"
  /\ sdk' = IF SdkTakes(f.inst.kind, f.amount)
            THEN [sdk EXCEPT ![s] = [sdk[s] EXCEPT ![f.inst.name] = @ \cup {f.id}]]
            ELSE sdk
  /\ Return(t, Result("recorded", f.inst, f.id))
  /\ UNCHANGED <<declared, series, held>>

\* KeyboardInterrupt between two steps: what was registered or admitted stays.
InterruptMetric(t) ==
  /\ t \in Interruptible /\ frame[t].pc # "idle"
  /\ Return(t, Plain("interrupted"))
  /\ UNCHANGED <<declared, series, sdk, held>>

MetricStep(t) ==
  \/ RejectDefinition(t) \/ Register(t) \/ RejectName(t)
  \/ Make(t) \/ MakeRaises(t)
  \/ Admit(t) \/ Refuse(t) \/ Add(t)

MetricCall(t) ==
  \/ \E m \in Meters, plan \in Plans : Create(t, m, plan)
  \/ Suppressed(t)
  \/ \E i \in held, amount \in Amounts, a \in Attributes, c \in Correlations :
       RejectMeasurement(t, i, amount, a, c) \/ Measure(t, i, amount, a, c)

InstrumentsNext ==
  \E t \in Threads : MetricCall(t) \/ MetricStep(t) \/ InterruptMetric(t)

InstrumentsSpec == InstrumentsInit /\ [][InstrumentsNext]_instrumentVars

-----------------------------------------------------------------------------
InstrumentsTypeOK ==
  /\ declared \in [Meters -> SUBSET Instruments]
  /\ series \in [Guards -> SUBSET Series]
  /\ sdk \in [{Scope[m] : m \in Meters} -> [Names -> SUBSET Series]]
  /\ held \subseteq Instruments
  /\ frame \in [Threads -> Frames]
  /\ result \in [Threads -> Results]

\* However threads race to declare a name, and packs fail in their middle, the
\* instruments of one name that callers of one meter hold agree in kind and
\* definition and share one guard: no budget is handed out twice
\* (test_repeated_metric_declaration_shares_cardinality_budget).
SharedGuard ==
  \A i, j \in held : i.meter = j.meter /\ i.name = j.name => i = j

\* The SDK never has more series of an instrument than the definitions it was
\* declared with allow (docs/architecture.md: "a per-instrument cardinality
\* budget"), though the check and the SDK's call are apart.
BudgetKept ==
  \A i \in UNION {declared[m] : m \in Meters} :
    Cardinality(sdk[Scope[i.meter]][i.name]) <= Limit[i.detail]

\* A measurement is refused only when its guard is full of other series, and
\* then it would be at any later time: what was recorded once can be recorded
\* again, whatever other threads add.
RefusedForGood ==
  \A t \in Threads : result[t].kind = "exceeded" =>
    /\ result[t].id \notin series[result[t].inst.guard]
    /\ Full(result[t].inst)

\* A slot of the budget is taken only by a measurement that _measurement let pass
\* and that is on its way to the SDK: a suppressed call and one whose amount,
\* attributes or context are rejected use up nothing.  The SDK then has its series,
\* but for two ways to waste the slot: an interrupt in between, and the negative
\* amount of a histogram, which nobody asks about before the guard has counted it.
NoSlotWasted ==
  [][/\ \A i \in UNION {declared[m] : m \in Meters} :
          \A id \in series'[i.guard] \ series[i.guard] :
            \E t \in Threads :
              /\ frame'[t].pc = "add" /\ frame'[t].inst = i /\ frame'[t].id = id
              /\ Measurable(i.kind, frame'[t].amount)
     /\ \A t \in Threads :
          frame[t].pc = "add" /\ frame'[t].pc # "add" =>
            \/ result'[t].kind = "interrupted"
            \/ frame[t].inst.kind = "histogram" /\ frame[t].amount = "negative"
            \/ frame[t].id \in sdk'[Scope[frame[t].inst.meter]][frame[t].inst.name]
    ]_instrumentVars

-----------------------------------------------------------------------------
(* The inductive invariant: what ties guards, entries and calls together.   *)

Declared == UNION {declared[m] : m \in Meters}

\* A name has one entry in its meter, and a guard one entry.
OneEntry ==
  /\ \A m \in Meters : \A i \in declared[m] :
       i.meter = m /\ i.guard[1] = m /\ i.guard[2] = i.name
  /\ \A i, j \in Declared : i.meter = j.meter /\ i.name = j.name => i = j

\* Every instrument that somebody holds or works on was declared.
FrameDeclared(t) ==
  LET f == frame[t] IN
  /\ f.made \subseteq Declared
  /\ f.pc \in {"register", "make"} => f.meter \in Meters /\ f.plan # <<>>
  /\ f.pc \in {"make", "guard", "add"} => f.inst \in Declared
  /\ f.pc \in {"guard", "add"} => f.id \in Series
  /\ result[t].kind = "exceeded" => result[t].inst \in Declared

AllDeclared == held \subseteq Declared /\ \A t \in Threads : FrameDeclared(t)

\* A guard counts for an entry, within its limit.
WithinLimit ==
  /\ \A g \in Guards : series[g] # {} => \E i \in Declared : i.guard = g
  /\ \A i \in Declared : /\ IsFiniteSet(series[i.guard])
                         /\ Cardinality(series[i.guard]) <= Limit[i.detail]

\* The SDK gets no series that no guard has admitted.
Admitted ==
  /\ \A t \in Threads : frame[t].pc = "add" => frame[t].id \in series[frame[t].inst.guard]
  /\ \A m \in Meters, n \in Names : \A id \in sdk[Scope[m]][n] :
       \E i \in Declared : Scope[i.meter] = Scope[m] /\ i.name = n /\ id \in series[i.guard]

\* Only an amount that _measurement lets pass gets as far as the guard.
OnlyMeasured ==
  \A t \in Threads :
    frame[t].pc \in {"guard", "add"} => Measurable(frame[t].inst.kind, frame[t].amount)

InstrumentsInv ==
  /\ InstrumentsTypeOK /\ OneEntry /\ AllDeclared /\ WithinLimit /\ Admitted
  /\ RefusedForGood /\ OnlyMeasured

=============================================================================
