------------------------- MODULE InstrumentsProofs --------------------------
(***************************************************************************)
(* Proofs about Instruments, for any threads, meters, definitions, limits  *)
(* and attributes: InstrumentsInv is an invariant, and the properties of   *)
(* the instruments follow from it.                                         *)
(***************************************************************************)
EXTENDS Instruments, FiniteSetTheorems, SequenceTheorems, TLAPS

\* A finite set grows by one with an element that is new to it.
LEMMA OneMore ==
  ASSUME NEW S, NEW x, IsFiniteSet(S), x \notin S
  PROVE  IsFiniteSet(S \cup {x}) /\ Cardinality(S \cup {x}) = Cardinality(S) + 1
BY FS_AddElement

-----------------------------------------------------------------------------
(* Types.                                                                   *)

LEMMA WaitingIsFrame == Waiting \in Frames
<1>1. <<>> \in Seq(Declarations)
  BY EmptySeq
<1> QED
  BY <1>1 DEF Waiting, Frames, Amounts

LEMMA ResultIsResult ==
  ASSUME NEW kind \in {"none", "created", "recorded", "suppressed", "invalid",
                       "unsupported", "exceeded", "interrupted"},
         NEW inst \in Instruments \cup {None}, NEW id \in Series \cup {None}
  PROVE  Result(kind, inst, id) \in Results
BY DEF Result, Results

LEMMA PlainIsResult ==
  ASSUME NEW kind \in {"none", "created", "recorded", "suppressed", "invalid",
                       "unsupported", "exceeded", "interrupted"}
  PROVE  Plain(kind) \in Results
BY ResultIsResult DEF Plain

\* What a thread asks its meter for is an instrument.
LEMMA WantedIsInstrument ==
  ASSUME NEW f \in Frames, f.meter \in Meters, f.plan # <<>>, NEW t \in Threads
  PROVE  /\ Head(f.plan) \in Declarations
         /\ <<f.meter, Head(f.plan).name, t>> \in Guards
         /\ Wanted(f, <<f.meter, Head(f.plan).name, t>>) \in Instruments
<1>1. f.plan \in Seq(Declarations)
  BY DEF Frames
<1>2. Head(f.plan) \in Declarations
  BY <1>1, HeadTailProperties
<1>3. <<f.meter, Head(f.plan).name, t>> \in Guards
  BY <1>2 DEF Declarations, Guards
<1> QED
  BY <1>2, <1>3 DEF Wanted, Declarations, Instruments

\* A call that ends, ends with a result.
LEMMA ReturnTypes ==
  ASSUME InstrumentsTypeOK, NEW t \in Threads, NEW r \in Results, Return(t, r)
  PROVE  frame' \in [Threads -> Frames] /\ result' \in [Threads -> Results]
BY WaitingIsFrame DEF InstrumentsTypeOK, Return

LEMMA CallTypes ==
  ASSUME InstrumentsInv, NEW t \in Threads, MetricCall(t)
  PROVE  InstrumentsTypeOK'
<1> USE DEF InstrumentsInv, InstrumentsTypeOK
<1>1. ASSUME NEW m \in Meters, NEW plan \in Plans, Create(t, m, plan)
      PROVE  InstrumentsTypeOK'
  <2>1. plan \in Seq(Declarations)
    BY InstrumentsAssumption DEF InstrumentsAssumption
  <2>2. [Waiting EXCEPT !.pc = "register", !.meter = m, !.plan = plan] \in Frames
    BY <2>1 DEF Waiting, Frames, Amounts
  <2> QED
    BY <1>1, <2>2, PlainIsResult DEF Create
<1>2. CASE Suppressed(t)
  BY <1>2, PlainIsResult DEF Suppressed
<1>3. ASSUME NEW i \in held, NEW amount \in Amounts, NEW a \in Attributes,
             NEW c \in Correlations, RejectMeasurement(t, i, amount, a, c)
      PROVE  InstrumentsTypeOK'
  BY <1>3, PlainIsResult DEF RejectMeasurement
<1>4. ASSUME NEW i \in held, NEW amount \in Amounts, NEW a \in Attributes,
             NEW c \in Correlations, Measure(t, i, amount, a, c)
      PROVE  InstrumentsTypeOK'
  <2>1. i \in Instruments /\ <<a, c>> \in Series
    BY DEF Series
  <2>2. [Waiting EXCEPT !.pc = "guard", !.inst = i, !.id = <<a, c>>,
                        !.amount = amount] \in Frames
    BY <2>1, WaitingIsFrame DEF Waiting, Frames
  <2> QED
    BY <1>4, <2>2, PlainIsResult DEF Measure
<1> QED
  BY <1>1, <1>2, <1>3, <1>4 DEF MetricCall

LEMMA StepTypes ==
  ASSUME InstrumentsInv, NEW t \in Threads, MetricStep(t) \/ InterruptMetric(t)
  PROVE  InstrumentsTypeOK'
<1> USE DEF InstrumentsInv, InstrumentsTypeOK
<1> DEFINE f == frame[t]
<1>0. f \in Frames
  OBVIOUS
<1>a. Declared \subseteq Instruments
  BY DEF Declared
<1>1. CASE RejectDefinition(t)
  BY <1>1, ReturnTypes, PlainIsResult DEF RejectDefinition
<1>2. CASE Register(t)
  <2> DEFINE fresh == Wanted(f, <<f.meter, Head(f.plan).name, t>>)
  <2>1. f.meter \in Meters /\ f.plan # <<>>
    BY <1>2 DEF Register, AllDeclared, FrameDeclared
  <2>2. fresh \in Instruments
    BY <1>0, <2>1, WantedIsInstrument
  <2>3. ASSUME NEW i \in Instruments
        PROVE  [f EXCEPT !.pc = "make", !.inst = i] \in Frames
    BY <1>0 DEF Frames
  <2>4. CASE /\ declared' = [declared EXCEPT ![f.meter] = @ \cup {fresh}]
             /\ frame' = [frame EXCEPT ![t] = [f EXCEPT !.pc = "make", !.inst = fresh]]
    <3>1. [f EXCEPT !.pc = "make", !.inst = fresh] \in Frames
      BY <2>2, <2>3
    <3> HIDE DEF f, fresh
    <3>2. declared' \in [Meters -> SUBSET Instruments]
      BY <2>1, <2>2, <2>4
    <3>3. frame' \in [Threads -> Frames]
      BY <2>4, <3>1
    <3> QED
      BY <1>2, <3>2, <3>3 DEF Register
  <2>5. ASSUME NEW i \in Entries(f.meter, Head(f.plan).name),
               frame' = [frame EXCEPT ![t] = [f EXCEPT !.pc = "make", !.inst = i]],
               UNCHANGED declared
        PROVE  InstrumentsTypeOK'
    <3>1. i \in Instruments
      BY <2>1 DEF Entries
    <3>2. [f EXCEPT !.pc = "make", !.inst = i] \in Frames
      BY <2>3, <3>1
    <3> HIDE DEF f
    <3>3. frame' \in [Threads -> Frames]
      BY <2>5, <3>2
    <3> QED
      BY <1>2, <2>5, <3>3 DEF Register
  <2> QED
    BY <1>2, <2>4, <2>5 DEF Register
<1>3. CASE RejectName(t)
  BY <1>3, ReturnTypes, PlainIsResult DEF RejectName
<1>4. CASE Make(t)
  <2> DEFINE made == f.made \cup {f.inst}
  <2>1. f.inst \in Instruments /\ f.plan # <<>>
    BY <1>4, <1>a DEF Make, AllDeclared, FrameDeclared
  <2>2. made \subseteq Instruments
    BY <1>0, <2>1 DEF Frames
  <2>3. CASE Return(t, Plain("created")) /\ held' = held \cup made
    BY <1>4, <2>2, <2>3, ReturnTypes, PlainIsResult DEF Make
  <2>4. CASE /\ frame' = [frame EXCEPT ![t] = [f EXCEPT
                            !.pc = "register", !.plan = Tail(@), !.made = made]]
             /\ UNCHANGED <<held, result>>
    <3>1. f.plan \in Seq(Declarations)
      BY <1>0 DEF Frames
    <3>2. Tail(f.plan) \in Seq(Declarations)
      BY <2>1, <3>1, HeadTailProperties
    <3>3. [f EXCEPT !.pc = "register", !.plan = Tail(@), !.made = made] \in Frames
      BY <1>0, <2>2, <3>2 DEF Frames
    <3> HIDE DEF f, made
    <3>4. frame' \in [Threads -> Frames]
      BY <2>4, <3>3
    <3> QED
      BY <1>4, <2>4, <3>4 DEF Make
  <2> QED
    BY <1>4, <2>3, <2>4 DEF Make
<1>5. CASE MakeRaises(t)
  BY <1>5, ReturnTypes, PlainIsResult DEF MakeRaises
<1>6. CASE Admit(t)
  <2>1. f.inst \in Instruments /\ f.id \in Series
    BY <1>6, <1>a DEF Admit, AllDeclared, FrameDeclared
  <2>2. f.inst.guard \in Guards
    BY <2>1 DEF Instruments
  <2>3. [f EXCEPT !.pc = "add"] \in Frames
    BY <1>0 DEF Frames
  <2>4. frame' = [frame EXCEPT ![t] = [f EXCEPT !.pc = "add"]]
    BY <1>6 DEF Admit
  <2>5. series' = [series EXCEPT ![f.inst.guard] = @ \cup {f.id}]
    BY <1>6 DEF Admit
  <2> HIDE DEF f
  <2>6. frame' \in [Threads -> Frames] /\ series' \in [Guards -> SUBSET Series]
    BY <2>1, <2>2, <2>3, <2>4, <2>5
  <2> QED
    BY <1>6, <2>6 DEF Admit
<1>7. CASE Refuse(t)
  <2>1. f.inst \in Instruments /\ f.id \in Series
    BY <1>7, <1>a DEF Refuse, AllDeclared, FrameDeclared
  <2> QED
    BY <1>7, <2>1, ReturnTypes, ResultIsResult DEF Refuse
<1>8. CASE Add(t)
  <2> DEFINE s == Scope[f.inst.meter]
  <2>1. f.inst \in Instruments /\ f.id \in Series
    BY <1>8, <1>a DEF Add, AllDeclared, FrameDeclared
  <2>2. s \in {Scope[m] : m \in Meters} /\ f.inst.name \in Names
    BY <2>1 DEF Instruments
  <2>3. frame' \in [Threads -> Frames] /\ result' \in [Threads -> Results]
    BY <1>8, <2>1, ReturnTypes, ResultIsResult DEF Add
  <2>4. \/ sdk' = sdk
        \/ sdk' = [sdk EXCEPT ![s] = [sdk[s] EXCEPT ![f.inst.name] = @ \cup {f.id}]]
    BY <1>8 DEF Add
  <2> HIDE DEF f, s
  <2>5. sdk' \in [{Scope[m] : m \in Meters} -> [Names -> SUBSET Series]]
    BY <2>1, <2>2, <2>4
  <2> QED
    BY <1>8, <2>3, <2>5 DEF Add
<1>9. CASE InterruptMetric(t)
  BY <1>9, ReturnTypes, PlainIsResult DEF InterruptMetric
<1> QED
  BY <1>1, <1>2, <1>3, <1>4, <1>5, <1>6, <1>7, <1>8, <1>9 DEF MetricStep

-----------------------------------------------------------------------------
(* What a step changes.                                                     *)

ThreadStep(t) == MetricCall(t) \/ MetricStep(t) \/ InterruptMetric(t)

Fresh(t) == Wanted(frame[t], <<frame[t].meter, Head(frame[t].plan).name, t>>)

\* The name was free, and t has entered it.
NewEntry(t) ==
  /\ Register(t)
  /\ Entries(frame[t].meter, Head(frame[t].plan).name) = {}
  /\ declared' = [declared EXCEPT ![frame[t].meter] = @ \cup {Fresh(t)}]
  /\ frame' = [frame EXCEPT ![t] = [frame[t] EXCEPT !.pc = "make", !.inst = Fresh(t)]]

\* Only these three steps touch entries, guards and the SDK's series.
LEMMA Effects ==
  ASSUME NEW t \in Threads, ThreadStep(t)
  PROVE  \/ UNCHANGED <<declared, series, sdk>>
         \/ NewEntry(t) /\ UNCHANGED <<series, sdk>>
         \/ Admit(t) /\ UNCHANGED <<declared, sdk>>
         \/ Add(t) /\ UNCHANGED <<declared, series>>
<1>1. CASE MetricCall(t)
  BY <1>1 DEF MetricCall, Create, Suppressed, RejectMeasurement, Measure
<1>2. CASE Register(t)
  BY <1>2 DEF Register, NewEntry, Fresh
<1>3. CASE RejectDefinition(t) \/ RejectName(t) \/ Make(t) \/ MakeRaises(t)
  BY <1>3 DEF RejectDefinition, RejectName, Make, MakeRaises
<1>4. CASE Admit(t) \/ Refuse(t) \/ Add(t)
  BY <1>4 DEF Admit, Refuse, Add
<1>5. CASE InterruptMetric(t)
  BY <1>5 DEF InterruptMetric
<1> QED
  BY <1>1, <1>2, <1>3, <1>4, <1>5 DEF ThreadStep, MetricStep

\* The frames and results of the other threads stay.
LEMMA OthersStay ==
  ASSUME InstrumentsTypeOK, NEW t \in Threads, ThreadStep(t),
         NEW u \in Threads, u # t
  PROVE  frame'[u] = frame[u] /\ result'[u] = result[u]
<1> USE DEF InstrumentsTypeOK, Return
<1>1. CASE MetricCall(t)
  BY <1>1 DEF MetricCall, Create, Suppressed, RejectMeasurement, Measure
<1>2. CASE Register(t)
  BY <1>2 DEF Register
<1>3. CASE RejectDefinition(t) \/ RejectName(t) \/ MakeRaises(t)
  BY <1>3 DEF RejectDefinition, RejectName, MakeRaises
<1>4. CASE Make(t)
  BY <1>4 DEF Make
<1>5. CASE Admit(t) \/ Refuse(t) \/ Add(t)
  BY <1>5 DEF Admit, Refuse, Add
<1>6. CASE InterruptMetric(t)
  BY <1>6 DEF InterruptMetric
<1> QED
  BY <1>1, <1>2, <1>3, <1>4, <1>5, <1>6 DEF ThreadStep, MetricStep

\* The new entry differs from all others in its meter and name, and its guard
\* is nobody else's.
LEMMA FreshIsNew ==
  ASSUME InstrumentsInv, NEW t \in Threads, NewEntry(t)
  PROVE  /\ Fresh(t) \in Instruments
         /\ Fresh(t).meter = frame[t].meter
         /\ Fresh(t).guard[1] = Fresh(t).meter
         /\ Fresh(t).guard[2] = Fresh(t).name
         /\ Declared' = Declared \cup {Fresh(t)}
         /\ \A i \in Declared : /\ i.meter # Fresh(t).meter \/ i.name # Fresh(t).name
                               /\ i.guard # Fresh(t).guard
<1> DEFINE f == frame[t]
           d == Head(f.plan)
<1>1. f \in Frames /\ f.meter \in Meters /\ f.plan # <<>>
  BY DEF InstrumentsInv, InstrumentsTypeOK, AllDeclared, FrameDeclared, NewEntry, Register
<1>2. Fresh(t) \in Instruments
  BY <1>1, WantedIsInstrument DEF Fresh
<1>3. /\ Fresh(t).meter = f.meter /\ Fresh(t).name = d.name
      /\ Fresh(t).guard = <<f.meter, d.name, t>>
  BY DEF Fresh, Wanted
<1>4. Declared' = Declared \cup {Fresh(t)}
  <2>1. declared' = [declared EXCEPT ![f.meter] = @ \cup {Fresh(t)}]
    BY DEF NewEntry
  <2>2. declared \in [Meters -> SUBSET Instruments]
    BY DEF InstrumentsInv, InstrumentsTypeOK
  <2> HIDE DEF f
  <2>3. \A m \in Meters : declared'[m] = IF m = f.meter THEN declared[m] \cup {Fresh(t)}
                                                       ELSE declared[m]
    BY <2>1, <2>2
  <2>4. \A i : i \in Declared <=> \E m \in Meters : i \in declared[m]
    BY DEF Declared
  <2>5. \A i : i \in Declared' <=> \E m \in Meters : i \in declared'[m]
    BY DEF Declared
  <2>6. \A i : i \in Declared' <=> i \in Declared \/ i = Fresh(t)
    BY <1>1, <2>3, <2>4, <2>5
  <2> QED
    BY <2>6
<1>5. ASSUME NEW i \in Declared
      PROVE  /\ i.meter # Fresh(t).meter \/ i.name # Fresh(t).name
             /\ i.guard # Fresh(t).guard
  <2>1. PICK m \in Meters : i \in declared[m]
    BY DEF Declared
  <2>2. i.meter = m /\ i.guard[1] = m /\ i.guard[2] = i.name
    BY <2>1 DEF InstrumentsInv, OneEntry
  <2>3. i.meter # f.meter \/ i.name # d.name
    BY <2>1, <2>2 DEF NewEntry, Entries
  <2> QED
    BY <1>3, <2>2, <2>3
<1> QED
  BY <1>2, <1>3, <1>4, <1>5

LEMMA DeclaredStays ==
  ASSUME InstrumentsInv, NEW t \in Threads, ThreadStep(t)
  PROVE  Declared \subseteq Declared'
<1>1. CASE NewEntry(t)
  BY <1>1, FreshIsNew
<1>2. CASE declared' = declared
  BY <1>2 DEF Declared
<1> QED
  BY <1>1, <1>2, Effects

LEMMA OneEntryStep ==
  ASSUME InstrumentsInv, NEW t \in Threads, ThreadStep(t)
  PROVE  OneEntry'
<1>1. CASE declared' = declared
  BY <1>1 DEF InstrumentsInv, OneEntry, Declared
<1>2. CASE NewEntry(t)
  <2>1. ASSUME NEW m \in Meters, NEW i \in declared'[m]
        PROVE  i.meter = m /\ i.guard[1] = m /\ i.guard[2] = i.name
    <3>1. i \in declared[m] \/ (m = frame[t].meter /\ i = Fresh(t))
      BY <1>2 DEF NewEntry, InstrumentsInv, InstrumentsTypeOK
    <3> QED
      BY <1>2, <3>1, FreshIsNew DEF InstrumentsInv, OneEntry
  <2>2. \A i, j \in Declared' : i.meter = j.meter /\ i.name = j.name => i = j
    BY <1>2, FreshIsNew DEF InstrumentsInv, OneEntry
  <2> QED
    BY <2>1, <2>2 DEF OneEntry
<1> QED
  BY <1>1, <1>2, Effects

-----------------------------------------------------------------------------
(* Everything that is worked on was declared.                               *)

LEMMA OwnDeclared ==
  ASSUME InstrumentsInv, NEW t \in Threads, ThreadStep(t)
  PROVE  FrameDeclared(t)' /\ held' \subseteq Declared'
<1> USE DEF InstrumentsInv, InstrumentsTypeOK
<1> DEFINE f == frame[t]
<1>0. Declared \subseteq Declared'
  BY DeclaredStays
<1>a. FrameDeclared(t) /\ held \subseteq Declared /\ f \in Frames
  BY DEF AllDeclared
<1>b. ASSUME NEW r, Return(t, r), r.kind # "exceeded", held' = held
      PROVE  FrameDeclared(t)' /\ held' \subseteq Declared'
  BY <1>0, <1>a, <1>b DEF Return, Waiting, FrameDeclared
<1>1. CASE \E m \in Meters, plan \in Plans : Create(t, m, plan)
  BY <1>0, <1>a, <1>1, InstrumentsAssumption
     DEF Create, Waiting, Plain, Result, FrameDeclared, InstrumentsAssumption
<1>2. CASE Suppressed(t)
  BY <1>0, <1>a, <1>2 DEF Suppressed, Plain, Result, FrameDeclared
<1>3. ASSUME NEW i \in held, NEW amount \in Amounts, NEW a \in Attributes,
             NEW c \in Correlations, RejectMeasurement(t, i, amount, a, c)
      PROVE  FrameDeclared(t)' /\ held' \subseteq Declared'
  BY <1>0, <1>a, <1>3 DEF RejectMeasurement, Plain, Result, FrameDeclared
<1>4. ASSUME NEW i \in held, NEW amount \in Amounts, NEW a \in Attributes,
             NEW c \in Correlations, Measure(t, i, amount, a, c)
      PROVE  FrameDeclared(t)' /\ held' \subseteq Declared'
  <2>1. <<a, c>> \in Series
    BY DEF Series
  <2> QED
    BY <1>0, <1>a, <1>4, <2>1 DEF Measure, Waiting, Plain, Result, FrameDeclared
<1>5. CASE RejectDefinition(t) \/ RejectName(t) \/ MakeRaises(t) \/ InterruptMetric(t)
  BY <1>b, <1>5 DEF RejectDefinition, RejectName, MakeRaises, InterruptMetric, Plain, Result
<1>6. CASE Register(t)
  <2>1. PICK i \in Declared' :
          frame' = [frame EXCEPT ![t] = [f EXCEPT !.pc = "make", !.inst = i]]
    <3>1. CASE NewEntry(t)
      BY <3>1, FreshIsNew DEF NewEntry
    <3>2. ASSUME NEW i \in Entries(f.meter, Head(f.plan).name),
                 frame' = [frame EXCEPT ![t] = [f EXCEPT !.pc = "make", !.inst = i]]
          PROVE  i \in Declared'
      BY <1>0, <1>6, <1>a DEF Register, Entries, Declared, FrameDeclared
    <3> QED
      BY <1>6, <3>1, <3>2 DEF Register, NewEntry, Fresh
  <2>2. /\ frame'[t].pc = "make" /\ frame'[t].inst = i /\ frame'[t].made = f.made
        /\ frame'[t].meter = f.meter /\ frame'[t].plan = f.plan
    <3>1. [f EXCEPT !.pc = "make", !.inst = i].pc = "make"
      BY <1>a DEF Frames
    <3>2. [f EXCEPT !.pc = "make", !.inst = i].inst = i
      BY <1>a DEF Frames
    <3>3. LET g == [f EXCEPT !.pc = "make", !.inst = i] IN
          g.made = f.made /\ g.meter = f.meter /\ g.plan = f.plan
      BY <1>a DEF Frames
    <3>4. frame'[t] = [f EXCEPT !.pc = "make", !.inst = i]
      BY <2>1
    <3> QED
      BY <3>1, <3>2, <3>3, <3>4
  <2> QED
    BY <1>0, <1>6, <1>a, <2>2 DEF Register, FrameDeclared
<1>7. CASE Make(t)
  <2> DEFINE made == f.made \cup {f.inst}
  <2>1. made \subseteq Declared /\ f.plan # <<>> /\ f.meter \in Meters
    BY <1>7, <1>a DEF Make, FrameDeclared
  <2>2. CASE Return(t, Plain("created")) /\ held' = held \cup made
    BY <1>0, <1>a, <2>1, <2>2 DEF Return, Waiting, Plain, Result, FrameDeclared
  <2>3. CASE /\ Len(f.plan) # 1
             /\ frame' = [frame EXCEPT ![t] = [f EXCEPT
                            !.pc = "register", !.plan = Tail(@), !.made = made]]
             /\ UNCHANGED <<held, result>>
    <3>1. f.plan \in Seq(Declarations)
      BY <1>a DEF Frames
    <3>2. Tail(f.plan) # <<>>
      <4>1. Len(Tail(f.plan)) = Len(f.plan) - 1 /\ Len(f.plan) \in Nat
        BY <2>1, <3>1, HeadTailProperties, LenProperties
      <4>2. Len(f.plan) # 1
        BY <2>3
      <4>3. Len(Tail(f.plan)) # 0
        BY <4>1, <4>2
      <4> QED
        BY <2>1, <3>1, <4>3, HeadTailProperties, EmptySeq
    <3>3. LET g == [f EXCEPT !.pc = "register", !.plan = Tail(@), !.made = made] IN
          /\ g.pc = "register" /\ g.made = made
          /\ g.meter = f.meter /\ g.plan = Tail(f.plan)
      BY <1>a DEF Frames
    <3>4. frame'[t] = [f EXCEPT !.pc = "register", !.plan = Tail(@), !.made = made]
      BY <2>3
    <3>5. /\ frame'[t].pc = "register" /\ frame'[t].made = made
          /\ frame'[t].meter = f.meter /\ frame'[t].plan = Tail(f.plan)
      BY <3>3, <3>4
    <3> QED
      BY <1>0, <1>a, <2>1, <2>3, <3>2, <3>5 DEF FrameDeclared
  <2> QED
    BY <1>7, <2>2, <2>3 DEF Make
<1>8. CASE Admit(t)
  <2>1. frame'[t] = [f EXCEPT !.pc = "add"]
    BY <1>8 DEF Admit
  <2>2. /\ frame'[t].pc = "add" /\ frame'[t].made = f.made
        /\ frame'[t].inst = f.inst /\ frame'[t].id = f.id
    BY <1>a, <2>1 DEF Frames
  <2> QED
    BY <1>0, <1>8, <1>a, <2>2 DEF Admit, FrameDeclared
<1>9. CASE Refuse(t)
  BY <1>0, <1>9, <1>a DEF Refuse, Return, Result, Waiting, FrameDeclared
<1>10. CASE Add(t)
  BY <1>b, <1>10 DEF Add, Result
<1> QED
  BY <1>1, <1>2, <1>3, <1>4, <1>5, <1>6, <1>7, <1>8, <1>9, <1>10
     DEF ThreadStep, MetricCall, MetricStep

LEMMA AllDeclaredStep ==
  ASSUME InstrumentsInv, NEW t \in Threads, ThreadStep(t)
  PROVE  AllDeclared'
<1>1. ASSUME NEW u \in Threads, u # t
      PROVE  FrameDeclared(u)'
  <2>1. frame'[u] = frame[u] /\ result'[u] = result[u]
    BY <1>1, OthersStay DEF InstrumentsInv
  <2> QED
    BY <2>1, DeclaredStays DEF InstrumentsInv, AllDeclared, FrameDeclared
<1> QED
  BY <1>1, OwnDeclared DEF AllDeclared

-----------------------------------------------------------------------------
(* Guards and the SDK.                                                      *)

LEMMA GuardIsOne ==
  ASSUME InstrumentsInv, NEW i \in Declared, NEW j \in Declared, i.guard = j.guard
  PROVE  i = j
<1>1. i.guard[1] = i.meter /\ i.guard[2] = i.name
  BY DEF InstrumentsInv, OneEntry, Declared
<1>2. j.guard[1] = j.meter /\ j.guard[2] = j.name
  BY DEF InstrumentsInv, OneEntry, Declared
<1> QED
  BY <1>1, <1>2 DEF InstrumentsInv, OneEntry

LEMMA DeclaredTypes ==
  ASSUME InstrumentsInv, NEW i \in Declared
  PROVE  /\ i \in Instruments /\ i.meter \in Meters /\ i.name \in Names
         /\ i.guard \in Guards /\ Limit[i.detail] \in Nat \ {0}
<1>1. i \in Instruments
  BY DEF InstrumentsInv, InstrumentsTypeOK, Declared
<1> QED
  BY <1>1, InstrumentsAssumption DEF Instruments, InstrumentsAssumption

\* What a guard does with a series that it admits.
LEMMA AdmitSeries ==
  ASSUME InstrumentsInv, NEW t \in Threads, Admit(t)
  PROVE  /\ frame[t].inst \in Declared /\ frame[t].inst.guard \in Guards
         /\ \A g \in Guards : series'[g] = IF g = frame[t].inst.guard
                                          THEN series[g] \cup {frame[t].id} ELSE series[g]
<1> DEFINE f == frame[t]
<1>1. f.inst \in Declared
  BY DEF Admit, InstrumentsInv, AllDeclared, FrameDeclared
<1>2. series' = [series EXCEPT ![f.inst.guard] = @ \cup {f.id}]
  BY DEF Admit
<1>3. series \in [Guards -> SUBSET Series]
  BY DEF InstrumentsInv, InstrumentsTypeOK
<1> QED
  BY <1>1, <1>2, <1>3, DeclaredTypes

LEMMA SeriesGrow ==
  ASSUME InstrumentsInv, NEW t \in Threads, ThreadStep(t), NEW g \in Guards
  PROVE  series[g] \subseteq series'[g]
<1>1. CASE Admit(t)
  BY <1>1, AdmitSeries
<1> QED
  BY <1>1, Effects

LEMMA WithinLimitStep ==
  ASSUME InstrumentsInv, NEW t \in Threads, ThreadStep(t)
  PROVE  WithinLimit'
<1>1. CASE UNCHANGED <<declared, series>>
  BY <1>1 DEF InstrumentsInv, WithinLimit, Declared
<1>2. CASE NewEntry(t) /\ UNCHANGED series
  <2>1. \A g \in Guards : series'[g] # {} => \E i \in Declared' : i.guard = g
    BY <1>2, DeclaredStays DEF InstrumentsInv, WithinLimit
  <2>2. series[Fresh(t).guard] = {}
    BY <1>2, FreshIsNew DEF InstrumentsInv, WithinLimit, Instruments
  <2>3. Limit[Fresh(t).detail] \in Nat
    BY <1>2, FreshIsNew, InstrumentsAssumption DEF Instruments, InstrumentsAssumption
  <2>4. IsFiniteSet({}) /\ Cardinality({}) = 0
    BY FS_EmptySet
  <2>5. ASSUME NEW i \in Declared'
        PROVE  /\ IsFiniteSet(series'[i.guard])
               /\ Cardinality(series'[i.guard]) <= Limit[i.detail]
    <3>1. CASE i \in Declared
      BY <1>2, <3>1 DEF InstrumentsInv, WithinLimit
    <3>2. CASE i = Fresh(t)
      <4>1. series'[i.guard] = {}
        BY <1>2, <2>2, <3>2
      <4> QED
        BY <2>3, <2>4, <3>2, <4>1
    <3> QED
      BY <1>2, <3>1, <3>2, FreshIsNew
  <2> QED
    BY <2>1, <2>5 DEF WithinLimit
<1>3. CASE Admit(t) /\ UNCHANGED declared
  <2> DEFINE j == frame[t].inst
  <2>0. Declared' = Declared
    BY <1>3 DEF Declared
  <2>1. j \in Declared
    BY <1>3, AdmitSeries
  <2>2. \A g \in Guards : series'[g] # {} => \E i \in Declared' : i.guard = g
    BY <1>3, <2>0, <2>1, AdmitSeries DEF InstrumentsInv, WithinLimit
  <2>3. ASSUME NEW i \in Declared
        PROVE  /\ IsFiniteSet(series'[i.guard])
               /\ Cardinality(series'[i.guard]) <= Limit[i.detail]
    <3>1. /\ IsFiniteSet(series[i.guard])
          /\ Cardinality(series[i.guard]) <= Limit[i.detail]
      BY DEF InstrumentsInv, WithinLimit
    <3>2. i.guard \in Guards /\ Limit[i.detail] \in Nat
      BY DeclaredTypes
    <3>3. CASE series'[i.guard] = series[i.guard]
      BY <3>1, <3>3
    <3>4. CASE series'[i.guard] # series[i.guard]
      <4>1. i.guard = j.guard /\ series'[i.guard] = series[i.guard] \cup {frame[t].id}
        BY <1>3, <3>2, <3>4, AdmitSeries
      <4>2. i = j /\ frame[t].id \notin series[i.guard]
        BY <2>1, <3>4, <4>1, GuardIsOne
      <4>3. ~(Cardinality(series[i.guard]) >= Limit[i.detail])
        BY <1>3, <4>2 DEF Admit, Full
      <4>4. Cardinality(series[i.guard]) \in Nat
        BY <3>1, FS_CardinalityType
      <4>5. /\ IsFiniteSet(series'[i.guard])
            /\ Cardinality(series'[i.guard]) = Cardinality(series[i.guard]) + 1
        <5> DEFINE old == series[i.guard]
                   new == frame[t].id
        <5>1. IsFiniteSet(old) /\ new \notin old
          BY <3>1, <4>2
        <5> HIDE DEF old, new
        <5>2. IsFiniteSet(old \cup {new}) /\ Cardinality(old \cup {new}) = Cardinality(old) + 1
          BY <5>1, OneMore, Zenon
        <5> QED
          BY <4>1, <5>2, Zenon DEF old, new
      <4> QED
        BY <3>2, <4>3, <4>4, <4>5
    <3> QED
      BY <3>3, <3>4
  <2> QED
    BY <2>0, <2>2, <2>3 DEF WithinLimit
<1> QED
  BY <1>1, <1>2, <1>3, Effects

\* Only the guard lets a call go on to the SDK.
LEMMA AddFollowsAdmit ==
  ASSUME InstrumentsInv, NEW t \in Threads, ThreadStep(t), ~Admit(t)
  PROVE  frame'[t].pc # "add"
<1> USE DEF InstrumentsInv, InstrumentsTypeOK
<1> DEFINE f == frame[t]
<1>1. ASSUME NEW r, Return(t, r) PROVE frame'[t].pc # "add"
  BY <1>1 DEF Return, Waiting
<1>2. CASE MetricCall(t)
  BY <1>2 DEF MetricCall, Create, Suppressed, RejectMeasurement, Measure, Waiting
<1>3. CASE Register(t)
  <2>1. f \in Frames
    OBVIOUS
  <2>2. \A i : [f EXCEPT !.pc = "make", !.inst = i].pc = "make"
    BY <2>1 DEF Frames
  <2> HIDE DEF f
  <2>3. \E i : frame' = [frame EXCEPT ![t] = [f EXCEPT !.pc = "make", !.inst = i]]
    BY <1>3 DEF Register, f
  <2> QED
    BY <2>2, <2>3
<1>4. CASE Make(t)
  <2>1. f \in Frames
    OBVIOUS
  <2>2. [f EXCEPT !.pc = "register", !.plan = Tail(@),
                  !.made = f.made \cup {f.inst}].pc = "register"
    BY <2>1 DEF Frames
  <2> QED
    BY <1>1, <1>4, <2>2 DEF Make
<1>5. CASE RejectDefinition(t) \/ RejectName(t) \/ MakeRaises(t)
  BY <1>1, <1>5 DEF RejectDefinition, RejectName, MakeRaises
<1>6. CASE Refuse(t) \/ Add(t) \/ InterruptMetric(t)
  BY <1>1, <1>6 DEF Refuse, Add, InterruptMetric
<1> QED
  BY <1>2, <1>3, <1>4, <1>5, <1>6 DEF ThreadStep, MetricStep

LEMMA AdmittedStep ==
  ASSUME InstrumentsInv, NEW t \in Threads, ThreadStep(t)
  PROVE  Admitted'
<1> DEFINE f == frame[t]
<1>1. ASSUME NEW u \in Threads, frame'[u].pc = "add"
      PROVE  frame'[u].id \in series'[frame'[u].inst.guard]
  <2>1. CASE u # t
    <3>1. frame'[u] = frame[u]
      BY <2>1, OthersStay DEF InstrumentsInv
    <3>2. frame[u].id \in series[frame[u].inst.guard]
      BY <1>1, <3>1 DEF InstrumentsInv, Admitted
    <3>3. frame[u].inst.guard \in Guards
      BY <1>1, <3>1, DeclaredTypes DEF InstrumentsInv, AllDeclared, FrameDeclared
    <3> QED
      BY <3>1, <3>2, <3>3, SeriesGrow
  <2>2. CASE u = t
    <3>1. Admit(t)
      BY <1>1, <2>2, AddFollowsAdmit
    <3>2. f \in Frames /\ frame'[t] = [f EXCEPT !.pc = "add"]
      BY <3>1 DEF Admit, InstrumentsInv, InstrumentsTypeOK
    <3>3. frame'[t].id = f.id /\ frame'[t].inst = f.inst
      BY <3>2 DEF Frames
    <3> QED
      BY <2>2, <3>1, <3>3, AdmitSeries
  <2> QED
    BY <2>1, <2>2
<1>2. ASSUME NEW m \in Meters, NEW n \in Names, NEW id \in sdk'[Scope[m]][n]
      PROVE  \E i \in Declared' : /\ Scope[i.meter] = Scope[m] /\ i.name = n
                                 /\ id \in series'[i.guard]
  <2>1. CASE id \in sdk[Scope[m]][n]
    <3>1. PICK i \in Declared : /\ Scope[i.meter] = Scope[m] /\ i.name = n
                               /\ id \in series[i.guard]
      BY <2>1 DEF InstrumentsInv, Admitted
    <3>2. id \in series'[i.guard]
      BY <3>1, DeclaredTypes, SeriesGrow
    <3> QED
      BY <3>1, <3>2, DeclaredStays
  <2>2. CASE id \notin sdk[Scope[m]][n]
    <3> DEFINE s == Scope[f.inst.meter]
    <3>1. Add(t) /\ UNCHANGED <<declared, series>>
      BY <1>2, <2>2, Effects
    <3>2. f.inst \in Declared /\ f.id \in series[f.inst.guard]
      BY <3>1 DEF Add, InstrumentsInv, AllDeclared, FrameDeclared, Admitted
    <3>3. sdk \in [{Scope[k] : k \in Meters} -> [Names -> SUBSET Series]]
      BY DEF InstrumentsInv, InstrumentsTypeOK
    <3>4. s \in {Scope[k] : k \in Meters} /\ f.inst.name \in Names
      BY <3>2, DeclaredTypes
    <3>5. sdk' = [sdk EXCEPT ![s] = [sdk[s] EXCEPT ![f.inst.name] = @ \cup {f.id}]]
      BY <1>2, <2>2, <3>1 DEF Add
    <3> HIDE DEF s, f
    <3>6. Scope[m] = s /\ n = f.inst.name /\ id = f.id
      BY <1>2, <2>2, <3>3, <3>4, <3>5
    <3> QED
      BY <3>1, <3>2, <3>6 DEF s, Declared
  <2> QED
    BY <2>1, <2>2
<1> QED
  BY <1>1, <1>2 DEF Admitted

\* A guard that is full stays as it is.
LEMMA FullStays ==
  ASSUME InstrumentsInv, NEW t \in Threads, ThreadStep(t), NEW i \in Declared, Full(i)
  PROVE  series'[i.guard] = series[i.guard]
<1>1. CASE Admit(t)
  <2>1. SUFFICES ASSUME i.guard = frame[t].inst.guard
                 PROVE  series'[i.guard] = series[i.guard]
    BY <1>1, AdmitSeries, DeclaredTypes
  <2>2. i = frame[t].inst
    BY <1>1, <2>1, AdmitSeries, GuardIsOne
  <2>3. frame[t].id \in series[i.guard]
    BY <1>1, <2>2 DEF Admit
  <2> QED
    BY <1>1, <2>3, AdmitSeries, DeclaredTypes
<1> QED
  BY <1>1, Effects

LEMMA RefusedStep ==
  ASSUME InstrumentsInv, NEW t \in Threads, ThreadStep(t)
  PROVE  RefusedForGood'
<1> SUFFICES ASSUME NEW u \in Threads, result'[u].kind = "exceeded"
             PROVE  /\ result'[u].id \notin series'[result'[u].inst.guard]
                    /\ Cardinality(series'[result'[u].inst.guard])
                         >= Limit[result'[u].inst.detail]
  BY DEF RefusedForGood, Full
<1>1. CASE result'[u] = result[u]
  <2> DEFINE i == result[u].inst
  <2>1. i \in Declared
    BY <1>1 DEF InstrumentsInv, AllDeclared, FrameDeclared
  <2>2. result[u].id \notin series[i.guard] /\ Full(i)
    BY <1>1 DEF InstrumentsInv, RefusedForGood
  <2>3. series'[i.guard] = series[i.guard]
    BY <2>1, <2>2, FullStays
  <2> QED
    BY <1>1, <2>2, <2>3 DEF Full
<1>2. CASE result'[u] # result[u]
  <2>1. u = t
    BY <1>2, OthersStay DEF InstrumentsInv
  <2>2. Refuse(t)
    <3>1. ASSUME NEW r, result' = [result EXCEPT ![t] = r], r.kind # "exceeded"
          PROVE  FALSE
      BY <2>1, <3>1 DEF InstrumentsInv, InstrumentsTypeOK
    <3>2. \A kind, inst, id : Result(kind, inst, id).kind = kind
      BY DEF Result
    <3>a. ASSUME NEW kind, NEW inst, NEW id, kind # "exceeded",
                 result' = [result EXCEPT ![t] = Result(kind, inst, id)]
          PROVE  FALSE
      BY <3>1, <3>2, <3>a
    <3>3. CASE MetricCall(t)
      <4>1. \/ result' = [result EXCEPT ![t] = Plain("none")]
            \/ result' = [result EXCEPT ![t] = Plain("suppressed")]
            \/ result' = [result EXCEPT ![t] = Plain("invalid")]
        BY <3>3 DEF MetricCall, Create, Suppressed, RejectMeasurement, Measure
      <4> QED
        BY <3>a, <4>1 DEF Plain
    <3>4. CASE RejectDefinition(t) \/ RejectName(t) \/ MakeRaises(t) \/ Add(t)
               \/ InterruptMetric(t)
      BY <3>a, <3>4 DEF RejectDefinition, RejectName, MakeRaises, Add,
         InterruptMetric, Return, Plain
    <3>5. CASE Make(t)
      BY <1>2, <2>1, <3>1, <3>2, <3>5 DEF Make, Return, Plain
    <3>6. CASE Register(t) \/ Admit(t)
      BY <1>2, <3>6 DEF Register, Admit
    <3> QED
      BY <3>3, <3>4, <3>5, <3>6 DEF ThreadStep, MetricStep
  <2>3. result'[t] = Result("exceeded", frame[t].inst, frame[t].id)
    BY <2>2 DEF Refuse, Return, InstrumentsInv, InstrumentsTypeOK
  <2>4. series' = series
    BY <2>2 DEF Refuse
  <2> QED
    BY <2>1, <2>2, <2>3, <2>4 DEF Refuse, Result, Full
<1> QED
  BY <1>1, <1>2

-----------------------------------------------------------------------------
(* Amounts, and the slots that they take.                                   *)

LEMMA OnlyMeasuredStep ==
  ASSUME InstrumentsInv, NEW t \in Threads, ThreadStep(t)
  PROVE  OnlyMeasured'
<1> SUFFICES ASSUME NEW u \in Threads, frame'[u].pc \in {"guard", "add"}
             PROVE  Measurable(frame'[u].inst.kind, frame'[u].amount)
  BY DEF OnlyMeasured
<1>0. frame \in [Threads -> Frames]
  BY DEF InstrumentsInv, InstrumentsTypeOK
<1>1. CASE frame'[u] = frame[u]
  BY <1>1 DEF InstrumentsInv, OnlyMeasured
<1>2. CASE frame'[u] # frame[u]
  <2>1. u = t
    BY <1>2, OthersStay DEF InstrumentsInv
  <2>2. CASE Admit(t)
    BY <1>0, <2>1, <2>2 DEF Admit, InstrumentsInv, OnlyMeasured, Frames
  <2>3. ASSUME NEW i \in held, NEW amount \in Amounts, NEW a \in Attributes,
               NEW c \in Correlations, Measure(t, i, amount, a, c)
        PROVE  Measurable(frame'[u].inst.kind, frame'[u].amount)
    BY <1>0, <2>1, <2>3 DEF Measure, Waiting
  <2>4. CASE \E m \in Meters, plan \in Plans : Create(t, m, plan)
    BY <1>0, <2>1, <2>4 DEF Create, Waiting
  <2>5. CASE Suppressed(t)
    BY <1>2, <2>5 DEF Suppressed
  <2>6. ASSUME NEW i \in held, NEW amount \in Amounts, NEW a \in Attributes,
               NEW c \in Correlations, RejectMeasurement(t, i, amount, a, c)
        PROVE  FALSE
    BY <1>2, <2>6 DEF RejectMeasurement
  <2>7. CASE RejectDefinition(t) \/ RejectName(t) \/ MakeRaises(t) \/ Refuse(t) \/ Add(t)
             \/ InterruptMetric(t)
    <3>1. ASSUME NEW r, Return(t, r) PROVE FALSE
      BY <1>0, <2>1, <3>1 DEF Return, Waiting
    <3> QED
      BY <2>7, <3>1 DEF RejectDefinition, RejectName, MakeRaises, Refuse, Add, InterruptMetric
  <2>8. CASE Register(t)
    BY <1>0, <2>1, <2>8 DEF Register, Frames
  <2>9. CASE Make(t)
    <3>1. ASSUME NEW r, Return(t, r) PROVE FALSE
      BY <1>0, <2>1, <3>1 DEF Return, Waiting
    <3>2. frame'[t].pc = "register"
      BY <1>0, <2>9, <3>1 DEF Make, Frames
    <3> QED
      BY <2>1, <3>2
  <2> QED
    BY <2>2, <2>3, <2>4, <2>5, <2>6, <2>7, <2>8, <2>9 DEF ThreadStep, MetricStep, MetricCall
<1> QED
  BY <1>1, <1>2

\* A series that is new to a guard is on its way to the SDK.
LEMMA SlotsAreTakenToAdd ==
  ASSUME InstrumentsInv, NEW t \in Threads, ThreadStep(t),
         NEW i \in Declared, NEW id \in series'[i.guard] \ series[i.guard]
  PROVE  /\ frame'[t].pc = "add" /\ frame'[t].inst = i /\ frame'[t].id = id
         /\ Measurable(i.kind, frame'[t].amount)
<1>1. Admit(t)
  BY Effects
<1>2. i.guard = frame[t].inst.guard /\ id = frame[t].id
  BY <1>1, AdmitSeries, DeclaredTypes
<1>3. i = frame[t].inst
  BY <1>1, <1>2, AdmitSeries, GuardIsOne
<1>4. Measurable(i.kind, frame[t].amount)
  BY <1>1, <1>3 DEF Admit, InstrumentsInv, OnlyMeasured
<1>5. frame' = [frame EXCEPT ![t] = [frame[t] EXCEPT !.pc = "add"]]
  BY <1>1 DEF Admit
<1>6. frame \in [Threads -> Frames]
  BY DEF InstrumentsInv, InstrumentsTypeOK
<1> QED
  BY <1>2, <1>3, <1>4, <1>5, <1>6 DEF Frames

\* A call leaves the step of the SDK with its series there, or interrupted, or
\* with the negative amount of a histogram.
LEMMA AddingEndsInTheSDK ==
  ASSUME InstrumentsInv, NEW t \in Threads, ThreadStep(t), NEW u \in Threads,
         frame[u].pc = "add", frame'[u].pc # "add", result'[u].kind # "interrupted",
         ~(frame[u].inst.kind = "histogram" /\ frame[u].amount = "negative")
  PROVE  frame[u].id \in sdk'[Scope[frame[u].inst.meter]][frame[u].inst.name]
<1>1. u = t
  BY OthersStay DEF InstrumentsInv
<1>2. Add(t)
  <2>1. ~InterruptMetric(t)
    BY <1>1 DEF InterruptMetric, Return, Plain, Result, InstrumentsInv, InstrumentsTypeOK
  <2>2. ~MetricCall(t)
    BY <1>1 DEF MetricCall, Create, Suppressed, RejectMeasurement, Measure
  <2>3. /\ ~RejectDefinition(t) /\ ~RejectName(t) /\ ~Register(t) /\ ~Make(t)
        /\ ~MakeRaises(t) /\ ~Admit(t) /\ ~Refuse(t)
    BY <1>1 DEF RejectDefinition, RejectName, Register, Make, MakeRaises, Admit, Refuse
  <2> QED
    BY <2>1, <2>2, <2>3 DEF ThreadStep, MetricStep
<1> DEFINE f == frame[t]
           s == Scope[f.inst.meter]
<1>3. f.inst \in Declared /\ SdkTakes(f.inst.kind, f.amount)
  BY <1>1, <1>2 DEF Add, InstrumentsInv, AllDeclared, FrameDeclared, OnlyMeasured,
     Measurable, SdkTakes
<1>4. s \in {Scope[m] : m \in Meters} /\ f.inst.name \in Names
  BY <1>3, DeclaredTypes
<1>5. sdk' = [sdk EXCEPT ![s] = [sdk[s] EXCEPT ![f.inst.name] = @ \cup {f.id}]]
  BY <1>2, <1>3 DEF Add
<1>6. sdk \in [{Scope[m] : m \in Meters} -> [Names -> SUBSET Series]]
  BY DEF InstrumentsInv, InstrumentsTypeOK
<1> HIDE DEF s, f
<1>7. f.id \in sdk'[s][f.inst.name]
  BY <1>4, <1>5, <1>6
<1> QED
  BY <1>1, <1>7 DEF s, f

-----------------------------------------------------------------------------
(* The theorems.                                                            *)

LEMMA InstrumentsInvInit == InstrumentsInit => InstrumentsInv
<1> SUFFICES ASSUME InstrumentsInit PROVE InstrumentsInv
  OBVIOUS
<1> USE DEF InstrumentsInit
<1>1. InstrumentsTypeOK
  BY WaitingIsFrame, PlainIsResult DEF InstrumentsTypeOK
<1>2. Declared = {}
  BY DEF Declared
<1>3. OneEntry
  BY <1>2 DEF OneEntry
<1>4. AllDeclared
  BY DEF AllDeclared, FrameDeclared, Waiting, Plain, Result
<1>5. WithinLimit
  BY <1>2 DEF WithinLimit
<1>6. Admitted
  BY DEF Admitted, Waiting
<1>7. RefusedForGood
  BY DEF RefusedForGood, Plain, Result
<1>8. OnlyMeasured
  BY DEF OnlyMeasured, Waiting
<1> QED
  BY <1>1, <1>3, <1>4, <1>5, <1>6, <1>7, <1>8 DEF InstrumentsInv

LEMMA InstrumentsInvStep ==
  InstrumentsInv /\ [InstrumentsNext]_instrumentVars => InstrumentsInv'
<1>1. ASSUME InstrumentsInv, NEW t \in Threads, ThreadStep(t)
      PROVE  InstrumentsInv'
  <2>1. InstrumentsTypeOK'
    BY <1>1, CallTypes, StepTypes DEF ThreadStep
  <2> QED
    BY <1>1, <2>1, OneEntryStep, AllDeclaredStep, WithinLimitStep, AdmittedStep,
       RefusedStep, OnlyMeasuredStep DEF InstrumentsInv
<1>2. ASSUME InstrumentsInv, UNCHANGED instrumentVars
      PROVE  InstrumentsInv'
  BY <1>2 DEF InstrumentsInv, instrumentVars, InstrumentsTypeOK, OneEntry,
     AllDeclared, FrameDeclared, WithinLimit, Admitted, RefusedForGood, OnlyMeasured,
     Full, Declared
<1> QED
  BY <1>1, <1>2 DEF InstrumentsNext, ThreadStep

\* The invariant of declarations, guards and calls.
THEOREM InstrumentsInvariant == InstrumentsSpec => []InstrumentsInv
BY InstrumentsInvInit, InstrumentsInvStep, PTL DEF InstrumentsSpec

\* The variables of the instruments keep their types.
THEOREM InstrumentsTypeCorrect == InstrumentsSpec => []InstrumentsTypeOK
<1>1. InstrumentsInv => InstrumentsTypeOK
  BY DEF InstrumentsInv
<1> QED
  BY <1>1, InstrumentsInvariant, PTL

\* Callers of one meter never hold two instruments of one name.
THEOREM GuardsAreShared == InstrumentsSpec => []SharedGuard
<1>1. InstrumentsInv => SharedGuard
  BY DEF InstrumentsInv, SharedGuard, OneEntry, AllDeclared
<1> QED
  BY <1>1, InstrumentsInvariant, PTL

\* A refusal holds at every later time.
THEOREM RefusalsHold == InstrumentsSpec => []RefusedForGood
<1>1. InstrumentsInv => RefusedForGood
  BY DEF InstrumentsInv
<1> QED
  BY <1>1, InstrumentsInvariant, PTL

\* A slot of a budget is taken only by a measurement on its way to the SDK, which
\* then has its series, unless the call is interrupted or the SDK drops the
\* negative amount of a histogram.
THEOREM SlotsAreUsed == InstrumentsSpec => NoSlotWasted
<1> DEFINE
  Taken == \A i \in UNION {declared[m] : m \in Meters} :
             \A id \in series'[i.guard] \ series[i.guard] :
               \E t \in Threads :
                 /\ frame'[t].pc = "add" /\ frame'[t].inst = i /\ frame'[t].id = id
                 /\ Measurable(i.kind, frame'[t].amount)
  Used == \A t \in Threads :
            frame[t].pc = "add" /\ frame'[t].pc # "add" =>
              \/ result'[t].kind = "interrupted"
              \/ frame[t].inst.kind = "histogram" /\ frame[t].amount = "negative"
              \/ frame[t].id \in sdk'[Scope[frame[t].inst.meter]][frame[t].inst.name]
<1>1. InstrumentsInv /\ [InstrumentsNext]_instrumentVars =>
        [Taken /\ Used]_instrumentVars
  <2>1. SUFFICES ASSUME InstrumentsInv, NEW t \in Threads, ThreadStep(t)
                 PROVE  Taken /\ Used
    BY DEF InstrumentsNext, ThreadStep
  <2>2. Taken
    BY <2>1, SlotsAreTakenToAdd DEF Declared
  <2>3. Used
    BY <2>1, AddingEndsInTheSDK
  <2> QED
    BY <2>2, <2>3
<1> QED
  BY <1>1, InstrumentsInvariant, PTL DEF InstrumentsSpec, NoSlotWasted

\* Where no two meters are bound to one meter of the SDK, the SDK never has
\* more series of an instrument than its budget.
THEOREM BudgetsAreKept ==
  ASSUME \A m, n \in Meters : Scope[m] = Scope[n] => m = n
  PROVE  InstrumentsSpec => []BudgetKept
<1>1. InstrumentsInv => BudgetKept
  <2> SUFFICES ASSUME InstrumentsInv, NEW i \in Declared
               PROVE  Cardinality(sdk[Scope[i.meter]][i.name]) <= Limit[i.detail]
    BY DEF BudgetKept, Declared
  <2> DEFINE S == sdk[Scope[i.meter]][i.name]
  <2>1. i.meter \in Meters /\ i.name \in Names /\ Limit[i.detail] \in Nat
    BY DeclaredTypes
  <2>2. IsFiniteSet(series[i.guard]) /\ Cardinality(series[i.guard]) <= Limit[i.detail]
    BY DEF InstrumentsInv, WithinLimit
  <2>3. ASSUME NEW id \in S PROVE id \in series[i.guard]
    <3>1. PICK j \in Declared : /\ Scope[j.meter] = Scope[i.meter] /\ j.name = i.name
                               /\ id \in series[j.guard]
      BY <2>1 DEF InstrumentsInv, Admitted
    <3>2. j.meter = i.meter
      BY <2>1, <3>1, DeclaredTypes
    <3>3. j = i
      BY <3>1, <3>2 DEF InstrumentsInv, OneEntry
    <3> QED
      BY <3>1, <3>3
  <2>4. S \in SUBSET series[i.guard]
    BY <2>3
  <2> HIDE DEF S
  <2>5. IsFiniteSet(S) /\ Cardinality(S) <= Cardinality(series[i.guard])
    BY <2>2, <2>4, FS_Subset
  <2>6. Cardinality(S) \in Nat /\ Cardinality(series[i.guard]) \in Nat
    BY <2>2, <2>5, FS_CardinalityType
  <2> QED
    BY <2>1, <2>2, <2>5, <2>6 DEF S
<1> QED
  BY <1>1, InstrumentsInvariant, PTL

=============================================================================
