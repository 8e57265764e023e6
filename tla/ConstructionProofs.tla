------------------------- MODULE ConstructionProofs -------------------------
(***************************************************************************)
(* Proofs about Construction, for any number of starts, any environments,  *)
(* settings and bounds: ConstructionInv is an invariant, and the safety    *)
(* properties of the start of a process follow from it.                    *)
(***************************************************************************)
EXTENDS Construction, TLAPS

-----------------------------------------------------------------------------
(* The settings.                                                            *)

LEMMA NoneIsNoWord ==
  /\ None \notin {"none", "NONE", "config", "runtime", "identity", "exporter", "conflict"}
  /\ None \notin Starts /\ None \notin Bundles
BY ConstructionAssumption, BundlesAssumption DEF ConstructionAssumption, BundlesAssumption, Words

\* What passes the checks is in order.
LEMMA PassedIsInOrder ==
  ASSUME NEW c \in Creators, Refusal(start[c], env) = None
  PROVE  InOrder(c)
BY NoneIsNoWord DEF Refusal, InOrder, Settings

\* What does not is not.
LEMMA RefusedIsOutOfOrder ==
  ASSUME NEW c \in Creators, Refusal(start[c], env) # None
  PROVE  ~InOrder(c)
<1> DEFINE st == start[c]
<1>1. CASE Malformed(st)
  BY <1>1 DEF Malformed, InOrder, Settings, Config
<1>2. CASE st.via = "plugin" /\ Unnamed(env)
  <2>1. ~ValidIdentity(Identity(st, env))
    BY <1>2 DEF Unnamed, ValidIdentity, Identity, Proper
  <2> QED
    BY <2>1 DEF InOrder
<1>3. CASE ~Malformed(st) /\ ~(st.via = "plugin" /\ Unnamed(env))
  BY <1>3 DEF Refusal, InOrder, Settings
<1> QED
  BY <1>1, <1>2, <1>3

\* What raises before anything is built raises for one of three reasons.
LEMMA RefusalIsNamed ==
  ASSUME NEW st, NEW e, Refusal(st, e) # None
  PROVE  Refusal(st, e) \in {"config", "runtime", "identity"}
BY DEF Refusal

\* The signals of settings that are in order are those to be exported.
LEMMA EnabledIsExported ==
  ASSUME NEW c \in Creators
  PROVE  Settings(c).signals = Exported(c)
<1>1. CASE start[c].deployment # None
  BY <1>1 DEF Settings, Config, Exported
<1>2. CASE start[c].deployment = None
  <2>1. Settings(c).signals = Signals \ Disabled(env)
    BY <1>2 DEF Settings, Config, from_environment
  <2>2. ASSUME NEW s \in Signals
        PROVE  Lower(Given(env.exporter[s], "otlp")) = "none" <=> env.exporter[s] \in {"none", "NONE"}
    BY NoneIsNoWord DEF Lower, Given
  <2> QED
    BY <1>2, <2>1, <2>2 DEF Exported, Disabled
<1> QED
  BY <1>1, <1>2

LEMMA SignalsOfConfig ==
  ASSUME NEW config, ValidConfig(config)
  PROVE  config.signals \subseteq Signals
BY DEF ValidConfig

\* The constructors of the SDK take what the checks let pass.
LEMMA SdkAcceptsValid ==
  ASSUME NEW config, ValidConfig(config), NEW part
  PROVE  SdkAccepts(part, config)
<1>1. config.ratio \in 0..100 /\ config.interval > 0
  BY ConstructionAssumption DEF ConstructionAssumption, ValidConfig
<1>2. /\ config.batch.queue > 0 /\ config.batch.delay > 0 /\ config.batch.batch > 0
      /\ config.batch.batch <= config.batch.queue
  BY ConstructionAssumption DEF ConstructionAssumption, ValidConfig, ValidBatch
<1> QED
  BY <1>1, <1>2 DEF SdkAccepts

LEMMA MineIsBundle ==
  ASSUME NEW c \in Creators, start[c] \in Starts, env \in Environments
  PROVE  Mine(c) \in Bundles /\ Mine(c) # None /\ Mine(c).maker = c
         /\ Mine(c).config = Settings(c)
BY NoneIsNoWord DEF Mine, Bundles, BundleOf, Settings

-----------------------------------------------------------------------------
(* The initial states.                                                      *)

LEMMA ConstructionInitInv ==
  ASSUME ConstructionInit
  PROVE  ConstructionInv
<1> USE DEF ConstructionInit, Register!Init
<1>1. ConstructionTypeOK
  BY NoneIsNoWord DEF ConstructionTypeOK, Phases
<1>2. OwnerRuns
  BY DEF OwnerRuns
<1>3. ASSUME NEW c \in Creators
      PROVE  Knows(c)
  BY <1>3 DEF Knows, KnowsSettings, KnowsPipelines, KnowsRegister, KnowsCause
<1> QED
  BY <1>1, <1>2, <1>3 DEF ConstructionInv

-----------------------------------------------------------------------------
(* What a step leaves alone.                                                *)

\* All that a start has and has made.
Entry(c) ==
  <<start[c], phase[c], at[c], made[c], opened[c], running[c], error[c], want[c], got[c]>>

StartStep(c) ==
  \/ \E st \in Starts : create(c, st)
  \/ MakeExporter(c) \/ MakeProvider(c) \/ install(c)
  \/ Keep(c) \/ Granted(c) \/ Refused(c)

LEMMA OthersStay ==
  ASSUME ConstructionTypeOK, NEW c \in Creators, StartStep(c), NEW d \in Creators, d # c
  PROVE  Entry(d)' = Entry(d) /\ env' = env
<1> USE DEF ConstructionTypeOK, Entry
<1>1. ASSUME NEW st \in Starts, create(c, st) PROVE Entry(d)' = Entry(d) /\ env' = env
  BY <1>1 DEF create, Go, Raise, registerVars
<1>2. CASE MakeExporter(c)
  BY <1>2 DEF MakeExporter, Advance, Go, Raise, registerVars
<1>3. CASE MakeProvider(c)
  BY <1>3 DEF MakeProvider, Advance, Go, Raise, registerVars
<1>4. CASE install(c)
  BY <1>4 DEF install, Go, Register!Ask
<1>5. CASE Keep(c)
  BY <1>5 DEF Keep, Register!Claim, startVars
<1>6. CASE Granted(c)
  BY <1>6 DEF Granted, Register!Grant, Register!Reply, Go, Stop
<1>7. CASE Refused(c)
  BY <1>7 DEF Refused, Register!Refuse, Register!Reply, Go, Stop, Raise
<1> QED
  BY <1>1, <1>2, <1>3, <1>4, <1>5, <1>6, <1>7 DEF StartStep

\* The register is written once, and stays occupied.
LEMMA OwnerStays ==
  ASSUME NEW c \in Creators, StartStep(c)
  PROVE  /\ owner # None => owner' = owner
         /\ occupied => occupied'
<1>1. CASE UNCHANGED <<owner, occupied>>
  BY <1>1
<1>2. CASE Register!Claim(c)
  BY <1>2 DEF Register!Claim
<1> QED
  BY <1>1, <1>2 DEF StartStep, create, MakeExporter, MakeProvider, install, Keep, Granted,
     Refused, registerVars, Register!Ask, Register!Grant, Register!Refuse, Register!Reply

\* What is known of a start stays true while others go on.
LEMMA UntouchedKnows ==
  ASSUME NEW d \in Creators, Knows(d), Entry(d)' = Entry(d), env' = env,
         owner # None => owner' = owner, occupied => occupied'
  PROVE  Knows(d)'
<1>0. /\ start'[d] = start[d] /\ phase'[d] = phase[d] /\ at'[d] = at[d] /\ made'[d] = made[d]
      /\ opened'[d] = opened[d] /\ running'[d] = running[d] /\ error'[d] = error[d]
      /\ want'[d] = want[d] /\ got'[d] = got[d]
  BY DEF Entry
<1>1. Mine(d)' = Mine(d) /\ Settings(d)' = Settings(d) /\ Passed(d)' = Passed(d)
  BY <1>0 DEF Mine, Settings, Passed
<1>2. KnowsSettings(d)'
  BY <1>0, <1>1 DEF Knows, KnowsSettings
<1>3. KnowsPipelines(d)'
  BY <1>0, <1>1 DEF Knows, KnowsPipelines
<1>4. KnowsRegister(d)'
  BY <1>0, <1>1 DEF Knows, KnowsRegister
<1>5. KnowsCause(d)'
  BY <1>0, <1>1 DEF Knows, KnowsCause
<1> QED
  BY <1>2, <1>3, <1>4, <1>5 DEF Knows

\* So does the owner of the register, unless it is the one that goes on.
LEMMA UntouchedOwnerRuns ==
  ASSUME NEW c \in Creators, owner # None, owner' = owner, env' = env,
         NEW d \in Creators, Entry(d)' = Entry(d), phase[d] \in {"installing", "ready"},
         owner = Mine(d), running[d] = Settings(d).signals
  PROVE  OwnerRuns'
<1>0. start'[d] = start[d] /\ phase'[d] = phase[d] /\ running'[d] = running[d]
  BY DEF Entry
<1>1. Mine(d)' = Mine(d) /\ Settings(d)' = Settings(d)
  BY <1>0 DEF Mine, Settings
<1> QED
  BY <1>0, <1>1 DEF OwnerRuns

\* The owner of the register is another start's, if c has not come to install.
LEMMA OwnerElsewhere ==
  ASSUME ConstructionInv, NEW c \in Creators, StartStep(c), owner' = owner,
         phase[c] \notin {"installing", "ready"}
  PROVE  OwnerRuns'
<1> SUFFICES ASSUME owner # None PROVE OwnerRuns'
  BY DEF OwnerRuns
<1>1. PICK d \in Creators : /\ phase[d] \in {"installing", "ready"}
                            /\ owner = Mine(d) /\ running[d] = Settings(d).signals
  BY DEF ConstructionInv, OwnerRuns
<1>2. Entry(d)' = Entry(d) /\ env' = env
  BY <1>1, OthersStay DEF ConstructionInv
<1> QED
  BY <1>1, <1>2, UntouchedOwnerRuns

-----------------------------------------------------------------------------
(* One lemma for each action: what is known after it.                       *)

LEMMA CreateInv ==
  ASSUME ConstructionInv, NEW c \in Creators, NEW st \in Starts, create(c, st)
  PROVE  ConstructionTypeOK' /\ Knows(c)' /\ OwnerRuns'
<1> USE DEF ConstructionInv, Go, Raise
<1>0. /\ phase[c] = "new" /\ start'[c] = st /\ env' = env
      /\ UNCHANGED <<made, opened, running, owner, occupied, want, got>>
      /\ opened[c] = {} /\ running[c] = {} /\ want[c] = None /\ got[c] = Register!NoAnswer
  BY DEF create, registerVars, ConstructionTypeOK, Knows, KnowsSettings, KnowsPipelines,
     KnowsRegister
<1>1. OwnerRuns'
  BY <1>0, OwnerElsewhere DEF StartStep
<1>2. CASE Refusal(st, env) = None
  <2>1. phase' = [phase EXCEPT ![c] = "exporters"] /\ at' = [at EXCEPT ![c] = 1]
        /\ error' = error /\ start' = [start EXCEPT ![c] = st]
    BY <1>2 DEF create
  <2>2. ConstructionTypeOK'
    BY <1>0, <2>1 DEF ConstructionTypeOK, Phases
  <2>3. phase'[c] = "exporters" /\ at'[c] = 1
    BY <2>1 DEF ConstructionTypeOK
  <2>4. Knows(c)'
    BY <1>0, <1>2, <2>3, NoneIsNoWord
    DEF Knows, KnowsSettings, KnowsPipelines, KnowsRegister, KnowsCause, Passed
  <2> QED
    BY <1>1, <2>2, <2>4
<1>3. CASE Refusal(st, env) # None
  <2>1. phase' = [phase EXCEPT ![c] = "raised"] /\ at' = [at EXCEPT ![c] = 1]
        /\ error' = [error EXCEPT ![c] = Refusal(st, env)] /\ start' = [start EXCEPT ![c] = st]
    BY <1>3 DEF create
  <2>2. Refusal(st, env) \in {"config", "runtime", "identity"}
    BY <1>3, RefusalIsNamed
  <2>3. ConstructionTypeOK'
    BY <1>0, <2>1, <2>2 DEF ConstructionTypeOK, Phases
  <2>4. phase'[c] = "raised" /\ error'[c] = Refusal(st, env)
    BY <2>1 DEF ConstructionTypeOK
  <2>5. Knows(c)'
    BY <1>0, <2>2, <2>4, NoneIsNoWord
    DEF Knows, KnowsSettings, KnowsPipelines, KnowsRegister, KnowsCause
  <2> QED
    BY <1>1, <2>3, <2>5
<1> QED
  BY <1>2, <1>3

\* What a step keeps of c when c has passed the checks.
LEMMA SettingsStay ==
  ASSUME NEW c \in Creators, start' = start, env' = env
  PROVE  Settings(c)' = Settings(c) /\ Mine(c)' = Mine(c) /\ Passed(c)' = Passed(c)
BY DEF Settings, Mine, Passed

LEMMA PassedIsValid ==
  ASSUME NEW c \in Creators, Passed(c)
  PROVE  ValidConfig(Settings(c)) /\ Settings(c).signals \subseteq Signals
BY PassedIsInOrder, SignalsOfConfig DEF Passed, InOrder

LEMMA MakeExporterInv ==
  ASSUME ConstructionInv, NEW c \in Creators, MakeExporter(c)
  PROVE  ConstructionTypeOK' /\ Knows(c)' /\ OwnerRuns'
<1> USE DEF ConstructionInv
<1> DEFINE s == Exporters[at[c]]
           needed == s \in Settings(c).signals \ start[c].injected
<1>0. /\ phase[c] = "exporters" /\ start' = start /\ env' = env
      /\ UNCHANGED <<made, running, owner, occupied, want, got>>
      /\ Passed(c) /\ opened[c] \subseteq Settings(c).signals
      /\ running[c] = {} /\ want[c] = None /\ got[c] = Register!NoAnswer
      /\ at[c] \in 1..3 /\ start[c] # None
  BY DEF MakeExporter, registerVars, ConstructionTypeOK, Knows, KnowsSettings, KnowsPipelines,
     KnowsRegister
<1>1. OwnerRuns'
  BY <1>0, OwnerElsewhere DEF StartStep
<1>2. Settings(c)' = Settings(c) /\ Passed(c)' = Passed(c) /\ Settings(c).signals \subseteq Signals
  BY <1>0, SettingsStay, PassedIsValid
<1>3. CASE UNCHANGED error /\ Advance(c, Exporters, "providers")
           /\ opened' = IF needed THEN [opened EXCEPT ![c] = @ \cup {s}] ELSE opened
  <2>1. opened' \in [Creators -> SUBSET Signals] /\ opened'[c] \subseteq Settings(c).signals
    BY <1>0, <1>2, <1>3 DEF ConstructionTypeOK
  <2>2. \/ phase' = phase /\ at[c] \in 1..2 /\ at' = [at EXCEPT ![c] = at[c] + 1]
        \/ phase' = [phase EXCEPT ![c] = "providers"] /\ at' = [at EXCEPT ![c] = 1]
    BY <1>0, <1>3 DEF Advance, Go, Exporters
  <2>3. ConstructionTypeOK'
    BY <1>0, <1>3, <2>1, <2>2 DEF ConstructionTypeOK, Phases
  <2>4. \/ phase'[c] = "exporters" /\ at'[c] \in 1..3
        \/ phase'[c] = "providers" /\ at'[c] = 1
    BY <1>0, <2>2 DEF ConstructionTypeOK
  <2>5. Knows(c)'
    BY <1>0, <1>2, <2>1, <2>4, NoneIsNoWord
    DEF Knows, KnowsSettings, KnowsPipelines, KnowsRegister, KnowsCause
  <2> QED
    BY <1>1, <2>3, <2>5
<1>4. CASE needed /\ s \in Unreliable /\ Raise(c, "exporter") /\ UNCHANGED opened
  <2>1. phase' = [phase EXCEPT ![c] = "raised"] /\ at' = [at EXCEPT ![c] = 1]
        /\ error' = [error EXCEPT ![c] = "exporter"]
    BY <1>4 DEF Raise, Go
  <2>2. ConstructionTypeOK'
    BY <1>0, <1>4, <2>1 DEF ConstructionTypeOK, Phases
  <2>3. phase'[c] = "raised" /\ error'[c] = "exporter" /\ Unreliable \cap Settings(c).signals # {}
    BY <1>4, <2>1 DEF ConstructionTypeOK
  <2>4. Knows(c)'
    BY <1>0, <1>2, <1>4, <2>3
    DEF Knows, KnowsSettings, KnowsPipelines, KnowsRegister, KnowsCause, Passed
  <2> QED
    BY <1>1, <2>2, <2>4
<1> QED
  BY <1>3, <1>4 DEF MakeExporter

LEMMA MakeProviderInv ==
  ASSUME ConstructionInv, NEW c \in Creators, MakeProvider(c)
  PROVE  ConstructionTypeOK' /\ Knows(c)' /\ OwnerRuns'
<1> USE DEF ConstructionInv
<1> DEFINE part == Providers[at[c]]
           config == Settings(c)
<1>0. /\ phase[c] = "providers" /\ start' = start /\ env' = env
      /\ UNCHANGED <<opened, owner, occupied, want, got>>
      /\ Passed(c) /\ opened[c] \subseteq config.signals
      /\ want[c] = None /\ got[c] = Register!NoAnswer
      /\ running[c] = {Providers[i] : i \in 1..(at[c] - 1)} \cap config.signals
      /\ at[c] \in 1..4 /\ start[c] # None
  BY DEF MakeProvider, registerVars, ConstructionTypeOK, Knows, KnowsSettings, KnowsPipelines,
     KnowsRegister
<1>1. OwnerRuns'
  BY <1>0, OwnerElsewhere DEF StartStep
<1>2. /\ Settings(c)' = config /\ Passed(c)' = Passed(c) /\ Mine(c)' = Mine(c)
      /\ config.signals \subseteq Signals /\ SdkAccepts(part, config)
  BY <1>0, SettingsStay, PassedIsValid, SdkAcceptsValid
<1>3. /\ running' = [running EXCEPT ![c] = @ \cup ({part} \cap config.signals)]
      /\ Advance(c, Providers, "built") /\ UNCHANGED error
      /\ made' = IF at[c] = Len(Providers) THEN [made EXCEPT ![c] = Mine(c)] ELSE made
  BY <1>2 DEF MakeProvider, Mine
<1>4. \/ phase' = phase /\ at[c] \in 1..3 /\ at' = [at EXCEPT ![c] = at[c] + 1] /\ made' = made
      \/ /\ phase' = [phase EXCEPT ![c] = "built"] /\ at' = [at EXCEPT ![c] = 1]
         /\ at[c] = 4 /\ made' = [made EXCEPT ![c] = Mine(c)]
  BY <1>0, <1>3 DEF Advance, Go, Providers
<1>5. Mine(c) \in Bundles
  BY <1>0, MineIsBundle DEF Passed, ConstructionTypeOK
<1>6. ConstructionTypeOK'
  BY <1>0, <1>2, <1>3, <1>4, <1>5 DEF ConstructionTypeOK, Phases
<1>7. running'[c] = running[c] \cup ({part} \cap config.signals)
  BY <1>3 DEF ConstructionTypeOK
<1>8. running'[c] = {Providers[i] : i \in 1..at[c]} \cap config.signals
  <2>1. {Providers[i] : i \in 1..at[c]} = {Providers[i] : i \in 1..(at[c] - 1)} \cup {part}
    BY <1>0
  <2> QED
    BY <1>0, <1>7, <2>1
<1>9. {Providers[i] : i \in 1..4} = {"sampler", "metrics", "traces", "logs"}
  <2>1. 1..4 = {1, 2, 3, 4}
    OBVIOUS
  <2> QED
    BY <2>1 DEF Providers
<1>10. \/ phase'[c] = "providers" /\ at'[c] = at[c] + 1
       \/ phase'[c] = "built" /\ at[c] = 4 /\ made'[c] = Mine(c)
  BY <1>0, <1>4 DEF ConstructionTypeOK
<1>11. CASE phase'[c] = "providers" /\ at'[c] = at[c] + 1
  <2>1. at'[c] - 1 = at[c]
    BY <1>0, <1>11
  <2>2. KnowsPipelines(c)'
    BY <1>2, <1>8, <1>11, <2>1 DEF KnowsPipelines
  <2>3. Knows(c)'
    BY <1>0, <1>2, <1>11, <2>2, NoneIsNoWord
    DEF Knows, KnowsSettings, KnowsRegister, KnowsCause
  <2> QED
    BY <1>1, <1>6, <2>3
<1>12. CASE phase'[c] = "built" /\ at[c] = 4 /\ made'[c] = Mine(c)
  <2>1. running'[c] = config.signals
    BY <1>2, <1>8, <1>9, <1>12 DEF Signals
  <2>2. KnowsPipelines(c)'
    BY <1>2, <1>12, <2>1 DEF KnowsPipelines
  <2>3. Knows(c)'
    BY <1>0, <1>2, <1>12, <2>2, NoneIsNoWord
    DEF Knows, KnowsSettings, KnowsRegister, KnowsCause
  <2> QED
    BY <1>1, <1>6, <2>3
<1> QED
  BY <1>10, <1>11, <1>12

LEMMA InstallInv ==
  ASSUME ConstructionInv, NEW c \in Creators, install(c)
  PROVE  ConstructionTypeOK' /\ Knows(c)' /\ OwnerRuns'
<1> USE DEF ConstructionInv
<1>0. /\ phase[c] = "built" /\ start' = start /\ env' = env
      /\ UNCHANGED <<made, opened, running, error, owner, occupied, got>>
      /\ Passed(c) /\ opened[c] \subseteq Settings(c).signals
      /\ running[c] = Settings(c).signals /\ made[c] = Mine(c)
      /\ got[c] = Register!NoAnswer /\ start[c] # None
      /\ phase' = [phase EXCEPT ![c] = "installing"] /\ at' = [at EXCEPT ![c] = 1]
      /\ want' = [want EXCEPT ![c] = Mine(c)]
  BY DEF install, Go, Register!Ask, ConstructionTypeOK, Knows, KnowsSettings, KnowsPipelines,
     KnowsRegister
<1>1. OwnerRuns'
  BY <1>0, OwnerElsewhere DEF StartStep
<1>2. /\ Settings(c)' = Settings(c) /\ Passed(c)' = Passed(c) /\ Mine(c)' = Mine(c)
      /\ Mine(c) \in Bundles
  BY <1>0, SettingsStay, MineIsBundle DEF Passed, ConstructionTypeOK
<1>3. ConstructionTypeOK'
  BY <1>0, <1>2 DEF ConstructionTypeOK, Phases
<1>4. phase'[c] = "installing" /\ want'[c] = Mine(c)
  BY <1>0 DEF ConstructionTypeOK
<1>5. Knows(c)'
  BY <1>0, <1>2, <1>4
  DEF Knows, KnowsSettings, KnowsPipelines, KnowsRegister, KnowsCause
<1> QED
  BY <1>1, <1>3, <1>5

\* A call of the registry that is not answered is one of a start that installs.
LEMMA PendingInstalls ==
  ASSUME ConstructionInv, NEW c \in Creators, Register!Pending(c)
  PROVE  /\ phase[c] = "installing" /\ want[c] = Mine(c) /\ Passed(c) /\ made[c] = Mine(c)
         /\ running[c] = Settings(c).signals /\ opened[c] \subseteq Settings(c).signals
         /\ start[c] # None /\ Mine(c) \in Bundles
<1>1. phase[c] = "installing"
  BY DEF ConstructionInv, Knows, KnowsRegister, Register!Pending
<1>2. Passed(c)
  BY <1>1 DEF ConstructionInv, Knows, KnowsSettings
<1> QED
  BY <1>1, <1>2, MineIsBundle, NoneIsNoWord
  DEF ConstructionInv, ConstructionTypeOK, Knows, KnowsSettings, KnowsPipelines, KnowsRegister, Passed

LEMMA KeepInv ==
  ASSUME ConstructionInv, NEW c \in Creators, Keep(c)
  PROVE  ConstructionTypeOK' /\ Knows(c)' /\ OwnerRuns'
<1>0. /\ Register!Pending(c) /\ owner = None /\ owner' = Mine(c)
      /\ UNCHANGED <<env, startVars, occupied, want, got>>
  BY PendingInstalls DEF Keep, Register!Claim, Register!Pending
<1>1. ConstructionTypeOK'
  BY <1>0, PendingInstalls DEF ConstructionInv, ConstructionTypeOK, startVars
<1>2. Mine(c)' = Mine(c) /\ Settings(c)' = Settings(c)
  BY <1>0, SettingsStay DEF startVars
<1>3. OwnerRuns'
  BY <1>0, <1>2, PendingInstalls DEF OwnerRuns, startVars
<1>4. Knows(c)'
  BY <1>0, UntouchedKnows DEF ConstructionInv, Entry, startVars
<1> QED
  BY <1>1, <1>3, <1>4

\* The start whose bundle the registry has, when that is not the bundle of c.
LEMMA OwnerIsAnother ==
  ASSUME ConstructionInv, NEW c \in Creators, Granted(c) \/ Refused(c), owner # None,
         owner # Mine(c)
  PROVE  OwnerRuns'
<1>1. PICK d \in Creators : /\ phase[d] \in {"installing", "ready"}
                            /\ owner = Mine(d) /\ running[d] = Settings(d).signals
  BY DEF ConstructionInv, OwnerRuns
<1>2. d # c
  BY <1>1
<1>3. owner' = owner
  BY OwnerStays DEF StartStep
<1> QED
  BY <1>1, <1>2, <1>3, OthersStay, UntouchedOwnerRuns DEF ConstructionInv, StartStep

LEMMA GrantedInv ==
  ASSUME ConstructionInv, NEW c \in Creators, Granted(c)
  PROVE  ConstructionTypeOK' /\ Knows(c)' /\ OwnerRuns'
<1>0. /\ Register!Pending(c) /\ owner # None /\ owner' = owner /\ start' = start /\ env' = env
      /\ phase[c] = "installing" /\ Passed(c) /\ Mine(c) \in Bundles /\ start[c] # None
      /\ running[c] = Settings(c).signals /\ opened[c] \subseteq Settings(c).signals
      /\ UNCHANGED <<error, occupied, want>> /\ owner \in Bundles
      /\ want[c] = Mine(c)
  BY PendingInstalls
  DEF Granted, Register!Grant, Register!Reply, ConstructionInv, ConstructionTypeOK
<1>1. /\ made' = [made EXCEPT ![c] = owner] /\ phase' = [phase EXCEPT ![c] = "ready"]
      /\ at' = [at EXCEPT ![c] = 1] /\ got' = [got EXCEPT ![c] = Register!Granted(owner)]
  BY DEF Granted, Go, Register!Grant, Register!Reply
<1>2. Fingerprint(owner) = Fingerprint(Mine(c))
  BY <1>0 DEF Granted, Register!Grant
<1>3. \/ owner = Mine(c) /\ UNCHANGED <<opened, running>>
      \/ owner # Mine(c) /\ Stop(c)
  BY <1>0 DEF Granted
<1>4. ConstructionTypeOK'
  BY <1>0, <1>1, <1>3 DEF ConstructionInv, ConstructionTypeOK, Phases, Stop
<1>5. Settings(c)' = Settings(c) /\ Mine(c)' = Mine(c) /\ Passed(c)' = Passed(c)
  BY <1>0, SettingsStay
<1>6. /\ phase'[c] = "ready" /\ made'[c] = owner /\ got'[c] = Register!Granted(owner)
      /\ \/ owner = Mine(c) /\ opened'[c] = opened[c]
         \/ running'[c] = {} /\ opened'[c] = {}
  BY <1>1, <1>3 DEF ConstructionInv, ConstructionTypeOK, Stop
<1>7. Register!Granted(owner) # Register!NoAnswer
  BY DEF Register!Granted, Register!NoAnswer
<1>8. Knows(c)'
  BY <1>0, <1>2, <1>5, <1>6, <1>7
  DEF Knows, KnowsSettings, KnowsPipelines, KnowsRegister, KnowsCause
<1>9. OwnerRuns'
  <2>1. CASE owner # Mine(c)
    BY <1>0, <2>1, OwnerIsAnother
  <2>2. CASE owner = Mine(c)
    BY <1>0, <1>3, <1>5, <1>6, <2>2 DEF OwnerRuns
  <2> QED
    BY <2>1, <2>2
<1> QED
  BY <1>4, <1>8, <1>9

LEMMA RefusedInv ==
  ASSUME ConstructionInv, NEW c \in Creators, Refused(c)
  PROVE  ConstructionTypeOK' /\ Knows(c)' /\ OwnerRuns'
<1>0. /\ Register!Pending(c) /\ owner' = owner /\ start' = start /\ env' = env
      /\ phase[c] = "installing" /\ Passed(c) /\ Mine(c) \in Bundles /\ start[c] # None
      /\ UNCHANGED <<occupied, want, made>> /\ want[c] = Mine(c)
  BY PendingInstalls DEF Refused, Register!Refuse, Register!Reply
<1>1. /\ opened' = [opened EXCEPT ![c] = {}] /\ running' = [running EXCEPT ![c] = {}]
      /\ phase' = [phase EXCEPT ![c] = "raised"] /\ at' = [at EXCEPT ![c] = 1]
      /\ error' = [error EXCEPT ![c] = "conflict"]
      /\ got' = [got EXCEPT ![c] = Register!Conflict]
  BY DEF Refused, Stop, Raise, Go, Register!Refuse, Register!Reply
<1>2. occupied \/ (owner # None /\ Fingerprint(owner) # Fingerprint(Mine(c)))
  <2>1. CASE owner = None
    BY <2>1 DEF Refused, Register!Refuse
  <2>2. CASE owner # None
    BY <1>0, <2>2 DEF Refused, Register!Refuse, ConstructionInv, ConstructionTypeOK
  <2> QED
    BY <2>1, <2>2
<1>3. ConstructionTypeOK'
  BY <1>0, <1>1 DEF ConstructionInv, ConstructionTypeOK, Phases
<1>4. Settings(c)' = Settings(c) /\ Mine(c)' = Mine(c) /\ Passed(c)' = Passed(c)
  BY <1>0, SettingsStay
<1>5. /\ phase'[c] = "raised" /\ error'[c] = "conflict" /\ opened'[c] = {} /\ running'[c] = {}
      /\ got'[c] = Register!Conflict
  BY <1>1 DEF ConstructionInv, ConstructionTypeOK
<1>6. Register!Conflict # Register!NoAnswer
  BY DEF Register!Conflict, Register!NoAnswer
<1>7. Knows(c)'
  BY <1>0, <1>2, <1>4, <1>5, <1>6
  DEF Knows, KnowsSettings, KnowsPipelines, KnowsRegister, KnowsCause, Passed
<1>8. OwnerRuns'
  <2>1. CASE owner = None
    BY <1>0, <2>1 DEF OwnerRuns
  <2>2. CASE owner # None /\ owner = Mine(c)
    BY <1>0, <2>2 DEF Refused, Register!Refuse
  <2>3. CASE owner # None /\ owner # Mine(c)
    BY <2>3, OwnerIsAnother
  <2> QED
    BY <2>1, <2>2, <2>3
<1> QED
  BY <1>3, <1>7, <1>8

LEMMA StartStepInv ==
  ASSUME ConstructionInv, NEW c \in Creators, StartStep(c)
  PROVE  ConstructionInv'
<1>1. ConstructionTypeOK' /\ Knows(c)' /\ OwnerRuns'
  BY CreateInv, MakeExporterInv, MakeProviderInv, InstallInv, KeepInv, GrantedInv, RefusedInv
  DEF StartStep
<1>2. ASSUME NEW d \in Creators, d # c PROVE Knows(d)'
  BY <1>2, OthersStay, OwnerStays, UntouchedKnows DEF ConstructionInv
<1> QED
  BY <1>1, <1>2 DEF ConstructionInv

LEMMA OccupyInv ==
  ASSUME ConstructionInv, Occupy
  PROVE  ConstructionInv'
<1>0. /\ occupied' = TRUE /\ UNCHANGED <<owner, want, got>>
      /\ UNCHANGED <<env, start, phase, at, made, opened, running, error>>
  BY DEF Occupy, Register!Occupy, startVars
<1>1. ConstructionTypeOK'
  BY <1>0 DEF ConstructionInv, ConstructionTypeOK
<1>2. ASSUME NEW d \in Creators PROVE Knows(d)'
  BY <1>0, UntouchedKnows DEF ConstructionInv, Entry
<1>3. OwnerRuns'
  BY <1>0, SettingsStay DEF ConstructionInv, OwnerRuns
<1> QED
  BY <1>1, <1>2, <1>3 DEF ConstructionInv

LEMMA ConstructionStutters ==
  ASSUME ConstructionInv, UNCHANGED constructionVars
  PROVE  ConstructionInv'
<1>0. UNCHANGED <<env, start, phase, at, made, opened, running, error,
                  owner, occupied, want, got>>
  BY DEF constructionVars, startVars, registerVars
<1>1. ConstructionTypeOK'
  BY <1>0 DEF ConstructionInv, ConstructionTypeOK
<1>2. ASSUME NEW d \in Creators PROVE Knows(d)'
  BY <1>0, UntouchedKnows DEF ConstructionInv, Entry
<1>3. OwnerRuns'
  BY <1>0, SettingsStay DEF ConstructionInv, OwnerRuns
<1> QED
  BY <1>1, <1>2, <1>3 DEF ConstructionInv

-----------------------------------------------------------------------------
(* The theorems.                                                            *)

\* What is known of a start at each phase of it is true at all times
\* (config.py, factory.py, plugin.py), and the values have their types.
THEOREM ConstructionInvariant == ConstructionSpec => []ConstructionInv
<1>1. ASSUME ConstructionInv, ConstructionNext PROVE ConstructionInv'
  BY <1>1, StartStepInv, OccupyInv DEF ConstructionNext, StartStep
<1> QED
  BY <1>1, ConstructionInitInv, ConstructionStutters, PTL DEF ConstructionSpec

\* A start that raises has stopped every pipeline it had started; exporters are
\* left open only by one that could not make another (factory.py:178-248,
\* global_registry.py:64-78).
THEOREM FailedStartsAreQuiet == ConstructionSpec => []FailedStartIsQuiet
<1>1. ASSUME ConstructionInv PROVE FailedStartIsQuiet
  BY <1>1 DEF ConstructionInv, Knows, KnowsCause, FailedStartIsQuiet
<1> QED
  BY <1>1, ConstructionInvariant, PTL

\* No signal that the deployment disables is ever exported, and a facade that
\* keeps its own bundle exports each of the others (config.py:190-219).
THEOREM OnlyEnabledIsExported == ConstructionSpec => []OnlyEnabledExport
<1>1. ASSUME ConstructionInv PROVE OnlyEnabledExport
  <2> SUFFICES ASSUME NEW c \in Creators
               PROVE  /\ start[c] # None => running[c] \cup opened[c] \subseteq Exported(c)
                      /\ phase[c] \in {"built", "ready"} /\ made[c].maker = c =>
                           running[c] = Exported(c)
    BY DEF OnlyEnabledExport
  <2>0. Knows(c) /\ ConstructionTypeOK /\ Settings(c).signals = Exported(c) /\ OwnerRuns
    BY <1>1, EnabledIsExported DEF ConstructionInv
  <2>1. ASSUME start[c] # None PROVE running[c] \cup opened[c] \subseteq Exported(c)
    <3>1. opened[c] \subseteq Exported(c)
      BY <2>0, <2>1 DEF Knows, KnowsSettings, KnowsCause
    <3>2. CASE phase[c] \in {"exporters", "providers", "built", "installing", "raised"}
      BY <2>0, <3>1, <3>2 DEF Knows, KnowsPipelines, KnowsCause
    <3>3. CASE phase[c] = "ready"
      <4>1. owner # None /\ (owner = Mine(c) \/ running[c] = {})
        BY <2>0, <3>3 DEF Knows, KnowsRegister
      <4>2. PICK d \in Creators : /\ phase[d] \in {"installing", "ready"}
                                  /\ owner = Mine(d) /\ running[d] = Settings(d).signals
        BY <2>0, <4>1 DEF OwnerRuns
      <4>3. owner = Mine(c) => d = c
        BY <4>2 DEF Mine, BundleOf
      <4> QED
        BY <2>0, <3>1, <4>1, <4>2, <4>3
    <3> QED
      BY <2>0, <2>1, <3>2, <3>3 DEF Knows, KnowsSettings, ConstructionTypeOK, Phases
  <2>2. ASSUME phase[c] \in {"built", "ready"}, made[c].maker = c PROVE running[c] = Exported(c)
    <3>1. CASE phase[c] = "built"
      BY <2>0, <3>1 DEF Knows, KnowsPipelines
    <3>2. CASE phase[c] = "ready"
      <4>1. owner # None /\ made[c] = owner
        BY <2>0, <3>2 DEF Knows, KnowsRegister
      <4>2. PICK d \in Creators : /\ phase[d] \in {"installing", "ready"}
                                  /\ owner = Mine(d) /\ running[d] = Settings(d).signals
        BY <2>0, <4>1 DEF OwnerRuns
      <4>3. d = c
        BY <2>2, <4>1, <4>2 DEF Mine, BundleOf
      <4> QED
        BY <2>0, <4>2, <4>3
    <3> QED
      BY <2>2, <3>1, <3>2
  <2> QED
    BY <2>1, <2>2
<1> QED
  BY <1>1, ConstructionInvariant, PTL

\* An installed facade writes to pipelines that run; those that it made itself
\* are gone if the registry gave it another bundle (plugin.py:100-103).
THEOREM ReadyFacadesAreLive == ConstructionSpec => []ReadyIsLive
<1>1. ASSUME ConstructionInv PROVE ReadyIsLive
  <2> SUFFICES ASSUME NEW c \in Creators, phase[c] = "ready"
               PROVE  /\ running[made[c].maker] = made[c].config.signals
                      /\ made[c].maker # c => running[c] = {}
    BY DEF ReadyIsLive
  <2>1. /\ owner # None /\ made[c] = owner
        /\ owner = Mine(c) \/ running[c] = {}
    BY <1>1 DEF ConstructionInv, Knows, KnowsRegister
  <2>2. PICK d \in Creators : /\ phase[d] \in {"installing", "ready"}
                              /\ owner = Mine(d) /\ running[d] = Settings(d).signals
    BY <1>1, <2>1 DEF ConstructionInv, OwnerRuns
  <2>3. owner.maker = d /\ owner.config = Settings(d)
    BY <2>2 DEF Mine, BundleOf, Settings
  <2>4. Mine(c).maker = c
    BY DEF Mine, BundleOf
  <2> QED
    BY <2>1, <2>2, <2>3, <2>4
<1> QED
  BY <1>1, ConstructionInvariant, PTL

\* Whatever bundle a facade ends up with has the settings, identity and runtime
\* that its own start has asked for (global_registry.py:28-49).
THEOREM SharedBundlesAreSame == ConstructionSpec => []SharedMeansSame
<1>1. ASSUME ConstructionInv PROVE SharedMeansSame
  <2> SUFFICES ASSUME NEW c \in Creators, phase[c] = "ready"
               PROVE  /\ made[c].config = Settings(c)
                      /\ made[c].identity = Identity(start[c], env)
                      /\ made[c].runtime = start[c].runtime
    BY DEF SharedMeansSame
  <2>1. Fingerprint(made[c]) = Fingerprint(Mine(c))
    BY <1>1 DEF ConstructionInv, Knows, KnowsRegister
  <2> QED
    BY <2>1 DEF Fingerprint, Mine, BundleOf, Settings
<1> QED
  BY <1>1, ConstructionInvariant, PTL

\* The platform's fields are the identity's whatever caller and environment say;
\* the SDK's attributes are replaced and denied names are there only where the
\* environment says so, never by an attribute of a caller (config.py:69-110).
THEOREM ResourcesAreGoverned == ConstructionSpec => []ResourceIsGoverned
<1>1. ASSUME NEW id, ValidIdentity(id), NEW e
      PROVE  LET resource == Resource(id, e) IN
             /\ resource["service.name"] = id.name /\ resource["service.version"] = id.version
             /\ resource["deployment.environment.name"] = id.place
             /\ resource["meridian.sdk.version"] = "meridian"
             /\ \A k \in Sdk : resource[k] = IF k \in DOMAIN e.resource
                                            THEN e.resource[k] ELSE "sdk"
             /\ DOMAIN resource \cap DeniedKeys \subseteq DOMAIN e.resource
  <2> DEFINE own == resource_attributes(id)
             under == Over(e.resource, [k \in Sdk |-> "sdk"])
             resource == Resource(id, e)
  <2>0. /\ DOMAIN id.attributes \cap Protected = {}
        /\ DOMAIN id.attributes \cap DeniedKeys = {}
        /\ Protected \cap DeniedKeys = {}
    BY <1>1, ConstructionAssumption DEF ValidIdentity, ConstructionAssumption
  <2>1. /\ own["service.name"] = id.name /\ own["service.version"] = id.version
        /\ own["deployment.environment.name"] = id.place
        /\ own["meridian.sdk.version"] = "meridian"
        /\ DOMAIN own = Own \cup DOMAIN id.attributes
    BY DEF resource_attributes, Own, Over
  <2>2. /\ DOMAIN under = DOMAIN e.resource \cup Sdk
        /\ \A k \in Sdk : under[k] = IF k \in DOMAIN e.resource THEN e.resource[k] ELSE "sdk"
    BY DEF Over
  <2>3. /\ DOMAIN resource = DOMAIN own \cup DOMAIN under
        /\ \A k \in DOMAIN own : resource[k] = own[k]
        /\ \A k \in DOMAIN under : k \notin DOMAIN own => resource[k] = under[k]
    BY DEF Resource, Over
  <2>4. Own \cap Sdk = {} /\ Protected = Own \cup Sdk
    BY DEF Own, Sdk, Protected
  <2>5. {"service.name", "service.version", "deployment.environment.name",
         "meridian.sdk.version"} \subseteq DOMAIN own
    BY <2>1 DEF Own
  <2> HIDE DEF own, under, resource
  <2>6. \A k \in Sdk : resource[k] = IF k \in DOMAIN e.resource THEN e.resource[k] ELSE "sdk"
    BY <2>0, <2>1, <2>2, <2>3, <2>4
  <2>7. DOMAIN resource \cap DeniedKeys \subseteq DOMAIN e.resource
    BY <2>0, <2>1, <2>2, <2>3, <2>4
  <2>8. /\ resource["service.name"] = id.name /\ resource["service.version"] = id.version
        /\ resource["deployment.environment.name"] = id.place
        /\ resource["meridian.sdk.version"] = "meridian"
    BY <2>1, <2>3, <2>5
  <2> QED
    BY <2>6, <2>7, <2>8 DEF resource
<1>2. ASSUME ConstructionInv PROVE ResourceIsGoverned
  <2> SUFFICES ASSUME NEW c \in Creators, running[c] # {}
               PROVE  ValidIdentity(Identity(start[c], env))
    BY <1>1 DEF ResourceIsGoverned
  <2>1. phase[c] \notin {"new", "raised"}
    BY <1>2 DEF ConstructionInv, Knows, KnowsPipelines, KnowsCause
  <2> QED
    BY <1>2, <2>1, PassedIsInOrder DEF ConstructionInv, Knows, KnowsSettings, Passed, InOrder
<1> QED
  BY <1>2, ConstructionInvariant, PTL

\* A start whose settings are in order raises only for an exporter that cannot
\* be made or a process that is another's: what the checks let pass, the SDK
\* takes (config.py:69-182, factory.py:178-248).
THEOREM RaisesHaveCause == ConstructionSpec => []RaisesForCause
<1>1. ASSUME ConstructionInv PROVE RaisesForCause
  <2> SUFFICES ASSUME NEW c \in Creators, phase[c] = "raised"
               PROVE  /\ InOrder(c) => error[c] \in {"exporter", "conflict"}
                      /\ error[c] = "exporter" => Unreliable \cap Exported(c) # {}
                      /\ error[c] = "conflict" =>
                           \/ occupied
                           \/ <<owner.config, owner.identity, owner.runtime>> #
                                <<Settings(c), Identity(start[c], env), start[c].runtime>>
    BY DEF RaisesForCause
  <2>1. KnowsCause(c) /\ Settings(c).signals = Exported(c)
    BY <1>1, EnabledIsExported DEF ConstructionInv, Knows
  <2>2. CASE error[c] \in {"config", "runtime", "identity"} /\ Refusal(start[c], env) = error[c]
    BY <2>2, RefusedIsOutOfOrder, NoneIsNoWord
  <2>3. CASE error[c] = "exporter" /\ Unreliable \cap Settings(c).signals # {}
    BY <2>1, <2>3
  <2>4. CASE error[c] = "conflict" /\ (occupied \/ Fingerprint(owner) # Fingerprint(Mine(c)))
    BY <2>4 DEF Fingerprint, Mine, BundleOf, Settings
  <2> QED
    BY <2>1, <2>2, <2>3, <2>4 DEF KnowsCause
<1> QED
  BY <1>1, ConstructionInvariant, PTL

=============================================================================
