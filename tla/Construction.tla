----------------------------- MODULE Construction ----------------------------
(***************************************************************************)
(* How a process comes to export telemetry: settings (config.py) become a  *)
(* bundle of running pipelines (build_provider_bundle of factory.py), and  *)
(* the bundle is installed (plugin.py: Observability.__init__ and          *)
(* ObservabilityPluginFactory.create).                                     *)
(*                                                                         *)
(* Several starts may run at once, in threads of their own.  Where they    *)
(* meet is the global registry, which is taken here as what it promises    *)
(* (ProcessProvider); GlobalRegistry implements that.                      *)
(***************************************************************************)
EXTENDS Integers, Sequences, FiniteSets

CONSTANTS
  Creators,       \* the threads in which a facade is made
  None,           \* not set; of a name, version, place, endpoint or table also empty
  Improper,       \* a value that is malformed, out of bounds or, elsewhere, empty
  Environments,   \* what os.environ may be
  Starts,         \* how facades are asked for
  Unreliable,     \* signals whose default exporter may fail to be made
  AttributeKeys,  \* keys of resource attributes that are well formed
  DeniedKeys,     \* those that is_denied_key refuses
  MaxAttributes,  \* resource attributes of an identity (64)
  DefaultBatch,   \* BatchPolicy()
  MaxQueue,       \* the largest max_queue_size (1_000_000)
  MaxMillis,      \* the longest delay and timeout of a batch (300_000)
  MaxInterval,    \* the longest metric_export_interval_millis (3_600_000)
  DefaultInterval \* its default (60_000)

Signals == {"traces", "metrics", "logs"}

\* What is not set is no word that is set or raised.
Words == {"none", "NONE", "config", "runtime", "identity", "exporter", "conflict"}

Own == {"service.name", "service.version", "deployment.environment.name",
        "meridian.sdk.version"}

Sdk == {"telemetry.sdk.name", "telemetry.sdk.language", "telemetry.sdk.version"}

\* _PROTECTED_ATTRIBUTES
Protected == Own \cup Sdk

ASSUME ConstructionAssumption ==
  /\ None \notin Words /\ None # Improper /\ None \notin Starts
  /\ DeniedKeys \subseteq AttributeKeys /\ DeniedKeys \cap Protected = {}
  /\ Unreliable \subseteq Signals
  /\ {MaxQueue, MaxMillis, MaxInterval} \subseteq Nat
  /\ DefaultInterval \in 1..MaxInterval

VARIABLES
  env,      \* the environment of the process
  start,    \* start[c]: how c has been asked for a facade
  phase,    \* phase[c]: how far the start has come
  at,       \* at[c]: the next signal or provider
  made,     \* made[c]: _bundle of the facade, or None
  opened,   \* opened[c]: signals whose default exporter c has made
  running,  \* running[c]: signals whose pipeline (a thread) c has started
  error,    \* error[c]: what the start has raised
  owner, occupied, want, got  \* the registry, see ProcessProvider

startVars == <<start, phase, at, made, opened, running, error>>
registerVars == <<owner, occupied, want, got>>
constructionVars == <<env, startVars, registerVars>>

Given(v, default) == IF v = None THEN default ELSE v

Proper(v) == v \notin {None, Improper}

-----------------------------------------------------------------------------
(* The identity of the service.                                             *)

\* Mutant: attributes may have any name that is not denied.
ValidIdentityOpen(id) ==
  /\ Proper(id.name) /\ Proper(id.version) /\ Proper(id.place)
  /\ Cardinality(DOMAIN id.attributes) <= MaxAttributes
  /\ DOMAIN id.attributes \subseteq AttributeKeys \ DeniedKeys
  /\ \A k \in DOMAIN id.attributes : id.attributes[k] # Improper

\* ServiceIdentity.__post_init__
ValidIdentity(id) ==
  /\ Proper(id.name) /\ Proper(id.version) /\ Proper(id.place)
  /\ Cardinality(DOMAIN id.attributes) <= MaxAttributes
  /\ DOMAIN id.attributes \subseteq AttributeKeys \ (DeniedKeys \cup Protected)
  /\ \A k \in DOMAIN id.attributes : id.attributes[k] # Improper

\* f, and g where f says nothing (@@, which no prover can expand).
Over(f, g) == [k \in DOMAIN f \cup DOMAIN g |-> IF k \in DOMAIN f THEN f[k] ELSE g[k]]

resource_attributes(id) ==
  Over([k \in Own |-> CASE k = "service.name" -> id.name
                        [] k = "service.version" -> id.version
                        [] k = "deployment.environment.name" -> id.place
                        [] OTHER -> "meridian"], id.attributes)

\* External: Resource.create lets the given attributes replace those of
\* OTEL_RESOURCE_ATTRIBUTES (e.resource, unchecked), and these the SDK's own.  The
\* name of OTEL_SERVICE_NAME, which it reads too, the identity always replaces.
Resource(id, e) == Over(resource_attributes(id), Over(e.resource, [k \in Sdk |-> "sdk"]))

-----------------------------------------------------------------------------
(* The settings of a deployment.                                            *)

\* Mutant: the size of a batch has the bound of the queue, not its size.
ValidBatchAlone(b) ==
  /\ b.queue \in 1..MaxQueue /\ b.batch \in 1..MaxQueue
  /\ {b.delay, b.timeout} \subseteq 1..MaxMillis

\* BatchPolicy.__post_init__
ValidBatch(b) ==
  /\ b.queue \in 1..MaxQueue /\ b.batch \in 1..b.queue
  /\ {b.delay, b.timeout} \subseteq 1..MaxMillis

\* DeploymentTelemetryConfig.__post_init__; ratios are in percent, and a text
\* that is no number, or NaN, is in no interval.
ValidConfig(config) ==
  /\ Proper(config.endpoint)
  /\ config.protocol \in {"grpc", "http/protobuf"}
  /\ config.signals \subseteq Signals /\ config.signals # {}
  /\ ValidBatch(config.batch)
  /\ config.ratio \in 0..100
  /\ config.interval \in 1..MaxInterval

\* External: str.lower, on what the environments say.
Lower(v) == IF v = "NONE" THEN "none" ELSE v

\* Mutant: only the lower case turns a signal off.
DisabledExactly(e) == {s \in Signals : Given(e.exporter[s], "otlp") = "none"}

Disabled(e) == {s \in Signals : Lower(Given(e.exporter[s], "otlp")) = "none"}

\* DeploymentTelemetryConfig.from_environment
from_environment(e) ==
  [endpoint |-> e.endpoint, protocol |-> Given(e.protocol, "grpc"),
   signals |-> Signals \ Disabled(e), batch |-> DefaultBatch,
   ratio |-> Given(e.ratio, 100), interval |-> Given(e.interval, DefaultInterval)]

\* EvidenceResources.from_environment, which raises for None.
EvidenceResources(e) ==
  IF \A table \in DOMAIN e.evidence : Proper(e.evidence[table]) THEN e.evidence ELSE None

-----------------------------------------------------------------------------
(* A start is a call of ObservabilityPluginFactory.create ("plugin") or of  *)
(* Observability ("direct"), which the application may install later.       *)

Identity(st, e) ==
  IF st.via = "plugin"
  THEN [name |-> e.service, version |-> e.version, place |-> e.place, attributes |-> <<>>]
  ELSE [name |-> st.name, version |-> st.version, place |-> Given(st.place, e.place),
        attributes |-> st.attributes]

Config(st, e) == IF st.deployment = None THEN from_environment(e) ELSE st.deployment

Unnamed(e) == None \in {e.service, e.version, e.place}

Malformed(st) == st.deployment # None /\ ~ValidConfig(st.deployment)

\* Mutant: create passes on that there are no resources to query.
RefusalOfResources(st, e) ==
  IF Malformed(st) \/ (st.via = "plugin" /\ (Unnamed(e) \/ EvidenceResources(e) = None))
  THEN "config"
  ELSE IF st.runtime = None THEN "runtime"
  ELSE IF ~ValidIdentity(Identity(st, e)) THEN "identity"
  ELSE IF ~ValidConfig(Config(st, e)) THEN "config"
  ELSE None

\* What is raised before anything is built: the first check that fails.  A
\* configuration of the caller's own is checked when the caller makes it.
Refusal(st, e) ==
  IF Malformed(st) \/ (st.via = "plugin" /\ Unnamed(e)) THEN "config"
  ELSE IF st.runtime = None THEN "runtime"
  ELSE IF ~ValidIdentity(Identity(st, e)) THEN "identity"
  ELSE IF ~ValidConfig(Config(st, e)) THEN "config"
  ELSE None

\* What a start becomes; the maker tells identical bundles apart.
BundleOf(c, st, e) ==
  [maker |-> c, config |-> Config(st, e), identity |-> Identity(st, e), runtime |-> st.runtime]

Bundles == {BundleOf(c, st, e) : c \in Creators, st \in Starts, e \in Environments}

ASSUME BundlesAssumption == None \notin Bundles

\* Mutant: the runtime that queries and traces belong to is left out.
FingerprintOfSettings(b) == <<b.config, b.identity>>

Fingerprint(b) == <<b.config, b.identity, b.runtime>>

Register == INSTANCE ProcessProvider WITH
  Callers <- Creators, Abandoning <- {}, Candidates <- Bundles, Nobody <- None,
  Mark <- [b \in Bundles |-> Fingerprint(b)]

-----------------------------------------------------------------------------
ConstructionInit ==
  /\ env \in Environments
  /\ start = [c \in Creators |-> None]
  /\ phase = [c \in Creators |-> "new"]
  /\ at = [c \in Creators |-> 1]
  /\ made = [c \in Creators |-> None]
  /\ opened = [c \in Creators |-> {}]
  /\ running = [c \in Creators |-> {}]
  /\ error = [c \in Creators |-> None]
  /\ Register!Init

Go(c, to) == phase' = [phase EXCEPT ![c] = to] /\ at' = [at EXCEPT ![c] = 1]

Raise(c, kind) == Go(c, "raised") /\ error' = [error EXCEPT ![c] = kind]

create(c, st) ==
  /\ phase[c] = "new"
  /\ start' = [start EXCEPT ![c] = st]
  /\ IF Refusal(st, env) = None THEN Go(c, "exporters") /\ UNCHANGED error
     ELSE Raise(c, Refusal(st, env))
  /\ UNCHANGED <<env, made, opened, running, registerVars>>

Settings(c) == Config(start[c], env)

Advance(c, steps, next) ==
  IF at[c] < Len(steps) THEN at' = [at EXCEPT ![c] = @ + 1] /\ UNCHANGED phase ELSE Go(c, next)

Exporters == <<"traces", "metrics", "logs">>

\* The default exporter of an enabled signal, unless one was injected.
MakeExporter(c) ==
  LET s == Exporters[at[c]]
      needed == s \in Settings(c).signals \ start[c].injected IN
  /\ phase[c] = "exporters"
  /\ \/ /\ opened' = IF needed THEN [opened EXCEPT ![c] = @ \cup {s}] ELSE opened
        /\ Advance(c, Exporters, "providers")
        /\ UNCHANGED error
     \/ needed /\ s \in Unreliable /\ Raise(c, "exporter") /\ UNCHANGED opened
  /\ UNCHANGED <<env, start, made, running, registerVars>>

\* The sampler, then the reader and the two processors: threads that run from
\* when they are made.
Providers == <<"sampler", "metrics", "traces", "logs">>

\* External: what the constructors of the SDK raise for.
SdkAccepts(part, config) ==
  CASE part = "sampler" -> config.ratio \in 0..100
    [] part = "metrics" -> config.interval > 0
    [] OTHER -> LET b == config.batch IN
                b.queue > 0 /\ b.delay > 0 /\ b.batch > 0 /\ b.batch <= b.queue

MakeProvider(c) ==
  LET part == Providers[at[c]]
      config == Settings(c)
      needed == part \in {"sampler"} \cup config.signals IN
  /\ phase[c] = "providers"
  /\ IF needed => SdkAccepts(part, config)
     THEN /\ running' = [running EXCEPT ![c] = @ \cup ({part} \cap config.signals)]
          /\ Advance(c, Providers, "built")
          /\ made' = IF at[c] = Len(Providers)
                     THEN [made EXCEPT ![c] = BundleOf(c, start[c], env)] ELSE made
          /\ UNCHANGED error
     ELSE Raise(c, "sdk") /\ UNCHANGED <<running, made>>
  /\ UNCHANGED <<env, start, opened, registerVars>>

\* create installs what it has made; an application may.
install(c) ==
  /\ phase[c] = "built"
  /\ Go(c, "installing")
  /\ Register!Ask(c, made[c])
  /\ UNCHANGED <<env, start, made, opened, running, error>>

\* The registry keeps the first bundle.
Keep(c) == Register!Claim(c) /\ UNCHANGED <<env, startVars>>

\* Mutant: the registry shuts down the bundle that it has.
StopInstalled(c) ==
  LET b == IF owner = None THEN made[c] ELSE owner IN
  /\ opened' = [opened EXCEPT ![b.maker] = {}]
  /\ running' = [running EXCEPT ![b.maker] = {}]

\* The registry shuts a bundle down before it answers.
Stop(c) ==
  /\ opened' = [opened EXCEPT ![c] = {}]
  /\ running' = [running EXCEPT ![c] = {}]

\* _bundle becomes the installed one, this or an identical one.
Granted(c) ==
  /\ Register!Grant(c)
  /\ made' = [made EXCEPT ![c] = owner]
  /\ IF owner = want[c] THEN UNCHANGED <<opened, running>> ELSE Stop(c)
  /\ Go(c, "ready")
  /\ UNCHANGED <<env, start, error>>

Refused(c) ==
  /\ Register!Refuse(c)
  /\ Stop(c)
  /\ Raise(c, "conflict")
  /\ UNCHANGED <<env, start, made>>

\* External: another library sets a provider.
Occupy == Register!Occupy /\ UNCHANGED <<env, startVars>>

ConstructionNext ==
  \/ \E c \in Creators :
       \/ \E st \in Starts : create(c, st)
       \/ MakeExporter(c)
       \/ MakeProvider(c)
       \/ install(c)
       \/ Keep(c) \/ Granted(c) \/ Refused(c)
  \/ Occupy

ConstructionSpec == ConstructionInit /\ [][ConstructionNext]_constructionVars

-----------------------------------------------------------------------------
Phases == {"new", "exporters", "providers", "built", "installing", "ready", "raised"}

ConstructionTypeOK ==
  /\ env \in Environments
  /\ start \in [Creators -> Starts \cup {None}]
  /\ phase \in [Creators -> Phases]
  /\ at \in [Creators -> 1..4]
  /\ made \in [Creators -> Bundles \cup {None}]
  /\ {opened, running} \subseteq [Creators -> SUBSET Signals]
  /\ error \in [Creators -> {None, "config", "runtime", "identity", "exporter", "conflict"}]
  /\ owner \in Bundles \cup {None} /\ occupied \in BOOLEAN
  /\ want \in [Creators -> Bundles \cup {None}]
  /\ got \in [Creators -> {Register!NoAnswer, Register!Conflict}
                          \cup {Register!Granted(b) : b \in Bundles}]

\* A start that raises leaves no pipeline running in the process.  What it may
\* leave open is exporters made before another one could not be made.
FailedStartIsQuiet ==
  \A c \in Creators : phase[c] = "raised" =>
    /\ running[c] = {}
    /\ opened[c] # {} => error[c] = "exporter"

\* What the deployment has asked to be exported: "values of `none` disable
\* that signal" (docs/configuration.md), in whatever case.
Exported(c) ==
  IF start[c].deployment # None THEN start[c].deployment.signals
  ELSE {s \in Signals : env.exporter[s] \notin {"none", "NONE"}}

\* A disabled signal never has an exporter or a pipeline, at any time; a
\* facade that was made and not told of another bundle exports all others.
OnlyEnabledExport ==
  \A c \in Creators :
    /\ start[c] # None => running[c] \cup opened[c] \subseteq Exported(c)
    /\ phase[c] \in {"built", "ready"} /\ made[c].maker = c => running[c] = Exported(c)

\* A facade that was installed writes to pipelines that run, and if they are
\* another start's, then its own are gone: the process exports once.
ReadyIsLive ==
  \A c \in Creators : phase[c] = "ready" =>
    /\ running[made[c].maker] = made[c].config.signals
    /\ made[c].maker # c => running[c] = {}

\* Whatever bundle a facade ends up with has the settings, the identity and
\* the runtime that its own start has asked for.
SharedMeansSame ==
  \A c \in Creators : phase[c] = "ready" =>
    /\ made[c].config = Settings(c)
    /\ made[c].identity = Identity(start[c], env)
    /\ made[c].runtime = start[c].runtime

\* Whatever caller and environment say, the four fields of the platform are the
\* identity's (docs/architecture.md:22: "Those fields cannot be overridden").
\* The SDK's name and version are hidden, and a denied key is there, only where
\* the environment says so, which nobody checks: never by a caller's attribute.
ResourceIsGoverned ==
  \A c \in Creators : running[c] # {} =>
    LET id == Identity(start[c], env)
        resource == Resource(id, env) IN
    /\ resource["service.name"] = id.name /\ resource["service.version"] = id.version
    /\ resource["deployment.environment.name"] = id.place
    /\ resource["meridian.sdk.version"] = "meridian"
    /\ \A k \in Sdk : resource[k] = IF k \in DOMAIN env.resource THEN env.resource[k] ELSE "sdk"
    /\ DOMAIN resource \cap DeniedKeys \subseteq DOMAIN env.resource

InOrder(c) ==
  /\ start[c].runtime # None
  /\ ValidIdentity(Identity(start[c], env)) /\ ValidConfig(Settings(c))

\* A start whose settings are in order raises only because an exporter cannot
\* be made, or because the process belongs to somebody else: no constructor of
\* the SDK refuses what was let pass, and no resources to query are needed.
RaisesForCause ==
  \A c \in Creators : phase[c] = "raised" =>
    /\ InOrder(c) => error[c] \in {"exporter", "conflict"}
    /\ error[c] = "exporter" => Unreliable \cap Exported(c) # {}
    /\ error[c] = "conflict" =>
         \/ occupied
         \/ <<owner.config, owner.identity, owner.runtime>> #
              <<Settings(c), Identity(start[c], env), start[c].runtime>>

-----------------------------------------------------------------------------
(* The inductive invariant: what is known of a start at each phase.         *)

Passed(c) == start[c] \in Starts /\ Refusal(start[c], env) = None

\* The bundle that c makes.
Mine(c) == BundleOf(c, start[c], env)

\* The checks are passed, and what is made is for what is enabled.
KnowsSettings(c) ==
  /\ phase[c] = "new" <=> start[c] = None
  /\ phase[c] = "new" => opened[c] = {}
  /\ phase[c] \notin {"new", "raised"} =>
       Passed(c) /\ opened[c] \subseteq Settings(c).signals

\* The pipelines up to the next provider run.
KnowsPipelines(c) ==
  /\ phase[c] \in {"new", "exporters"} => running[c] = {}
  /\ phase[c] = "exporters" => at[c] \in 1..3
  /\ phase[c] = "providers" =>
       running[c] = {Providers[i] : i \in 1..(at[c] - 1)} \cap Settings(c).signals
  /\ phase[c] \in {"built", "installing"} =>
       running[c] = Settings(c).signals /\ made[c] = Mine(c)

\* c has asked the registry when its bundle was made, and is bound by the answer.
KnowsRegister(c) ==
  /\ phase[c] = "installing" => want[c] = Mine(c) /\ got[c] = Register!NoAnswer
  /\ phase[c] # "installing" => want[c] = None \/ got[c] # Register!NoAnswer
  /\ phase[c] \notin {"installing", "ready", "raised"} =>
       want[c] = None /\ got[c] = Register!NoAnswer
  /\ phase[c] = "ready" =>
       /\ owner # None /\ made[c] = owner /\ Fingerprint(owner) = Fingerprint(Mine(c))
       /\ owner = Mine(c) \/ (running[c] = {} /\ opened[c] = {})

\* A start that has raised has stopped what it made, and had a cause.
KnowsCause(c) ==
  phase[c] = "raised" =>
    /\ start[c] \in Starts /\ running[c] = {}
    /\ \/ error[c] \in {"config", "runtime", "identity"} /\ opened[c] = {}
         /\ Refusal(start[c], env) = error[c]
       \/ error[c] = "exporter" /\ Passed(c) /\ opened[c] \subseteq Settings(c).signals
         /\ Unreliable \cap Settings(c).signals # {}
       \/ error[c] = "conflict" /\ Passed(c) /\ opened[c] = {}
         /\ (occupied \/ (owner # None /\ Fingerprint(owner) # Fingerprint(Mine(c))))

\* The installed bundle was made by a start that goes on, and runs as a whole.
OwnerRuns ==
  owner # None =>
    \E c \in Creators :
      /\ phase[c] \in {"installing", "ready"}
      /\ owner = Mine(c) /\ running[c] = Settings(c).signals

Knows(c) == KnowsSettings(c) /\ KnowsPipelines(c) /\ KnowsRegister(c) /\ KnowsCause(c)

ConstructionInv == ConstructionTypeOK /\ OwnerRuns /\ \A c \in Creators : Knows(c)

=============================================================================
