# A formal model of the Meridian observability plugin

TLA+ modules, TLC runs and TLAPS proofs about the Python package
`meridian_storage.plugins.observability`. Paths below are relative to
`src/src/meridian_storage/plugins/observability/` unless they start with `src/`.

## 1. The system

The plugin gives an application traces, metrics and logs on top of the
OpenTelemetry SDK, and queries over telemetry that was stored. An application
creates an `Observability` facade per Meridian client. Each facade builds a
*bundle* of three SDK providers. Facades may compete to become the provider of
the whole process, because the OpenTelemetry API has one provider per signal.

| component | code | state it keeps | operations | talks to |
|---|---|---|---|---|
| Provider bundle | `providers/factory.py` | three SDK providers, `_shutdown_report` | `force_flush`, `shutdown` | SDK providers |
| Global registry | `providers/global_registry.py` | `_lock`, `_installation`; the API's globals | `install_global_provider_bundle` | bundles (shuts losers down), API globals |
| Facade | `plugin.py` | `_bundle`, `_global`, `_meters` and its lock | `install_global_otel_provider`, `meter`, `tracer`, `logger`, `force_flush`, `close` | registry, bundle |
| Instruments | `instruments/metrics.py`, `instruments/packs.py`, `CardinalityGuard` in `policy.py` | `_definitions` of a meter, `_series` of a guard, a lock each | `create_*`, packs, `add`, `record`, `set` | SDK meter, context, suppression |
| Suppression | `providers/suppression.py` | a depth per context | `suppress_instrumentation`, three exporter wrappers | exporters; read by instruments, tracer, logger |
| Tracing | `instruments/tracing.py` | none of its own; spans of the SDK | `start_span`, `start_as_current_span`, span methods | SDK tracer, policy, context |
| Logging | `instruments/logging.py` | none | `emit` and its shorthands | SDK logger, policy, context |
| Context | `context/propagation.py` | none (reads context variables) | `correlation_attributes` | Meridian context, baggage, span |
| Policy | `policy.py` | none | `sanitize_attributes`, `sanitize_body`, definitions | - |
| Configuration | `config.py` | immutable values | validation, reading the environment | construction |
| Construction | `build_provider_bundle`, `Observability.__init__`, `ObservabilityPluginFactory.create` | none of its own; threads of the SDK's readers and processors | building and installing a bundle | configuration, SDK, registry |
| Queries | `query/helpers.py` | immutable queries; the caller's cursor | predicates, plans, pages, reductions | Meridian executor |
| Errors, manifest, scripts | `errors.py`, `plugin.py`, `src/scripts` | none | - | - |

What is hard. `force_flush` and `shutdown` of a bundle take no lock, and any
number of threads, or two facades that share a bundle, may be inside them.
The registry holds its lock while it flushes and shuts a whole bundle down, and
its lock cannot keep other libraries away from the API's globals. Facades
assign what the registry answers in two steps and cache meters that outlive
their bundle. A guard's lock ends before the SDK is called, and a meter's lock
before the SDK makes the instrument. `KeyboardInterrupt` can leave any of these
in the middle, since the code catches `Exception` only. Construction starts
threads of the SDK one after the other and may raise between them. A caller of
queries goes on from page to page while telemetry arrives. Nothing is persisted
and no messages are exchanged: there is no crash recovery to model.

What makes each component correct:

* bundle: flushing comes before shutting down; a report says what happened; a
  closed bundle is left alone once racing calls have drained; calls return;
* registry: providers of two bundles are never mixed; one bundle wins; every
  other one is shut down before its caller is told; the winner never is;
* facade: `is_global` is claimed of the installed bundle only; a strict close
  that returns was clean; nobody is left with a bundle that an installation has
  shut down without having heard of it;
* instruments: one guard per name; the SDK never gets more series than were
  declared; a refusal is final; a rejected call costs nothing, but for the slot
  that a negative amount of a histogram takes;
* suppression: telemetry made while exporting is dropped, and the depth is
  restored; tracing: an exception that leaves a span shows on it, spans end, and
  the innermost one is current;
* policy and context: exactly what is within the bounds passes; in a record, a
  point and a span that starts, the context's attributes win over the caller's,
  but nothing protects them on a live span from `set_attribute`; and nothing else of
  the context leaves;
* construction: a start that raises leaves nothing running, a disabled signal
  never runs, and who shares a bundle has asked for the same settings;
* queries: what may be executed is bounded, a plan means what its expression
  means, paging neither misses nor repeats, reductions agree with their
  definitions.

The hazards, each at its line and with the properties that cover it, are listed
in `PROJECT.json` under `hazards`; the ones without a property say why.

## 2. The modules

`GlobalRegistry` extends `ProviderBundle`, and `Observability` extends
`GlobalRegistry`: a state of the process has the variables of all three, and a
step of a facade is a step of the registry or of a bundle where the code makes
that call. `ProcessProvider` is the abstract specification of the registry.
`Instruments`, `Telemetry` and `Records` stand beside it: meters, tracers and
loggers share nothing with the lifecycle but the SDK objects they are bound to,
and with each other only whether they are suppressed. `Construction` instantiates
`ProcessProvider` for the place where starts meet, which `GlobalRegistry`
implements. `Records` extends `Policy`, `Bodies` extends `Records` with the walk that
decides which bodies it refuses, and `Queries` extends `Reductions`.

**`ProviderBundle`**. `call[t]` is the stack frame of a thread inside
`force_flush` or `shutdown`, with the flags it has collected; `at` is the next
step: the nested `force_flush` (0), the flushes in order (1-3), the shutdowns
in reverse order (4-6), the assignment of `_shutdown_report` (7), its return
(8). `report[b]` is `_shutdown_report`. `flushes` and `shutdowns` are history:
the outcomes the SDK calls have had. A second look at the report in
`force_flush` and the check in `shutdown` are their own steps, which is where
calls overlap. `_safe_bool` and `_safe_shutdown` turn exceptions into `False`,
so that an SDK call has two outcomes; `Interrupt` is what they do not catch.

**`GlobalRegistry`**. A thread is one call of `install_global_provider_bundle`.
`reg[t].pc` follows its lines: wait for the lock, check the installation, look
at the three globals one at a time, set them one at a time, record; or discard
the bundle (the steps of `ProviderBundle` with the lock held) and release.
`SetForeign` is another library setting a global; `SetOnce` is the API, which
drops a second provider without an error. `InterruptInstall` leaves the call
anywhere, and nothing is rolled back, as in the code.

**`ProcessProvider`**. The registry's docstring as a specification: a register
that is written once, by a caller that asked for it; callers with the same
fingerprint get its owner, others a conflict.

**`Observability`**. Facade `f` starts with bundle `f`. `bundle`, `isGlobal`
and `meters` are `_bundle`, `_global` and `_meters` (a cached meter is the
bundle it is bound to). `fac[t]` is the method a thread is inside of; the two
assignments of `install_global_otel_provider` are two steps. `ended` is history: the
bundles that `close` was ever called of.

**`Instruments`**. `declared[m]` is `_definitions` of a meter and `series[g]`
is `_series` of a guard; a guard is named by the entry it was made for. A
create is two steps per instrument: `_register`, under the meter's lock, and
the SDK's call outside of it; a pack is a plan of several. A measurement is
checked, admitted by the guard, and added by the SDK, in three steps. `sdk` is
what the SDK has: its counters and histograms drop a negative amount (`SdkTakes`),
but only the counters of the plugin refuse one before the guard is asked. The
attribute rules are data: which attributes a definition
accepts, and which contexts are rejected.

**`Telemetry`**. `depth[t]` is `_suppression_depth` and `current[t]` the current
span in the context of a thread or asyncio task. `blocks[t]` is the stack of
what the task is inside of: blocks of `start_as_current_span` (a "null" one where
it is suppressed), of `suppress_instrumentation`, and calls of exporters through
their wrappers. A block keeps what it restores, as the tokens in the code do.
An exception (`raising`) leaves the blocks one at a time, and the application may
handle it between two of them. `record_exception` is two steps, the event and
the status. `StartTask` starts another task with a copy of the context, and
`StartThread` a thread with an empty one. Spans follow the SDK: an ended one
takes no more changes, and OK is a last status. `work` and `ends` of a span are
history. What a thread does that an exporter has started is "outside" work: no
guard in a context reaches it, and the model does not pretend one does.

**`Policy`**. `sanitize_attributes` is a predicate on a function from names to
values. Strings are told apart by where they may stand, not by their characters,
and a key is denied or not.

**`Records`**. One call at a time, in a context: `Correlation` is
`correlation_attributes`, `Attributes` the `dict.update`s of the three places
that merge it with the call's own attributes (`Over`), `Raises` the checks, whose
order matters to no property since none changes state. A context has ids, a scope,
baggage, a valid span or none, and may be suppressed. A name is a prefix and a
key, since a prefixed key is denied where the key is. `live` is the span that was
started last: the context it was started in and its attributes, which
`SetAttribute` changes wherever the application has gone since, until `EndSpan`. The
SDK keeps `MaxSpan` (128) attributes and drops the oldest one for a new one; the
model leaves open which one that is. An event (`AddEvent`) has attributes of its
own. `given`, `set` and `lost` of a span are history. Which bodies are refused is a
parameter of this module, `Refused`.

**`Bodies`**. `sanitize_body` is the walk of the code, in its order: a mapping is
counted (`Enter`) before its entries are looked at, the counter is shared by all
mappings, and the walk stops at the first thing that it refuses. `seen` is
history. `Nodes` and `Fits` say what should pass without walking.
`BodiesAssumption` ties `Refused` to the walk.

**`Construction`**. `create` is `ObservabilityPluginFactory.create` or
`Observability(...)` up to its last check; `MakeExporter` and `MakeProvider` are
the steps of `build_provider_bundle` in its order, `at` the next one; `running`
are the signals whose reader or processor has a thread, `opened` those whose
exporter was made here. `made` is `_bundle`. `Resource` is `Resource.create`: the
identity's attributes replace those of `OTEL_RESOURCE_ATTRIBUTES` (`resource` of an
environment), which nobody checks, and these the SDK's own. Numbers that the
environment gives as text, an empty one included, may be no number (`Text`) or `NaN`.

**`Queries`**. `query` is the `TelemetryQuery` the caller holds. The helpers build
one; what they refuse raises and changes nothing, so it is no step. `page` and
`selecting` replace it, `execute` reads a page of the store, in which records
arrive at any time. `asked`, `read` and `begun` are history: the question in the
caller's words, the records of the pages so far, and what was stored at the first
page. The store honours predicate, order and cursor, refuses a cursor of another
plan, and may return one item too many. `NoQuery`, `NoResult` and `NoCursor` are
Python's `None`, as records with the fields of the others. `Reductions` has what is
made of a page, in integers and fractions, and the definitions it is compared with.
It keeps a list of values as a function from the places that they have on the page,
and `Sorted` says by counting which of them comes at which place in the order
(equal values in the order of the page, as Python's stable sort has it); the rows
of a query are sorted by it as well.

Every module with actions, but for the abstract `ProcessProvider`, has a module
`...Proofs` beside it with its theorems; the `MC` modules give the constants their
values.

## 3. The runs

| run | configuration | what it shows |
|---|---|---|
| `bundle_race` | 2 threads (1 interruptible), 1 bundle, logs exporter may fail | `FlushBeforeShutdown`, `ReportHonest`, `CloseIsFinal`, `CallReturns` |
| `registry_contention` | 2 threads (one interruptible, the other also flushes and closes), 3 bundles, 2 of them identical; the meter provider may be set by others at any time | `GlobalsNeverMixed`, `LosersAreClosed`, `InstalledIsSpared`, refinement of `ProcessProvider`, `InstallReturns` |
| `registry_late_foreign` | 2 threads, a logger provider set before and a foreign set at any time | **finding**: a set between the look and the set is lost, and the installation is recorded all the same |
| `facades_share` | 2 threads (one interruptible, the other also flushes and closes) install 2 identical facades, a late foreign meter provider | `GlobalFlagHonest`, `DeathsAreHeard` |
| `facades_close` | 2 threads close one facade, failing logs exporter | `StrictCloseHonest` |
| `facades_meters` | as `facades_share` | **finding**: a meter asked for before the installation stays on the bundle that was shut down |
| `instruments_race` | 2 threads (1 interruptible), 1 meter, 2 names, a pack, clashing, invalid and unsupported definitions, limits 1 and 2, 3 x 2 series | `SharedGuard`, `BudgetKept`, `RefusedForGood`, `NoSlotWasted`, and the inductive `InstrumentsInv` with the type |
| `instruments_shared_scope` | 2 meters on one SDK meter | **finding**: two guards count for one SDK instrument |
| `telemetry_tasks` | 2 tasks, the second one started by the first, 2 spans, blocks 2 deep in the first, 1 in the second | `DepthIsNesting`, `CurrentIsInnermost`, `NothingFeedsBack`, `SpansGetEnded`, `FailureShows` |
| `records` | 2 policies, 20 contexts, 40 calls with plain bodies and 113 bodies around bounds of 2 to 10, a live span with at most 14 attributes | `BodyPassesIffFits`, `WorkIsBounded`, `CorrelationWins`, `NothingElseLeaves`, `SilencedByContext` |
| `construction` | 2 starts, each in 16 ways, 18 environments, the metrics exporter may fail, somebody else may own the process | `FailedStartIsQuiet`, `OnlyEnabledExport`, `ReadyIsLive`, `SharedMeansSame`, `ResourceIsGoverned`, `RaisesForCause` |
| `queries` | 10 records, 2 of which arrive late, 11 predicates, pages of 1 to 3 | `PlanMeansExpression`, `AnswersAreAsked`, `ReadOnce`, `GroupsAddUp`, `DeltaIsRate`, `QuantilesAreOrdered`, `HealthIsWhole` |

The types of the variables are proved (section 5), and so no run lists a type
alone: each spends its time on what could go wrong.

Why the bounds are enough to be interesting. Two threads are enough for every
overlap of two calls; in the registry's runs each installs once, any of the
bundles. Two identical bundles and a different one give
all three answers of the registry. One failing signal and one that is disabled
give all outcomes of an SDK call. In the registry's runs and in `facades_share`
no signal is enabled, since the outcomes of SDK calls are `bundle_race`'s
question and multiply the states. Limits of 1 and 2 with up to six series make
guards full, refuse and readmit; a name is declared alike, differently, alone
and inside of a pack. No counter in the models grows: histories are sets of
outcomes, a thread installs once, and series are finite. In `Telemetry`, the one
bound is `MaxBlocks`: two blocks put one span inside of another or around an
exporter, and a suppressed block inside of that, and the second task starts
inside of them; a span is started once. Spans are interchangeable there, and the
one symmetry set (all its properties are safety); no other run has any.

In `records` the bounds of the policy are scaled down (3 levels, 2 entries, 5 in
all, arrays of 2, 10 bytes) such that each, the bytes included, refuses some body
that keeps all the others. Bodies are wide, deep and nested side by side. The
relations of the code's bounds are kept: two allowlists and four names
fit in the attributes of a record (`BoundsAssumption`, 52 of 64 in the code), but
not in those of a metric point (48 and 32), and a span has room for what it is
started with (114 of 128). A span of the run starts with up to 14 attributes,
`MaxSpan`, and the next one that is set drops one. In `construction` a setting
differs from good ones in one place or two; both starts read one environment. In
`queries` the order of observation is not the order of starts and ends, there are
ties, missing fields and values, and more metric points (4) than the largest page
(3); the percentile is 60. Points without a latency are among them, and a snapshot
that is whole has up to two latencies, of which it takes the larger one
(`latency_p95` of a list in the wrong order, or of the wrong rank, shows there);
`SnapshotsAreWhole` is for any number of them.

Deadlock is checked in every run but two: in `construction` every start comes to
its end, and in `queries` a caller has read its snapshot and all has arrived.

The three runs that are expected to fail record disagreements between the code
and what its docs or tests say, quoted in `PROJECT.json` under `findings`.

## 4. Fairness

Weak fairness of the steps of a thread that is inside a call (`CallStep`,
`InstallStep`), and of nothing else: no thread has to call anything, be interrupted,
or see a foreign provider. A thread inside a call keeps running, because the
interpreter schedules it and each SDK call has a timeout. Weak fairness suffices for
the registry's lock, though a lock may be taken by others again and again, because a
thread installs once: there are finitely many installations, each gives the lock
back, and from then on a waiting thread can go on at every moment. The other modules
have no liveness: a facade adds nothing to wait for to the calls of the registry and
the bundle, the calls of instruments take locks for one step at most and wait for
nothing, tracers, loggers and queries take none, and a start waits for the registry
only, whose liveness is `InstallReturns`.

## 5. What is proved

Every safety invariant and action property of a passing run is proved, but for
the two of section 6. The theorems hold for any set of threads, bundles, signals
enabled, failing exporters and foreign libraries, for any tasks, spans, starts,
records and calls, under the assumptions named in the modules. TLC evaluates those
in every run. `BundleAssumption` and `RegistryAssumption` say that the special values
differ from the others and that sets are subsets of what they should be. Each proof
has the same shape: an inductive invariant `...Inv`, one lemma per part of it and
step, and the properties as consequences.

* `ProviderBundleProofs`: `BundleTypeOK`, `FlushBeforeShutdown`,
  `ReportHonest` and the action property `CloseIsFinal`. The properties speak
  of published reports only, so the inductive invariant `BundleInv` adds
  `FramesHonest`: each flag in a frame, up to its present step, is an outcome
  in the history of its bundle. History only grows (`OutcomesGrow`), so that
  other threads keep it true, and each step adds the one flag it needs.
* `GlobalRegistryProofs`: `RegistryTypeOK`, `GlobalsNeverMixed`,
  `LosersAreClosed`, `InstalledIsSpared`; `InstalledIsGlobal` where nobody sets
  providers late; and that the registry implements `ProcessProvider`. The
  invariant `RegistryInv` says what a thread *knows* at each step: nothing is
  installed, the globals up to `at` are as they were seen or set
  (`KnowsProviders`), its verdict is right (`KnowsVerdict`), its shutdown is
  under way or has left a report (`KnowsShutdown`). `LockHeld` makes the thread
  in the lock unique (`Alone`), so that what it knows is disturbed by nobody
  but foreign libraries, which `Displaced` allows for. Every registry step is a
  step or a stutter of `BundleNext` (`BundlesStep`), so that `BundleInv` comes
  along. The refinement maps `Record` to the claim of the register, `Release`
  and the interrupt to the reply, and all other steps to stutters.

* `InstrumentsProofs`: `InstrumentsTypeOK`, `SharedGuard`, `RefusedForGood`, and
  `BudgetKept` where no two meters share an SDK meter (`Scope` is injective;
  `instruments_shared_scope` shows what happens otherwise). The assumption
  `InstrumentsAssumption` gives limits, plans and accepted attributes their
  types. None of the properties is inductive: what a call uses two steps later
  was put there by other threads. `InstrumentsInv` adds that a name has one entry
  in its meter and a guard one entry (`OneEntry`), that whatever a call or a
  caller has in hand was declared (`AllDeclared`; entries are never removed),
  that guards are within their limit (`WithinLimit`), and that a series on its
  way to the SDK, or there, was admitted by a guard (`Admitted`). An SDK
  instrument with one guard then has a subset of its guard's series. The action
  property `NoSlotWasted` needs one part more, `OnlyMeasured`: an amount that
  `_measurement` refuses does not get as far as the guard. A slot is taken by `Admit`
  only, and a guard is that of one entry, so the slot's series is on its way to
  the right SDK instrument, which takes it unless the call is interrupted or the
  amount is the negative one of a histogram: the code lets it pass and the SDK
  drops it, and so it wastes a slot.

* `ObservabilityProofs`: `ObservabilityTypeOK`, `GlobalFlagHonest`, `DeathsAreHeard`
  and `StrictCloseHonest`. A step of the process is a step of the registry or leaves
  it alone (`FacadesUseTheRegistry`), so that `RegistryInv`, the refinement of
  `ProcessProvider` and `CloseIsFinal` hold of processes with facades as well
  (`FacadesShareARegister`, `FacadesCloseForGood`). `ObservabilityInv` adds that an
  answer of the registry is the installed bundle (`AnswersInstalled`), that it is
  still so between the two assignments of a facade (`KnowsInstalled`, `FlagKept`),
  and that a close has a shutdown of its own facade's bundle under way or the report
  of one (`KnowsClose`), backed by outcomes in the history. `DeathInv` is for
  `DeathsAreHeard`. Who shuts a bundle down closes it or discards it in an
  installation (`KnowsWhy`), a bundle that died unclosed has lost one (`Lost`), and
  what it lost to, another bundle or a foreign provider, stays in the process, so
  that it is never installed later (`Barred`); the thread that installed it has
  heard, or its facade has the winner by now (`KnowsLoss`). The assumption
  `MetersAssumption` says that there is a name of a meter.

* `TelemetryProofs`: `TelemetryTypeOK` and all five properties of its run, among
  them the action property `FailureShows`. Depth and current span are restored from
  tokens in the blocks, so `TelemetryInv` says of each block what it restores: the
  nesting of the blocks below it (`RestoresNesting`). `NotesFailure` follows an
  exception through the two steps of `record_exception`, between which other tasks
  may touch the span; `EndsInBlock` keeps the block that is to end a live span in
  somebody's stack; `StartsSuppressed` is what a task started by an exporter
  inherits. Assumed are a bound for each task, and that `None` is no span.

* `ConstructionProofs`: all six properties of its run. `ConstructionInv` says for
  each phase of a start which checks have passed (`KnowsSettings`), which pipelines
  run (`KnowsPipelines`: those up to the next provider), what the registry has been
  asked and has answered (`KnowsRegister`), and why a start that raised did
  (`KnowsCause`); `OwnerRuns` ties the installed bundle to a start that has not
  raised. `ConstructionAssumption` has that a denied attribute key is none that the
  plugin sets itself (`is_denied_key` of the names in `config.py`), and that the
  code's limits are natural numbers.

* `QueriesProofs`: all seven properties of its run, for any finite store and
  whatever arrives between pages. `QueriesInv` says that the plan of a
  query means what its caller asked (`SaysWanted`), that what has been read is in
  order and complete up to its last record (`InOrderSoFar`), and that the cursor
  stands there (`GoesOn`, `PageWanted`). The rows of a page are sorted because each
  record's place is the number of records before it: two records in the wrong
  places would count each other, which needs no induction. `StoreAssumption` says
  what every stored record has (a table, a time of observation, the time its table
  is ordered by), `DimensionsAssumption` that the prefix of a dimension's field
  keeps names apart, and `PointsAssumption` that a point's value is a number or
  missing.

  For the reductions, `PageInv` adds that a page is in the promised order, and that
  the page of a snapshot is the first and only one and either has all that was
  stored or is full: `DeltaIsRate` rests on the first, `HealthIsWhole` on the
  second. The lemmas about reductions hold for any list of items (`Reducible`). Sums
  are folds over finite sets, whose lemmas (`SumMoves`, `SumOfParts`, `SumBetween`)
  are induced over subsets: `SubsetInduction` takes a set of good subsets where the
  library's theorem takes a predicate. `SumOfParts` gives `GroupsAddUp`. A sorted
  list has at each place a value that so many others are below (`AscendingIsOrdered`),
  which determines it whatever order the values came in (`AscendingMoves`):
  hence `QuantilesAreOrdered`, in which a quantile by quarters divides the gap
  between two values that are neighbours in the order exactly as its position does
  (`IsQuantile`), for a page and its reverse, and in `HealthIsWhole` the
  step from the latencies by place on the page to the latencies by record.
  `PercentAssumption` says that the percentile is between 1 and 100.

* `RecordsProofs`: `CorrelationWins`, `NothingElseLeaves` and `SilencedByContext`,
  whatever bodies are refused. `RecordsInv` is that allowlists are valid and that an
  answer is the one of the call's context. The parts of `Correlation` have different
  prefixes, and so none hides another (`CorrelationParts`), which makes records and
  spans that start carry the context (`AttributesCarry`). `SpanKept` says the same
  of the live span but for what was set on it and what the SDK has dropped, each
  setting being one exception more (`StartKeeps`, `SetKeeps`). The names that two
  allowlists and the code itself come to are counted (`NamesAreFew`), so that of all
  the checks only a value or the bound of a metric point can fail.
  `BoundsAssumption` has the relations of the code's bounds, that of the SDK's for
  spans included, and that the names which the code adds itself are not denied;
  `RecordsAssumption` that ids are strings, long or short, and that `set_attribute`
  has one attribute.

## 6. What is only model-checked

* Liveness (`CallReturns`, `InstallReturns`): `ENABLED` and fairness are out of the
  prover's reach.
* `BodyPassesIffFits` and `WorkIsBounded`: bodies are nested, the walk and the set
  of nodes are recursive, and what they compute for every body is an induction over
  it. `Bodies` holds the recursive operators, so that `Records` can be proved about
  for any answer of the walk.

## 7. Not modelled, and the plan

Not modelled: what the SDK does inside its calls beyond their outcome
(batching, retries, networking); formatting and wording (the URL of a signal, the
text of timestamps, JSON); what makes a string a good name, key, unit or
endpoint, which is a set of values here; floating-point rounding in reductions;
an interrupt in the middle of a construction, which leaves its threads behind; the
factory's manifest, the error classes and the release scripts. Two hazards
have no property because the code promises nothing there: a closed bundle stays
installed and shared, and a name is taken even if the SDK refuses to make its
instrument. Two racing closes also replace
a report that one of them has returned; no lock prevents it, and the reports stay
honest (`ReportHonest`).

Next, in this order:

1. The exporters of `Telemetry` composed with the flushes of `ProviderBundle`.
2. The refinement of an abstract guard (a set that grows up to its limit) by
   `Instruments`, beside `BudgetKept`.
