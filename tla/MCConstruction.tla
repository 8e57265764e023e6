---------------------------- MODULE MCConstruction ---------------------------
(* Construction with two starts, on settings that differ from good ones in   *)
(* one or two places.                                                        *)
EXTENDS Construction, TLC

CONSTANTS c1, c2, Text, NaN

MCBatch == [queue |-> 4, batch |-> 2, delay |-> 1, timeout |-> 2]

MCGood ==
  [service |-> "shop", version |-> "1", place |-> "test", endpoint |-> "collector",
   protocol |-> None, exporter |-> [s \in Signals |-> None], ratio |-> None,
   interval |-> None, evidence |-> [table \in Signals |-> "evidence"], resource |-> <<>>]

MCOff(S, off) == [s \in Signals |-> IF s \in S THEN off ELSE "otlp"]

MCEnvironments ==
  {MCGood,
   [MCGood EXCEPT !.service = None], [MCGood EXCEPT !.version = Improper],
   [MCGood EXCEPT !.place = None, !.endpoint = Improper],
   [MCGood EXCEPT !.protocol = "http/protobuf", !.ratio = 50, !.interval = 2],
   [MCGood EXCEPT !.protocol = Improper], [MCGood EXCEPT !.endpoint = None],
   [MCGood EXCEPT !.exporter = MCOff({"metrics"}, "none")],
   [MCGood EXCEPT !.exporter = MCOff({"traces", "logs"}, "NONE")],
   [MCGood EXCEPT !.exporter = MCOff(Signals, "none")],
   [MCGood EXCEPT !.ratio = 101], [MCGood EXCEPT !.ratio = NaN],
   [MCGood EXCEPT !.ratio = Text], [MCGood EXCEPT !.interval = 0],
   [MCGood EXCEPT !.interval = 6], [MCGood EXCEPT !.interval = Text],
   [MCGood EXCEPT !.evidence["logs"] = None, !.exporter["logs"] = "none"],
   [MCGood EXCEPT !.evidence["metrics"] = Improper],
   [MCGood EXCEPT !.resource = "telemetry.sdk.name" :> "theirs" @@ "service.name" :> "theirs"],
   [MCGood EXCEPT !.resource = "password" :> "theirs" @@ "meridian.sdk.version" :> "theirs"]}

MCPlugin(runtime) ==
  [via |-> "plugin", runtime |-> runtime, name |-> None, version |-> None, place |-> None,
   attributes |-> <<>>, deployment |-> None, injected |-> {}]

MCDirect ==
  [via |-> "direct", runtime |-> "r1", name |-> "shop", version |-> "1", place |-> None,
   attributes |-> <<>>, deployment |-> None, injected |-> {}]

MCConfig(signals, batch) ==
  [endpoint |-> "collector", protocol |-> "grpc", signals |-> signals, batch |-> batch,
   ratio |-> 100, interval |-> 3]

MCAttributes == {("team" :> "a"), ("team" :> Improper), ("password" :> "a"), ("a b" :> "a"),
                 ("telemetry.sdk.name" :> "mine"), ("team" :> "a" @@ "floor" :> "1")}

MCStarts ==
  {MCPlugin("r1"), MCPlugin("r2"), MCPlugin(None), MCDirect,
   [MCDirect EXCEPT !.place = "live", !.injected = {"traces"}],
   [MCDirect EXCEPT !.deployment = MCConfig(Signals, MCBatch)],
   [MCDirect EXCEPT !.deployment = MCConfig({"metrics", "logs"}, [MCBatch EXCEPT !.batch = 4]),
                    !.injected = {"traces", "logs"}],
   [MCDirect EXCEPT !.deployment = MCConfig(Signals, [MCBatch EXCEPT !.batch = 5])],
   [MCDirect EXCEPT !.deployment = MCConfig(Signals, [MCBatch EXCEPT !.delay = 0])],
   [MCDirect EXCEPT !.deployment = MCConfig({}, MCBatch)]}
  \cup {[MCDirect EXCEPT !.attributes = a] : a \in MCAttributes}

MCAttributeKeys == {"team", "floor", "password", "telemetry.sdk.name"}

=============================================================================
