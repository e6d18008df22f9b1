------------------------------- MODULE Facade -------------------------------
(***************************************************************************)
(* The two builders of src/builder.rs and what they start.  A caller has a *)
(* builder in its hands, sets it up call by call in any order, compiles    *)
(* and starts; the builder is consumed.  RuntimeEngine::start then has a   *)
(* task per pipeline build its stages from the factory that was set.       *)
(***************************************************************************)
EXTENDS Adapters

CONSTANTS Scenarios,   \* a host, a caller's manifests and probes, and its builder
          Variable     \* names of overlay variables a caller may define

ASSUME FacadeConstants ==
  \A s \in Scenarios :
    /\ s.host \in Host /\ s.api \in {"pipeline", "runtime"}
    /\ s.manifests \subseteq CamlManifest /\ s.probes \subseteq CapabilityProbe

VARIABLES
  host,       \* the host the program runs on
  caller,     \* the manifests and probes the caller has, and the builder it uses
  builder,    \* the builder in the caller's hands
  result,     \* what the last compile or start returned
  engine,     \* the running engine, an option
  built       \* what building each pipeline of the engine has come to

facadeVars == <<host, caller, builder, result, engine, built>>

NoBuilder ==
  [kind |-> "none", manifest |-> <<>>, compiled |-> <<>>, probe |-> <<>>, provider |-> FALSE,
   native |-> FALSE, tracks |-> {}, variables |-> {}, factory |-> <<>>]

FacadeInit ==
  /\ \E s \in Scenarios :
       host = s.host /\ caller = [api |-> s.api, manifests |-> s.manifests, probes |-> s.probes]
  /\ builder = NoBuilder
  /\ result = "ok" /\ engine = <<>> /\ built = <<>>

Has(feature) == feature \in host.features
Holds(kind) == builder.kind = kind
Sets(new) == builder' = new /\ UNCHANGED <<host, caller, result, engine, built>>
-----------------------------------------------------------------------------
(* CamlPipeline::from_manifest_str validates; a RuntimeBuilder takes a     *)
(* manifest as it is, or a graph the caller compiled without a probe.      *)
FromManifestStr(m) ==
  /\ Holds("none") /\ engine = <<>> /\ caller.api = "pipeline"
  /\ IF Valid(m)
     THEN builder' = [NoBuilder EXCEPT !.kind = "pipeline", !.manifest = <<m>>] /\ result' = "ok"
     ELSE result' = "Manifest" /\ UNCHANGED builder
  /\ UNCHANGED <<host, caller, engine, built>>

NewRuntimeBuilder ==
  /\ Holds("none") /\ engine = <<>> /\ caller.api = "runtime"
  /\ Sets([NoBuilder EXCEPT !.kind = "runtime"])

WithManifest(m) == Holds("runtime") /\ Sets([builder EXCEPT !.manifest = <<m>>])

WithCompiledGraph(m) ==
  LET unchecked == CompileInternal(m, <<>>, {}) IN
  /\ Holds("runtime") /\ unchecked.error = "ok"
  /\ Sets([builder EXCEPT !.compiled = <<[graph |-> unchecked.graph[1], route |-> "unchecked"]>>])

(* The calls both builders have.  The last probe set is the one asked; a   *)
(* RuntimeBuilder without any feature has none of the features' probes.    *)
WithCapabilityProbe(probe) ==
  /\ ~Holds("none")
  /\ Sets([builder EXCEPT !.probe = <<[by |-> "caller", caps |-> probe]>>])

WithFeatureCapabilityProbe ==
  /\ Holds("pipeline") \/ (Holds("runtime") /\ host.features # {})
  /\ Sets([builder EXCEPT !.probe =
            <<[by |-> "features", caps |-> [t \in HardwareTarget |-> FeatureProbe(host, t)]]>>])

WithWebRtcTrack(id) ==
  /\ ~Holds("none") /\ Has("webrtc")
  /\ Sets([builder EXCEPT !.tracks = @ \cup {id}])

WithLibcameraProviderFactory ==
  /\ ~Holds("none") /\ Has("pi")
  /\ Sets([builder EXCEPT !.provider = TRUE])

WithOverlayVariable(v) == ~Holds("none") /\ Sets([builder EXCEPT !.variables = @ \cup {v}])

WithNativeAdapters == Holds("pipeline") /\ Sets([builder EXCEPT !.native = TRUE])

(* with_feature_media_adapters takes the tracks and the provider there are *)
(* when it is called; without any feature there is no such call.           *)
FeatureAdapters(b) ==
  [ffmpeg |-> Has("ffmpeg"), provider |-> Has("pi") /\ b.provider, tracks |-> b.tracks]

WithFeatureMediaAdapters ==
  /\ Holds("runtime") /\ host.features # {}
  /\ Sets([builder EXCEPT !.factory = <<FeatureAdapters(builder)>>])
-----------------------------------------------------------------------------
(* What the compiler makes of a builder's manifest.                        *)
Route(b) == IF b.probe = <<>> THEN "generic" ELSE b.probe[1].by

CompilesUnguarded(b) ==                 \* mutant: a target without a probe is compiled unchecked
  [verdict |-> IF b.probe # <<>>
               THEN CompileWithProbe(b.manifest[1], b.probe[1].caps, b.variables)
               ELSE CompileInternal(b.manifest[1], <<>>, b.variables),
   route   |-> Route(b)]
Compiles(b) ==
  [verdict |-> IF b.probe # <<>>
               THEN CompileWithProbe(b.manifest[1], b.probe[1].caps, b.variables)
               ELSE Compile(b.manifest[1], b.variables),
   route   |-> Route(b)]

(* RuntimeBuilder::compile keeps the graph it has; an error consumes the   *)
(* builder.                                                                *)
RuntimeCompile ==
  /\ Holds("runtime") /\ builder.compiled = <<>>
  /\ LET c == Compiles(builder) IN
     IF builder.manifest = <<>>
     THEN result' = "MissingManifest" /\ builder' = NoBuilder
     ELSE IF c.verdict.error # "ok"
     THEN result' = c.verdict.error /\ builder' = NoBuilder
     ELSE /\ builder' = [builder EXCEPT !.compiled = <<[graph |-> c.verdict.graph[1],
                                                       route |-> c.route]>>]
          /\ result' = "ok"
  /\ UNCHANGED <<host, caller, engine, built>>

Refused(error) == result' = error /\ UNCHANGED <<engine, built>>
Started(compiled, adapters) ==
  /\ result' = "ok"
  /\ engine' = <<[graph |-> compiled.graph, route |-> compiled.route, adapters |-> adapters,
                  by |-> builder.kind]>>
  /\ built' = [i \in DOMAIN compiled.graph.pipelines |-> "pending"]

(* RuntimeBuilder::start                                                   *)
RuntimeStart ==
  /\ Holds("runtime")
  /\ LET c == Compiles(builder) IN
     IF builder.compiled = <<>> /\ builder.manifest = <<>> THEN Refused("MissingManifest")
     ELSE IF builder.compiled = <<>> /\ c.verdict.error # "ok" THEN Refused(c.verdict.error)
     ELSE IF builder.factory = <<>> THEN Refused("MissingRuntimeFactory")
     ELSE Started(IF builder.compiled # <<>> THEN builder.compiled[1]
                  ELSE [graph |-> c.verdict.graph[1], route |-> c.route],
                  builder.factory[1])
  /\ builder' = NoBuilder
  /\ UNCHANGED <<host, caller>>

(* CamlPipelineBuilder::start looks for what each pipeline's adapters need *)
(* before it starts any.                                                   *)
MissingAnyTrack(c) ==                   \* mutant: one track is enough for all pipelines
  IF (\E i \in DOMAIN c.outputs : c.outputs[i].kind = "webrtc") /\ ~Has("webrtc")
  THEN "UnsupportedOutput"
  ELSE IF (\E i \in DOMAIN c.outputs : c.outputs[i].kind = "webrtc") /\ builder.tracks = {}
  THEN "MissingWebRtcTrack"
  ELSE IF c.backend # "LibcameraDevice" THEN "ok"
  ELSE IF ~Has("pi") THEN "MissingAdapter"
  ELSE Check(builder.provider, "MissingLibcameraProvider")
Missing(c) ==
  IF (\E i \in DOMAIN c.outputs : c.outputs[i].kind = "webrtc") /\ ~Has("webrtc")
  THEN "UnsupportedOutput"
  ELSE IF (\E i \in DOMAIN c.outputs : c.outputs[i].kind = "webrtc") /\ c.id \notin builder.tracks
  THEN "MissingWebRtcTrack"
  ELSE IF c.backend # "LibcameraDevice" THEN "ok"
  ELSE IF ~Has("pi") THEN "MissingAdapter"
  ELSE Check(builder.provider, "MissingLibcameraProvider")

PipelineStart ==
  /\ Holds("pipeline")
  /\ LET c       == Compiles(builder)
         graph   == c.verdict.graph[1]
         missing == FirstOf([i \in DOMAIN graph.pipelines |-> Missing(graph.pipelines[i])])
     IN  IF builder.probe = <<>> /\ builder.manifest[1].target # "generic"
         THEN Refused("MissingCapabilityProbe")
         ELSE IF c.verdict.error # "ok" THEN Refused(c.verdict.error)
         ELSE IF missing # "ok" THEN Refused(missing)
         ELSE IF ~builder.native \/ host.features = {} THEN Refused("MissingRuntimeFactory")
         ELSE Started([graph |-> graph, route |-> c.route], FeatureAdapters(builder))
  /\ builder' = NoBuilder
  /\ UNCHANGED <<host, caller>>

(* The task of a pipeline builds its stages (supervise_pipeline_task).     *)
Build(i) ==
  /\ engine # <<>> /\ built[i] = "pending"
  /\ built' = [built EXCEPT ![i] = BuildPipeline(engine[1].graph.pipelines[i],
                                                 engine[1].adapters, host)]
  /\ UNCHANGED <<host, caller, builder, result, engine>>
-----------------------------------------------------------------------------
FacadeNext ==
  \/ \E m \in caller.manifests : FromManifestStr(m) \/ WithManifest(m) \/ WithCompiledGraph(m)
  \/ \E probe \in caller.probes : WithCapabilityProbe(probe)
  \/ NewRuntimeBuilder \/ WithFeatureCapabilityProbe \/ WithLibcameraProviderFactory
  \/ \E id \in Id : WithWebRtcTrack(id)
  \/ \E v \in Variable : WithOverlayVariable(v)
  \/ WithNativeAdapters \/ WithFeatureMediaAdapters
  \/ RuntimeCompile \/ RuntimeStart \/ PipelineStart
  \/ \E i \in DOMAIN built : Build(i)
=============================================================================
