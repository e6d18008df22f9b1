------------------------------ MODULE Compiler ------------------------------
(***************************************************************************)
(* CamlCompiler (caml-core/src/compiler.rs): from a manifest to a compiled *)
(* graph with its resource plan, or to the first error.  Byte counts are   *)
(* u64 with saturating arithmetic, MaxWord being the largest.              *)
(***************************************************************************)
EXTENDS Manifest, Capabilities, Integers

CONSTANTS MaxWord,     \* u64::MAX
          FrameBytes   \* bytes of a 1080p 4:2:0 frame (1920 * 1080 * 3 / 2)

ASSUME CompilerConstants == MaxWord \in Nat /\ FrameBytes \in Nat

SatWraps(n) == n % (MaxWord + 1)       \* mutant: wrapping arithmetic
Sat(n) == IF n > MaxWord THEN MaxWord ELSE n

Processing(p) == p.processing[1]
Backend(p) == IF p.backend = <<>> THEN "auto" ELSE p.backend[1]
WantsHardware(p) == p.processing # <<>> /\ Processing(p).encoder \in {"hardware", "v4l2m2m"}
LayerKinds(p) ==
  IF p.overlay = <<>> THEN {} ELSE {p.overlay[1][i].kind : i \in DOMAIN p.overlay[1]}
-----------------------------------------------------------------------------
ResolveBackend(p) ==
  CASE p.type = "rtsp" -> "FfmpegRtsp"
    [] p.type = "device" /\ Backend(p) \in {"auto", "ffmpeg"} -> "AutoDevice"
    [] p.type = "device" /\ Backend(p) = "v4l2" -> "V4l2Device"
    [] p.type = "device" /\ Backend(p) = "libcamera" -> "LibcameraDevice"

ExecutionMode(p) == IF p.strategy = "passthrough" THEN "EncodedPackets" ELSE "DecodedFrames"

CodecPath(p) ==
  CASE p.strategy = "passthrough" -> "Passthrough"
    [] p.strategy = "hardware_decode" -> "HardwareDecode"
    [] p.strategy = "transcode" ->
         IF WantsHardware(p) THEN "HardwareTranscode" ELSE "SoftwareTranscode"

(* Milliseconds; the backoff doubles in every class.                       *)
RecoveryPolicy(p) ==
  CASE p.strategy = "hardware_decode" ->
         [class |-> "Hardware", restarts |-> 3, first |-> 2000, longest |-> 60000, reset |-> 120000]
    [] p.strategy # "hardware_decode" /\ p.type = "rtsp" ->
         [class |-> "Network", restarts |-> 5, first |-> 250, longest |-> 5000, reset |-> 30000]
    [] p.strategy # "hardware_decode" /\ p.type = "device" ->
         [class |-> "Device", restarts |-> 3, first |-> 1000, longest |-> 30000, reset |-> 60000]

(* capability_requirements_for: the input, the outputs, the codec path and *)
(* the overlay each ask for what they need.                                *)
FiltersUsedOnce(p) ==                   \* mutant: only the filter of the first kind of layer
  IF "watermark" \in LayerKinds(p) THEN {"overlay"} ELSE When("drawtext", LayerKinds(p) # {})
FiltersUsed(p) ==
  When("drawtext", LayerKinds(p) \cap {"timestamp", "text"} # {})
  \cup (IF "watermark" \in LayerKinds(p) THEN {"overlay", "scale", "colorchannelmixer"} ELSE {})

Requirements(p) ==
  When("ffmpeg", p.type = "rtsp" \/ Backend(p) = "ffmpeg")
  \cup When("v4l2", p.type = "device" /\ Backend(p) = "v4l2")
  \cup When("libcamera", p.type = "device" /\ Backend(p) = "libcamera")
  \cup When("rtp", \E i \in DOMAIN p.outputs : p.outputs[i].kind = "webrtc")
  \cup When("pi4_encoder", CodecPath(p) = "HardwareTranscode")
  \cup When("pi5_decoder", p.strategy = "hardware_decode")
  \cup FiltersUsed(p)
-----------------------------------------------------------------------------
HostMismatch(m, caps) == {m.target, caps.pi} = {"pi4", "pi5"}

Misconfigured(p) ==
  \/ p.strategy = "passthrough" /\ (p.processing # <<>> \/ p.network = <<>> \/ p.overlay # <<>>)
  \/ p.strategy # "passthrough" /\ p.processing = <<>>

Unsupported(m, p, caps) ==
  \/ m.target = "pi4" /\ WantsHardware(p) /\ "pi4_encoder" \notin caps.has
  \/ m.target = "pi5" /\ p.strategy = "hardware_decode" /\ "pi5_decoder" \notin caps.has
  \/ ~(Requirements(p) \subseteq caps.has)

(* compile_overlay_profile: a template names known variables only.         *)
BadTemplate(p, variables) ==
  \E i \in DOMAIN p.overlay[1] :
    LET layer == p.overlay[1][i] IN
    layer.kind = "text" /\ ~(layer.balanced
       /\ layer.variables \subseteq variables \cup {"camera_id", "pipeline_id"})

(* One turn of compile_internal's loop; caps is an option.                 *)
NodeVerdict(m, i, caps, variables) ==
  LET p == m.pipelines[i] IN
  IF \E j \in 1 .. i - 1 : m.pipelines[j].id = p.id THEN "DuplicatePipelineId"
  ELSE IF Misconfigured(p) THEN "InvalidConfiguration"
  ELSE IF m.target = "pi5" /\ WantsHardware(p) THEN "HardwareMismatch"
  ELSE IF caps # <<>> /\ Unsupported(m, p, caps[1]) THEN "UnsupportedCapability"
  ELSE IF p.overlay # <<>> /\ BadTemplate(p, variables) THEN "InvalidConfiguration"
  ELSE "ok"

CompilePipeline(p) ==
  [id |-> p.id, input |-> p.input, type |-> p.type, strategy |-> p.strategy,
   network |-> p.network, processing |-> p.processing, overlay |-> p.overlay,
   buffer_size |-> IF p.network = <<>> THEN 2048 ELSE p.network[1].size,
   buffer_count |-> CASE p.strategy = "passthrough" -> 100
                      [] p.strategy = "transcode" -> 64
                      [] p.strategy = "hardware_decode" -> 32,
   watchdog |-> IF p.network = <<>> THEN 10 ELSE p.network[1].stall,
   backend |-> ResolveBackend(p), mode |-> ExecutionMode(p), codec_path |-> CodecPath(p),
   recovery |-> RecoveryPolicy(p), requirements |-> Requirements(p), outputs |-> p.outputs]
-----------------------------------------------------------------------------
(* The resource plan of compiled pipelines.                                *)
Limit(m) == IF m.cma # <<>> THEN m.cma[1] ELSE IF m.media # <<>> THEN m.media[1] ELSE 0

PoolBytes(c) == Sat(c.buffer_size * c.buffer_count)

BackendBytes(c) ==
  CASE c.backend = "FfmpegRtsp" -> Sat(128 * c.buffer_size)
    [] c.backend \in {"AutoDevice", "V4l2Device"} -> 128 * 1200 + 8 * FrameBytes + 32 * 256000
    [] c.backend = "LibcameraDevice" -> 16 * FrameBytes

SatSum(bytes) ==
  LET sum[n \in 0 .. Len(bytes)] == IF n = 0 THEN 0 ELSE Sat(sum[n - 1] + bytes[n])
  IN  sum[Len(bytes)]

Plan(m) ==
  LET compiled == [i \in DOMAIN m.pipelines |-> CompilePipeline(m.pipelines[i])]
      pool     == SatSum([i \in DOMAIN compiled |-> PoolBytes(compiled[i])])
      backend  == SatSum([i \in DOMAIN compiled |-> BackendBytes(compiled[i])])
  IN  [target |-> m.target, pipelines |-> compiled, limit |-> Limit(m),
       pool |-> pool, backend |-> backend,
       high_memory |-> Sat(pool + backend) > Limit(m)]

(* compile_internal: the first pipeline that is refused decides.           *)
CompileInternal(m, caps, variables) ==
  LET refused == {i \in DOMAIN m.pipelines : NodeVerdict(m, i, caps, variables) # "ok"}
      first   == CHOOSE i \in refused : \A j \in refused : i <= j
  IN  IF caps # <<>> /\ HostMismatch(m, caps[1])
      THEN [error |-> "UnsupportedCapability", graph |-> <<>>]
      ELSE IF refused # {}
      THEN [error |-> NodeVerdict(m, first, caps, variables), graph |-> <<>>]
      ELSE IF Plan(m).pool > Limit(m)
      THEN [error |-> "ResourceLimitExceeded", graph |-> <<>>]
      ELSE [error |-> "ok", graph |-> <<Plan(m)>>]

(* compile_with_overlay_variables, without a probe: guardrails or nothing. *)
Compile(m, variables) ==
  IF m.target # "generic" THEN [error |-> "InvalidConfiguration", graph |-> <<>>]
  ELSE CompileInternal(m, <<>>, variables)

(* compile_with_probe_and_overlay_variables                                *)
CompileWithProbe(m, probe, variables) ==
  IF probe[m.target] = <<>> THEN [error |-> "ProbeFailure", graph |-> <<>>]
  ELSE CompileInternal(m, probe[m.target], variables)
=============================================================================
