------------------------------ MODULE Adapters ------------------------------
(***************************************************************************)
(* What building the stages of a compiled pipeline comes to: the builtin   *)
(* factory (src/adapters.rs), the FFmpeg worker's specification with the   *)
(* checks that only run there (worker.rs, hwaccel.rs, transcode.rs), the   *)
(* libcamera and the WebRTC factory.  A verdict is "ok" or why the build   *)
(* fails:                                                                  *)
(*   unbuilt     the program lacks the feature                             *)
(*   no_adapter  no factory, provider or track was configured              *)
(*   mismatch    the compiled pipeline contradicts itself                  *)
(*   profile     the processing or output profile is out of range          *)
(*   host        the host or an asset is not as the profile needs it       *)
(*   panic       the build panics                                          *)
(***************************************************************************)
EXTENDS Compiler

NoAdapters == [ffmpeg |-> FALSE, provider |-> FALSE, tracks |-> {}]

FirstOf(verdicts) ==
  LET bad == {i \in DOMAIN verdicts : verdicts[i] # "ok"}
  IN  IF bad = {} THEN "ok" ELSE verdicts[CHOOSE i \in bad : \A j \in bad : i <= j]
Check(holds, verdict) == IF holds THEN "ok" ELSE verdict
-----------------------------------------------------------------------------
(* transcode_backend_for_pipeline, of a path that transcodes               *)
TranscodeBackend(c) ==
  CASE c.codec_path = "SoftwareTranscode" -> "Software"
    [] c.codec_path = "HardwareTranscode" -> "Pi4HardwareEncode"
    [] c.codec_path = "HardwareDecode"    -> "Pi5HardwareDecode"

EncodersOf(path) ==
  CASE path = "Passthrough" -> {}
    [] path = "HardwareTranscode" -> {"hardware", "v4l2m2m"}
    [] path \in {"SoftwareTranscode", "HardwareDecode"} -> {"software", "libx264"}

(* normalize_rotation: degrees clockwise.                                  *)
Rotations == {0, 90, -90, 180, -180, 270, -270}

ValidateTranscodeSupport(c) ==
  LET processing == c.processing[1] IN
  FirstOf(<<Check(c.codec_path # "Passthrough", "mismatch"),
            Check(processing.encoder \in EncodersOf(c.codec_path), "profile"),
            Check(processing.codec = "h264", "profile"),
            Check(processing.rate > 0, "profile"),
            Check(processing.rotation = <<>> \/ processing.rotation[1] \in Rotations, "profile")>>)

(* validate_overlay_runtime: FFmpeg, then the font, then every image.      *)
ValidateOverlayRuntime(c, h) ==
  IF c.overlay = <<>> THEN "ok"
  ELSE Check(/\ h.ffmpeg
             /\ LayerKinds(c) \cap {"timestamp", "text"} # {} => h.font
             /\ \A i \in DOMAIN c.overlay[1] :
                  c.overlay[1][i].kind = "watermark" => c.overlay[1][i].image = "readable",
             "host")

(* build_video_filter: the two ends of the graph, and what                 *)
(* build_filter_spec puts between them: a rotation normalize_rotation      *)
(* knows, then the layers.  A watermark is scaled or faded on request.     *)
RotationFilters(c) ==
  LET rotation == c.processing[1].rotation IN
  CASE rotation = <<>> \/ rotation[1] = 0 -> {"null"}
    [] rotation # <<>> /\ rotation[1] \in {90, -90, 270, -270} -> {"transpose"}
    [] rotation # <<>> /\ rotation[1] \in {180, -180} -> {"hflip", "vflip"}
    [] OTHER -> {}
LayerFilters(layer) ==
  IF layer.kind # "watermark" THEN {"drawtext"}
  ELSE {"movie", "overlay"} \cup When("scale", layer.max_width # <<>>)
       \cup (IF layer.opacity # <<>> /\ layer.opacity[1] < 100
             THEN {"format", "colorchannelmixer"} ELSE {})
FiltersBuilt(c) ==
  {"buffer", "buffersink"} \cup RotationFilters(c)
  \cup IF c.overlay = <<>> THEN {}
       ELSE {"null"} \cup UNION {LayerFilters(c.overlay[1][i]) : i \in DOMAIN c.overlay[1]}

(* worker_spec_for_pipeline: the input first, then the mode.               *)
WorkerVerdict(c, h) ==
  IF c.type = "device" /\ c.backend \notin {"AutoDevice", "V4l2Device"} THEN "mismatch"
  ELSE IF c.strategy = "passthrough" THEN "ok"
  ELSE IF c.processing = <<>> THEN "mismatch"
  ELSE FirstOf(<<ValidateTranscodeSupport(c), ValidateOverlayRuntime(c, h)>>)

(* FfmpegSourceFactory::build_source: any input with "mock" in it is given *)
(* five packets of its own and no worker.                                  *)
IsMock(c) == c.input \in {"rtsp_mock", "path_mock"}

FfmpegVerdict(c, h) == IF IsMock(c) THEN "ok" ELSE WorkerVerdict(c, h)

(* LibcameraSourceFactory::build_source; whether there is a camera only    *)
(* shows on the provider's thread (CameraSource).                          *)
LibcameraVerdict(c) == Check(c.type = "device", "mismatch")

SourceVerdict(c, adapters, h) ==
  IF c.backend = "LibcameraDevice"
  THEN FirstOf(<<Check("pi" \in h.features, "unbuilt"), Check(adapters.provider, "no_adapter"),
                 LibcameraVerdict(c)>>)
  ELSE FirstOf(<<Check("ffmpeg" \in h.features, "unbuilt"), Check(adapters.ffmpeg, "no_adapter"),
                 FfmpegVerdict(c, h)>>)
-----------------------------------------------------------------------------
QueueLimit(output) ==
  IF output.limit # <<>> THEN output.limit[1] ELSE IF output.kind = "webrtc" THEN 10 ELSE 100

(* WebRtcSinkFactory::build_sink, for any of the pipeline's outputs: it is *)
(* the first WebRTC output whose profile it takes.                         *)
Mtu(c, output) ==
  IF output.mtu # <<>> THEN output.mtu[1]
  ELSE IF c.network # <<>> THEN c.network[1].size ELSE 1200

WebRtcSinkVerdict(c) ==
  LET first == SelectSeq(c.outputs, LAMBDA output : output.kind = "webrtc")[1] IN
  Check(QueueLimit(first) > 0 /\ Mtu(c, first) > 12, "profile")

SinkVerdict(c, i, adapters, h) ==
  IF c.outputs[i].kind = "recording" THEN "ok"
  ELSE FirstOf(<<Check("webrtc" \in h.features, "unbuilt"),
                 Check(c.id \in adapters.tracks, "no_adapter"), WebRtcSinkVerdict(c)>>)

(* Two sinks or more get a router, which asks for a channel per sink; one  *)
(* of no capacity panics.                                                  *)
RouterVerdict(c) ==
  Check(Len(c.outputs) < 2 \/ \A i \in DOMAIN c.outputs : QueueLimit(c.outputs[i]) > 0, "panic")

(* BuiltinAdapters::build_pipeline                                         *)
BuildPipeline(c, adapters, h) ==
  FirstOf(<<SourceVerdict(c, adapters, h)>>
          \o [i \in DOMAIN c.outputs |-> SinkVerdict(c, i, adapters, h)]
          \o <<RouterVerdict(c)>>)
=============================================================================
