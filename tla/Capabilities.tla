---------------------------- MODULE Capabilities ----------------------------
(***************************************************************************)
(* What a host can do, and what the probes say of it (HostCapabilities and *)
(* the composite probe of caml-core/src/compiler.rs, the Linux probe of    *)
(* caml-linux-media/src/lib.rs, ffmpeg_capabilities and                    *)
(* webrtc_capabilities).  A host is what the probes and, later, the        *)
(* adapters find on it; names in sysfs stand for the token sets that the   *)
(* probe looks for in them.                                                *)
(***************************************************************************)
EXTENDS Naturals, Sequences, FiniteSets

HardwareTarget == {"pi4", "pi5", "generic"}
Model == {"none", "pi4", "pi5"}
Capability == {"ffmpeg", "v4l2", "libcamera", "rtp", "pi4_encoder", "pi5_decoder",
               "drawtext", "overlay", "scale", "colorchannelmixer"}
Filter == {"drawtext", "overlay", "scale", "colorchannelmixer"}

(* Names of video4linux devices and media controllers, and the encoders,   *)
(* decoders, filters and input formats of an FFmpeg build.                 *)
VideoName == {"bcm2835-codec-encode", "h264-enc", "rpivid", "stateless-decoder", "webcam"}
MediaName == {"bcm2835-codec-encode", "rpivid", "pisp", "uvc"}
UnprobedFilter == {"buffer", "buffersink", "null", "transpose", "hflip", "vflip", "movie", "format"}
FfmpegPart == Filter \cup UnprobedFilter
              \cup {"libx264", "h264_v4l2m2m", "h264_v4l2request", "hevc_v4l2request",
                    "video4linux2"}

(* A host: the features the program was built with; the model as each of   *)
(* the two device-tree files gives it ("none" for a file that is absent or *)
(* says something else); its devices; whether FFmpeg starts, the parts it  *)
(* was built with, and the font overlays are drawn in.                     *)
Host == [features : SUBSET {"ffmpeg", "webrtc", "pi"}, models : [1 .. 2 -> Model],
         video : SUBSET VideoName, media : SUBSET MediaName, libcamera : BOOLEAN,
         ffmpeg : BOOLEAN, parts : SUBSET FfmpegPart, font : BOOLEAN]

(* What a CapabilityProbe says of each target: capabilities, or that it    *)
(* has failed (an empty sequence).                                         *)
HostCapabilities == [pi : Model, has : SUBSET Capability]
CapabilityProbe == [HardwareTarget -> {<<>>} \cup [1 .. 1 -> HostCapabilities]]

When(c, holds) == IF holds THEN {c} ELSE {}
-----------------------------------------------------------------------------
(* The first of the two files that names a Pi decides.                     *)
DetectModel(h) == IF h.models[1] # "none" THEN h.models[1] ELSE h.models[2]

Pi4Encoder(h) ==
  /\ DetectModel(h) = "pi4"
  /\ \/ "bcm2835-codec-encode" \in h.video \cup h.media
     \/ "h264-enc" \in h.video

(* A manifest for a Pi 5 is believed about the host's decoder names.       *)
Pi5Decoder(h, target) ==
  /\ target = "pi5" \/ DetectModel(h) = "pi5"
  /\ \/ h.video \cap {"rpivid", "stateless-decoder"} # {}
     \/ h.media \cap {"rpivid", "pisp"} # {}
     \/ DetectModel(h) = "pi5" /\ h.media # {}

LinuxProbe(h, target) ==
  [pi  |-> DetectModel(h),
   has |-> When("v4l2", h.video # {}) \cup When("libcamera", h.libcamera)
           \cup When("pi4_encoder", Pi4Encoder(h))
           \cup When("pi5_decoder", Pi5Decoder(h, target))]

FfmpegProbe(h) ==
  [pi  |-> "none",
   has |-> IF ~h.ffmpeg THEN {}
           ELSE {"ffmpeg"} \cup (h.parts \cap Filter)
                \cup When("v4l2", "video4linux2" \in h.parts)
                \cup When("pi4_encoder", "h264_v4l2m2m" \in h.parts)
                \cup When("pi5_decoder",
                          h.parts \cap {"h264_v4l2request", "hevc_v4l2request"} # {})]

WebRtcProbe == [pi |-> "none", has |-> {"rtp"}]
-----------------------------------------------------------------------------
(* HostCapabilities::merge: two probes may not name different Pis.         *)
Disagree(a, b) == a.pi # "none" /\ b.pi # "none" /\ a.pi # b.pi
Merge(a, b) == [pi |-> IF a.pi # "none" THEN a.pi ELSE b.pi, has |-> a.has \cup b.has]

(* One turn of CompositeCapabilityProbe's loop.  What has been merged so   *)
(* far is a sequence of at most one, empty for the probe failure that a    *)
(* disagreement is.                                                        *)
Composite(merged, caps) ==
  IF merged = <<>> \/ Disagree(merged[1], caps) THEN <<>> ELSE <<Merge(merged[1], caps)>>

(* with_feature_capability_probe: FFmpeg, WebRTC and Linux, in this order, *)
(* as far as the program was built with them.                              *)
FeatureProbe(h, target) ==
  LET Push(merged, feature, caps) ==
        IF feature \in h.features THEN Composite(merged, caps) ELSE merged
      ffmpeg == Push(<<[pi |-> "none", has |-> {}]>>, "ffmpeg", FfmpegProbe(h))
  IN  Push(Push(ffmpeg, "webrtc", WebRtcProbe), "pi", LinuxProbe(h, target))
=============================================================================
