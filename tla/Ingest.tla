------------------------------- MODULE Ingest -------------------------------
(***************************************************************************)
(* From the manifest to the media: the facade compiles and starts a graph, *)
(* its pipelines build their stages, and the worker of an FFmpeg pipeline  *)
(* opens its input and demuxes or transcodes it.  A worker has a copy of   *)
(* all it needs (WorkerSpec): once one has been chosen the model follows   *)
(* that worker alone, and forgets the rest of the program.                 *)
(***************************************************************************)
EXTENDS Facade, Attempt

vars == <<facadeVars, attemptVars>>

Init == FacadeInit /\ AttemptInit

NoHost == [features |-> {}, models |-> <<"none", "none">>, video |-> {}, media |-> {},
           libcamera |-> FALSE, ffmpeg |-> FALSE, parts |-> {}, font |-> FALSE]
NoCaller == [api |-> "pipeline", manifests |-> {}, probes |-> {}]

(* What the worker's mode opens (open_media_input; a V4L2 device is opened *)
(* through FFmpeg's video4linux2, for want of which "auto" tries others).  *)
InputOpens(c) ==
  host.ffmpeg /\ (c.backend = "V4l2Device" => "video4linux2" \in host.parts)

OpenInput(c) ==
  \/ ~InputOpens(c) /\ Fail("input")
     /\ UNCHANGED <<mode, stream, phase, read, stages, sent, lost, cancelled, receiver, media>>
  \/ /\ InputOpens(c)
     /\ \E s \in Streams :
          IF c.strategy = "passthrough" THEN OpenDemux(s)
          ELSE OpenTranscode(s, TranscodeBackend(c), FiltersBuilt(c), host.parts)

StartAttempt(i) ==
  /\ pc = "idle" /\ engine # <<>> /\ built[i] = "ok"
  /\ LET c == engine[1].graph.pipelines[i] IN
     c.backend # "LibcameraDevice" /\ ~IsMock(c) /\ OpenInput(c)
  /\ host' = NoHost /\ caller' = NoCaller /\ builder' = NoBuilder /\ result' = "ok"
  /\ engine' = <<>> /\ built' = <<>>

Next ==
  \/ pc = "idle" /\ FacadeNext /\ UNCHANGED attemptVars
  \/ \E i \in DOMAIN built : StartAttempt(i)
  \/ AttemptNext /\ UNCHANGED facadeVars

Spec == Init /\ [][Next]_vars
-----------------------------------------------------------------------------
Running == engine # <<>>
Graph == engine[1].graph
Pipeline(i) == Graph.pipelines[i]

(* The sums a resource plan stands for, in unbounded arithmetic.           *)
Total(bytes) ==
  LET sum[n \in 0 .. Len(bytes)] == IF n = 0 THEN 0 ELSE sum[n - 1] + bytes[n]
  IN  sum[Len(bytes)]
TruePoolBytes(c) == c.buffer_size * c.buffer_count
TrueBackendBytes(c) == IF c.backend = "FfmpegRtsp" THEN 128 * c.buffer_size ELSE BackendBytes(c)
TruePool(pipelines) == Total([i \in DOMAIN pipelines |-> TruePoolBytes(pipelines[i])])
TrueBackend(pipelines) == Total([i \in DOMAIN pipelines |-> TrueBackendBytes(pipelines[i])])

(* The pools of a graph that runs fit the limit of its manifest, and       *)
(* without a warning so do the estimated buffers behind them, whatever the *)
(* sizes: the saturated sums compile_internal compares never hide an       *)
(* excess, unless the limit itself is the largest word.                    *)
FitsLimit ==
  Running /\ Graph.limit < MaxWord =>
    /\ TruePool(Graph.pipelines) <= Graph.limit
    /\ ~Graph.high_memory =>
         TruePool(Graph.pipelines) + TrueBackend(Graph.pipelines) <= Graph.limit

(* The parts of FFmpeg a worker will look up, and the host lacks; the      *)
(* decoder depends on the stream.  "libx264" stands for any of the H.264   *)
(* encoders open_h264_encoder makes do with.                               *)
PartsUsed(c) ==
  When("video4linux2", c.backend = "V4l2Device")
  \cup (IF c.strategy = "passthrough" \/ c.backend = "LibcameraDevice" THEN {}
        ELSE FiltersBuilt(c)
             \cup DecoderPart(TranscodeBackend(c), "h264")
             \cup DecoderPart(TranscodeBackend(c), "hevc")
             \cup {IF c.codec_path = "HardwareTranscode" THEN "h264_v4l2m2m" ELSE "libx264"})
PartsThere ==
  IF ~host.ffmpeg THEN {}
  ELSE host.parts \cup When("libx264", EncoderOpens("Software", host.parts))
Lacks(c) == PartsUsed(c) \ PartsThere

(* What a graph compiled with the features' probe may still miss on the    *)
(* host it runs on, though "unsupported configurations" should have been   *)
(* rejected: FFmpeg, for a device whose manifest asks for it neither by    *)
(* name nor for an overlay; the filters no probe looks for and the         *)
(* software encoder; and what a probe took the host's devices, or the      *)
(* build's other decoder, for.  All else it uses is there: FFmpeg, the     *)
(* four probed filters, the hardware codecs, RTP and libcamera.            *)
HostServes ==
  Running /\ engine[1].route = "features" =>
    \A i \in DOMAIN Graph.pipelines :
      LET c == Pipeline(i) IN
      /\ c.backend # "LibcameraDevice" =>
           \/ Has("ffmpeg") /\ host.ffmpeg
           \/ /\ c.type = "device" /\ "ffmpeg" \notin c.requirements
              /\ LayerKinds(c) = {}
      /\ c.backend = "LibcameraDevice" => Has("pi") /\ host.libcamera
      /\ (\E o \in DOMAIN c.outputs : c.outputs[o].kind = "webrtc") => Has("webrtc")
      /\ Lacks(c) \cap Filter = {}
      /\ "video4linux2" \in Lacks(c) => Has("pi") /\ host.video # {}
      /\ "h264_v4l2m2m" \in Lacks(c) => Has("pi") /\ Pi4Encoder(host)
      /\ {"h264_v4l2request", "hevc_v4l2request"} \subseteq Lacks(c) =>
           Has("pi") /\ Pi5Decoder(host, Graph.target)

(* What CamlPipelineBuilder starts never fails for want of an adapter, nor *)
(* because compiler, front end and worker disagree on what a pipeline is:  *)
(* start has refused it before.  Only FFmpeg itself may be missing from    *)
(* the program unnoticed.                                                  *)
AdaptersSuffice ==
  Running /\ engine[1].by = "pipeline" =>
    \A i \in DOMAIN built : built[i] \notin {"no_adapter", "mismatch"}
                            /\ (built[i] = "unbuilt" => ~Has("ffmpeg"))

(* No graph for a Raspberry Pi runs but one that a probe has answered for  *)
(* without naming the other model, the features' probe of the host it runs *)
(* on or one of the caller's own, or that the caller compiled without      *)
(* guardrails: whatever the order of the builder's calls.                  *)
TargetGuarded ==
  Running /\ Graph.target # "generic" =>
    \/ engine[1].route = "unchecked"
    \/ /\ engine[1].route = "features"
       /\ Has("pi") => DetectModel(host) \in {"none", Graph.target}
    \/ /\ engine[1].route = "caller"
       /\ \E probe \in caller.probes :
            probe[Graph.target] # <<>> /\ probe[Graph.target][1].pi \in {"none", Graph.target}
-----------------------------------------------------------------------------
Increasing(frames) == \A i, j \in DOMAIN frames : i < j => frames[i] < frames[j]

(* A line of frames in order: every frame read, each once, but for those   *)
(* an error of the decoder, the filter or the encoder has cost.            *)
Delivers(line) == ToSet(line) = (1 .. read) \ lost /\ Increasing(line)

(* While the source receives, what an attempt has sent and what its stages *)
(* hold, back to front, is what it has read, in order, less what errors    *)
(* have cost: after one the attempt goes on, and what follows is neither   *)
(* reordered nor repeated.                                                 *)
InOrder == receiver => Delivers(sent \o encoder \o filter \o decoder)

(* An attempt that ends well for a source still there was flushed, the     *)
(* cancelled attempt too: no stage keeps a frame back.  That is not to say *)
(* that all was sent: the loops take an error for a stage that is dry, and *)
(* the attempt is Ok with the frames that the error has cost missing.      *)
FlushedAll == pc = "done" /\ receiver => Delivers(sent)

(* Every stage is drained before it is fed: none ever refuses what it is   *)
(* given, not after a drain that a broken frame or a packet nobody wants   *)
(* has cut short either.                                                   *)
NeverRefused == failure # "refused"

(* H.264, Annex B: the units are what is between start codes, without the  *)
(* zeros before the next one.                                              *)
Starts(bytes) == {i \in 1 .. Len(bytes) - 2 : SubSeq(bytes, i, i + 2) = ShortStartCode}

StopAt(bytes, i) ==
  LET following == {j \in Starts(bytes) : j > i}
  IN  IF following = {} THEN Len(bytes) ELSE Min(following) - 1
LastAt(bytes, i) == Max({j \in i + 2 .. StopAt(bytes, i) : bytes[j] # 0 \/ j = i + 2})
UnitAt(bytes, i) == SubSeq(bytes, i + 3, LastAt(bytes, i))

UnitsOf(bytes) ==
  LET From[i \in 1 .. Len(bytes) + 1] ==
        LET ahead == {j \in Starts(bytes) : j >= i} IN
        IF ahead = {} THEN <<>> ELSE <<UnitAt(bytes, Min(ahead))>> \o From[Min(ahead) + 1]
  IN  From[1]

(* What a demuxer hands over: units behind start codes, or each behind its *)
(* length.  No unit ends in a zero, and none has a start code in it.       *)
Clean(unit) == /\ unit \in Seq(Byte) /\ unit # <<>> /\ unit[Len(unit)] # 0
               /\ Starts(unit) = {}

InAnnexB(p) ==
  /\ p.bytes = <<>> \/ LooksLikeAnnexB(p.bytes)
  /\ p.units = UnitsOf(p.bytes) /\ \A k \in DOMAIN p.units : p.units[k] # <<>>

Offsets(units, size) ==
  LET at[k \in 1 .. Len(units) + 1] ==
        IF k = 1 THEN 1 ELSE at[k - 1] + size + Len(units[k - 1])
  IN  at
InAvcc(p) ==
  LET at == Offsets(p.units, p.lengthSize) IN
  /\ p.units \in Seq(Seq(Byte)) /\ Len(p.bytes) + 1 = at[Len(p.units) + 1]
  /\ \A k \in DOMAIN p.units :
       LET body == at[k] + p.lengthSize
       IN  /\ Clean(p.units[k]) /\ SubSeq(p.bytes, body, at[k + 1] - 1) = p.units[k]
           /\ BigEndian(SubSeq(p.bytes, at[k], body - 1)) = Len(p.units[k])

(* A payload that is neither is one avcc_to_annex_b gives up on.           *)
LengthSize(option) == IF option = <<>> THEN 4 ELSE option[1].lengthSize
WellFormed(p, option) ==
  /\ p.bytes \in Seq(Byte)
  /\ \/ InAnnexB(p)
     \/ InAvcc(p) /\ p.lengthSize = LengthSize(option)
     \/ ~LooksLikeAnnexB(p.bytes) /\ AvccToAnnexB(p.bytes, LengthSize(option)) = <<>>

ASSUME StreamConstants ==
  \A s \in Streams :
    /\ s.extradata \in Seq(Byte)
    /\ s.codec = "h264" =>
         \A p \in s.payloads : WellFormed(p, ExtractConfig(s.extradata).config)

(* A payload in AVCC form whose first length reads as a start code.        *)
Ambiguous(p) ==
  /\ p.units # <<>>
  /\ \/ p.lengthSize = 4 /\ Len(p.units[1]) \in {1} \cup 256 .. 511
     \/ p.lengthSize = 3 /\ Len(p.units[1]) = 1

(* Whatever the container, a demuxed payload has the units it had there,   *)
(* and those of a keyframe come with the stream's parameter sets: only the *)
(* length that reads as a start code is taken for one.                     *)
UnitsKept ==
  normalized # <<>> /\ ~Ambiguous(payload) =>
    LET types == {UnitType(payload.units[k]) : k \in DOMAIN payload.units}
        needs == payload.key /\ config # <<>> /\ ~({SPS, PPS} \subseteq types)
    IN  UnitsOf(normalized) =
          (IF needs THEN UnitsOf(config[1].parameterSets) ELSE <<>>) \o payload.units
=============================================================================
