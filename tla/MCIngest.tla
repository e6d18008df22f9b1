------------------------------ MODULE MCIngest ------------------------------
(***************************************************************************)
(* Instance of Ingest for TLC.  Numbers are small enough for true sums to  *)
(* be computed: the largest word is 50 000 000 instead of 2^64 - 1.        *)
(***************************************************************************)
EXTENDS Ingest

CONSTANTS cam, yard

MCId == {cam, yard}
MCVariable == {"site"}
-----------------------------------------------------------------------------
(* Hosts: a workstation with everything, and what may be missing from it;  *)
(* Raspberry Pis whose devices and FFmpeg build know of codecs or not; one *)
(* whose device-tree files disagree; programs built with fewer features.   *)
Workstation ==
  [features |-> {"ffmpeg", "webrtc", "pi"}, models |-> <<"none", "none">>,
   video |-> {"webcam"}, media |-> {"uvc"}, libcamera |-> TRUE, ffmpeg |-> TRUE,
   parts |-> FfmpegPart, font |-> TRUE]
Bare == [Workstation EXCEPT !.video = {}, !.media = {}, !.libcamera = FALSE, !.ffmpeg = FALSE,
                            !.parts = {}, !.font = FALSE]
Pi4 == [Workstation EXCEPT !.models = <<"pi4", "pi4">>, !.video = {"bcm2835-codec-encode"}]
Pi5 == [Workstation EXCEPT !.models = <<"none", "pi5">>, !.video = {"rpivid"}]

FewFilters == {[Workstation EXCEPT !.parts = @ \ {f}] : f \in Filter \cup {"movie", "null"}}
Codecs == {"h264_v4l2m2m", "h264_v4l2request", "hevc_v4l2request", "libx264", "video4linux2"}
FewCodecs == {[pi EXCEPT !.parts = @ \ gone] :
                pi \in {Pi4, Pi5}, gone \in {{"h264_v4l2m2m"}, {"h264_v4l2request"}, Codecs}}
Hosts ==
  {Workstation, Bare, Pi4, Pi5, [Pi4 EXCEPT !.models = <<"pi5", "pi4">>],
   [Workstation EXCEPT !.font = FALSE], [Workstation EXCEPT !.features = {"webrtc"}],
   [Workstation EXCEPT !.features = {"ffmpeg"}], [Pi5 EXCEPT !.features = {"ffmpeg", "webrtc"}]}
-----------------------------------------------------------------------------
(* Manifests, in families that vary one thing at a time.                   *)
Profile == [codec |-> "h264", encoder |-> "software", rate |-> 30, rotation |-> <<>>]
Passthrough ==
  [id |-> cam, input |-> "rtsp_url", type |-> "rtsp", strategy |-> "passthrough",
   backend |-> <<>>, network |-> <<[size |-> 1200, stall |-> 10]>>, processing |-> <<>>,
   overlay |-> <<>>, outputs |-> <<>>]
Transcode == [Passthrough EXCEPT !.strategy = "transcode", !.network = <<>>, !.processing = <<Profile>>]
Device == [Passthrough EXCEPT !.type = "device", !.input = "path"]

Of(target, pipelines) == [target |-> target, cma |-> <<20000000>>, media |-> <<>>, pipelines |-> pipelines]
Single(nodes) == {Of(target, <<p>>) : target \in HardwareTarget, p \in nodes}

Shapes ==
  [id : {cam}, input : {"rtsp_url", "path"}, type : InputType, strategy : Strategy,
   backend : {<<>>, <<"v4l2">>, <<"libcamera">>}, network : {<<>>, Passthrough.network},
   processing : Option({Profile, [Profile EXCEPT !.encoder = "hardware"]}), overlay : {<<>>},
   outputs : {<<>>}]

Profiles ==
  {[Transcode EXCEPT !.strategy = s, !.processing = <<p>>] : s \in {"transcode", "hardware_decode"},
     p \in {[Profile EXCEPT !.encoder = e] : e \in {"libx264", "v4l2m2m", "other"}}
           \cup {[Profile EXCEPT !.codec = "other"], [Profile EXCEPT !.rate = 0]}
           \cup {[Profile EXCEPT !.rotation = <<r>>] : r \in {-90, 45, 180}}}

Plain == [font_size |-> <<>>, alpha |-> <<>>]
Text == [kind |-> "text", balanced |-> TRUE, variables |-> {"site", "camera_id"}, style |-> Plain]
Stamp == [kind |-> "timestamp", blank_format |-> FALSE, style |-> Plain]
Logo == [kind |-> "watermark", image |-> "readable", max_width |-> <<64>>, opacity |-> <<50>>]
Overlays ==
  {[Transcode EXCEPT !.overlay = <<layers>>] :
     layers \in {<<>>, <<Text>>, <<Stamp>>, <<Logo>>, <<Text, Logo>>,
                 <<[Text EXCEPT !.balanced = FALSE]>>, <<[Text EXCEPT !.variables = {"unknown"}]>>,
                 <<[Stamp EXCEPT !.blank_format = TRUE]>>,
                 <<[Stamp EXCEPT !.style.font_size = <<0>>]>>,
                 <<[Logo EXCEPT !.image = "url"]>>, <<[Logo EXCEPT !.image = "unreadable"]>>,
                 <<[Logo EXCEPT !.opacity = <<>>]>>, <<[Logo EXCEPT !.opacity = <<101>>]>>}}

Rtp == [kind |-> "webrtc", limit |-> <<>>, policy |-> "block", mtu |-> <<>>]
Recording == [kind |-> "recording", limit |-> <<>>, policy |-> "drop_oldest", mtu |-> <<>>]
Outputs ==
  {[p EXCEPT !.outputs = o] : p \in {Passthrough, [Passthrough EXCEPT !.network = <<[size |-> 12, stall |-> 10]>>]},
     o \in {<<Rtp>>, <<Recording>>, <<Rtp, Recording>>, <<Recording, [Recording EXCEPT !.limit = <<0>>]>>,
            <<[Rtp EXCEPT !.limit = <<0>>]>>, <<[Rtp EXCEPT !.mtu = <<12>>]>>,
            <<[Rtp EXCEPT !.mtu = <<100>>]>>}}
  \cup {[Passthrough EXCEPT !.input = "rtsp_mock"], [Device EXCEPT !.input = "camera_selector"]}

Sized(id, size) == [Passthrough EXCEPT !.id = id, !.network = <<[size |-> size, stall |-> 10]>>]
Budgets ==
  {[target |-> "generic", cma |-> limit, media |-> other,
    pipelines |-> <<Sized(cam, small), Sized(yard, large)>>] :
     limit \in Option({0, 1000000, 20000000, MaxWord}), other \in Option({1000000}),
     small \in {12, 1200, 400000}, large \in {1200, 400000, 10000000}}

Pairs ==
  {Of("generic", <<a, b>>) :
     a \in {Passthrough, [Passthrough EXCEPT !.outputs = <<Rtp>>],
            [Device EXCEPT !.backend = <<"libcamera">>]},
     b \in {[Passthrough EXCEPT !.outputs = <<Rtp>>], [Passthrough EXCEPT !.id = yard],
            [Passthrough EXCEPT !.id = yard, !.outputs = <<Rtp>>]}}

(* Probes of a caller: one that fails, one that says the host has all, one *)
(* that takes every host for a Pi 5, and knows its decoder.                *)
Says(caps) == [target \in HardwareTarget |-> caps]
Probes == {Says(<<>>), Says(<<[pi |-> "none", has |-> Capability]>>),
           Says(<<[pi |-> "pi5", has |-> {"ffmpeg", "pi5_decoder"}]>>)}

(* The callers: one with a manifest for CamlPipeline, on every host or the *)
(* hosts it matters to, one with probes of its own, and one that works a   *)
(* RuntimeBuilder.                                                         *)
On(hosts, ms) ==
  {[host |-> h, manifests |-> {m}, probes |-> {}, api |-> "pipeline"] : h \in hosts, m \in ms}
MCScenarios ==
  On({Workstation, Pi4, Pi5}, Single({p \in Shapes : p.processing = <<>> \/ p.network = <<>>}))
  \cup On(Hosts \cup FewCodecs, Single(Profiles) \cup Single({Transcode, Device,
             [Transcode EXCEPT !.strategy = "hardware_decode"],
             [Transcode EXCEPT !.type = "device", !.input = "path", !.backend = <<"v4l2">>]}))
  \cup On(FewFilters \cup Hosts, Single(Overlays))
  \cup On(Hosts, {Of("generic", <<p>>) : p \in Outputs} \cup Pairs)
  \cup On({Workstation}, Budgets)
  \cup {[host |-> h, manifests |-> {m}, probes |-> Probes, api |-> "pipeline"] :
          h \in {Bare, Pi4}, m \in Single({Transcode, [Transcode EXCEPT !.strategy = "hardware_decode"]})}
  \cup {[host |-> h, manifests |-> {Of("pi4", <<Transcode>>), m}, probes |-> {probe}, api |-> "runtime"] :
          h \in {Pi4, Pi5}, m \in {Of("generic", <<[Passthrough EXCEPT !.outputs = <<Rtp>>]>>)},
          probe \in {Says(<<[pi |-> "none", has |-> Capability]>>)}}
-----------------------------------------------------------------------------
(* Streams: NAL units in each container, with each kind of extradata.      *)
Bytes(n, width) == [k \in 1 .. width |-> (n \div (256 ^ (width - k))) % 256]
Join(parts) == FlattenSeq(parts)
Avcc(units, size) == Join([k \in DOMAIN units |-> Bytes(Len(units[k]), size) \o units[k]])
AnnexB(units, code) == Join([k \in DOMAIN units |-> code \o units[k]])
Payload(units, size) ==
  [bytes |-> IF size = 0 THEN AnnexB(units, ShortStartCode) ELSE Avcc(units, size),
   units |-> units, key |-> units # <<>> /\ \E k \in DOMAIN units : UnitType(units[k]) = 5,
   lengthSize |-> size]

Sps == <<103, 66, 0, 30>>
Pps == <<104, 206>>
Idr == <<101, 1, 0, 3>>
Slice == <<65, 154>>
EndOfSequence == <<10>>
Long(n) == [k \in 1 .. n |-> IF k = 1 THEN 65 ELSE 255]
Contents == {<<Idr>>, <<Sps, Pps, Idr>>, <<Sps, Idr>>, <<Slice, Slice>>, <<EndOfSequence, Slice>>,
             <<Long(255)>>, <<Long(256), Slice>>, <<Slice, Long(300)>>}
ConfigRecord(size) ==
  <<1, 66, 0, 30, 252 + size - 1, 225>> \o Bytes(Len(Sps), 2) \o Sps
     \o <<1>> \o Bytes(Len(Pps), 2) \o Pps

Stream(codec, extradata, size) ==
  [codec |-> codec, extradata |-> extradata,
   payloads |-> {Payload(units, size) : units \in
                   {c \in Contents : size # 1 \/ \A k \in DOMAIN c : Len(c[k]) < 256}}]
Truncated == [codec |-> "h264", extradata |-> <<>>,
              payloads |-> {[NoPayload EXCEPT !.bytes = <<0, 0, 0, 9, 65>>], NoPayload}]
MCStreams ==
  {Stream("h264", ConfigRecord(4), 4), Stream("h264", ConfigRecord(3), 3),
   Stream("h264", ConfigRecord(2), 2), Stream("h264", ConfigRecord(1), 1),
   Stream("h264", <<>>, 4), Stream("h264", <<>>, 0),
   Stream("h264", AnnexB(<<Sps, Pps>>, StartCode), 0), Stream("h264", <<0, 9>>, 0),
   Stream("h264", SubSeq(ConfigRecord(4), 1, 10), 4), Stream("h264", SubSeq(ConfigRecord(4), 1, 12), 4),
   Truncated, Stream("hevc", <<>>, 0), Stream("vp8", <<>>, 0)}
=============================================================================
