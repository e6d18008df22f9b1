------------------------------ MODULE Manifest ------------------------------
(***************************************************************************)
(* The manifest and its front end (caml-core/src/frontend.rs).  An option  *)
(* is a sequence of at most one element.  Strings are the classes the code *)
(* tells apart: an input is a kind of URL or path, a template the          *)
(* variables it names, a style or a watermark what may be wrong with it.   *)
(***************************************************************************)
EXTENDS Integers, Sequences

CONSTANT Id    \* names of pipelines

Option(S) == {<<>>} \cup [1 .. 1 -> S]

InputType == {"rtsp", "device"}
Strategy == {"passthrough", "transcode", "hardware_decode"}
InputBackend == {"auto", "ffmpeg", "v4l2", "libcamera"}
DropPolicy == {"block", "drop_oldest", "drop_newest"}

(* What the code tells apart in PipelineNode.input: an rtsp URL with a     *)
(* host; the same whose text contains "mock"; an absolute or ./ path; such *)
(* a path with "mock" in it; a camera selector; anything else.             *)
Input == {"rtsp_url", "rtsp_mock", "path", "path_mock", "camera_selector", "other"}

NetworkProfile == [size : Nat, stall : Nat]
ProcessingProfile == [codec : {"h264", "other"},
                      encoder : {"software", "libx264", "hardware", "v4l2m2m", "other"},
                      rate : Nat, rotation : Option(-360 .. 360)]

(* An overlay layer.  A text's template is balanced or not and names       *)
(* variables; an image is a local file that FFmpeg reads or not, a URL, or *)
(* blank.                                                                  *)
Style == [font_size : Option(Nat), alpha : Option(Nat)]
OverlayLayer ==
  [kind : {"timestamp"}, blank_format : BOOLEAN, style : Style]
  \cup [kind : {"text"}, balanced : BOOLEAN, variables : SUBSET STRING, style : Style]
  \cup [kind : {"watermark"}, image : {"readable", "unreadable", "url", "blank"},
        max_width : Option(Nat), opacity : Option(Nat)]

OutputProfile == [kind : {"webrtc", "recording"}, limit : Option(Nat), policy : DropPolicy,
                  mtu : Option(Nat)]

PipelineNode ==
  [id : Id, input : Input, type : InputType, strategy : Strategy,
   backend : Option(InputBackend), network : Option(NetworkProfile),
   processing : Option(ProcessingProfile), overlay : Option(Seq(OverlayLayer)),
   outputs : Seq(OutputProfile)]
CamlManifest ==
  [target : {"pi4", "pi5", "generic"}, cma : Option(Nat), media : Option(Nat),
   pipelines : Seq(PipelineNode)]
-----------------------------------------------------------------------------
ValidStyle(s) == (s.font_size # <<>> => s.font_size[1] > 0) /\ (s.alpha # <<>> => s.alpha[1] <= 100)

ValidLayer(layer) ==
  CASE layer.kind = "timestamp" -> ValidStyle(layer.style) /\ ~layer.blank_format
    [] layer.kind = "text" -> ValidStyle(layer.style)
    [] layer.kind = "watermark" ->
         /\ layer.image \notin {"url", "blank"}
         /\ layer.max_width # <<>> => layer.max_width[1] > 0
         /\ layer.opacity # <<>> => layer.opacity[1] <= 100

ValidStructure(p) ==
  IF p.strategy = "passthrough"
  THEN p.network # <<>> /\ p.processing = <<>> /\ p.overlay = <<>>
  ELSE p.processing # <<>>

ValidInput(p) ==
  IF p.type = "rtsp"
  THEN /\ p.backend # <<>> => p.backend[1] \in {"auto", "ffmpeg"}
       /\ p.input \in {"rtsp_url", "rtsp_mock"}
  ELSE p.input \in {"path", "path_mock"}

ValidNode(p) ==
  /\ ValidStructure(p)
  /\ p.overlay # <<>> =>
       p.overlay[1] # <<>> /\ \A i \in DOMAIN p.overlay[1] : ValidLayer(p.overlay[1][i])
  /\ ValidInput(p)

(* CamlManifest::validate                                                  *)
Valid(m) ==
  /\ m.cma # <<>> \/ m.media # <<>>
  /\ m.pipelines # <<>>
  /\ \A i \in DOMAIN m.pipelines : ValidNode(m.pipelines[i])
=============================================================================
