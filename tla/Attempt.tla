------------------------------ MODULE Attempt ------------------------------
(***************************************************************************)
(* One attempt of an FFmpeg worker: demux_packets (worker.rs) or           *)
(* transcode_packets with its VideoTranscoder (transcode.rs).  A packet of *)
(* the input is its place in it, and so is the frame that is decoded,      *)
(* filtered and encoded from it.  libav is external: a stage holds back at *)
(* most Delay frames, refuses one more until it has been drained, gives up *)
(* everything it holds once it was told that the input has ended, and      *)
(* drops the frame it reports an error for.                                *)
(***************************************************************************)
EXTENDS H264

CONSTANTS Packets,     \* bound of the model: packets one attempt reads
          Delay,       \* frames a stage of libav may hold back
          Streams      \* the streams an input may turn out to hold

ASSUME AttemptConstants == Packets \in Nat /\ Delay \in Nat

VARIABLES
  mode,     \* "demux" or "transcode"
  stream,   \* what the input holds: its codec, its extradata, its payloads
  pc,       \* where the attempt stands
  phase,    \* what it has told the input's end to: nothing, the decoder, ...
  failure,  \* why it has failed
  read,     \* packets taken from the input and given to a stage
  decoder, filter, encoder,  \* what each stage holds
  sent,     \* what the channel was given
  lost,     \* frames a stage dropped with an error, or was not asked for any more
  cancelled, receiver,       \* the source's token, and whether it still receives
  config,   \* the stream's H.264 configuration, an option
  payload, normalized        \* the last packet demuxed, and what was sent for it

stages == <<decoder, filter, encoder>>
media  == <<config, payload, normalized>>
attemptVars == <<mode, stream, pc, phase, failure, read, stages, sent, lost,
                 cancelled, receiver, media>>

NoPayload == [bytes |-> <<>>, units |-> <<>>, key |-> FALSE, lengthSize |-> 0]
NoStream == [codec |-> "none", extradata |-> <<>>, payloads |-> {NoPayload}]

AttemptInit ==
  /\ mode = "none" /\ stream = NoStream
  /\ pc = "idle" /\ phase = "input" /\ failure = "none"
  /\ read = 0 /\ decoder = <<>> /\ filter = <<>> /\ encoder = <<>>
  /\ sent = <<>> /\ lost = {}
  /\ cancelled = FALSE /\ receiver = TRUE
  /\ config = <<>> /\ payload = NoPayload /\ normalized = <<>>

Fail(why) == pc' = "failed" /\ failure' = why
Goto(place) == pc' = place /\ UNCHANGED failure
-----------------------------------------------------------------------------
(* Opening: the input, its codec, its configuration.  parts is what the    *)
(* FFmpeg build has; the encoder is opened after the filters.              *)
DecoderPart(backend, codec) ==
  IF backend # "Pi5HardwareDecode" THEN {}
  ELSE {IF codec = "hevc" THEN "hevc_v4l2request" ELSE "h264_v4l2request"}
FiltersOpen(used, parts) == used \subseteq parts
EncoderOpens(backend, parts) ==
  IF backend = "Pi4HardwareEncode" THEN "h264_v4l2m2m" \in parts
  ELSE parts \cap {"libx264", "h264_v4l2m2m"} # {}

OpenDemux(s) ==
  /\ mode' = "demux" /\ stream' = s
  /\ LET extracted == ExtractConfig(s.extradata) IN
     IF s.codec # "h264" THEN Fail("codec") /\ UNCHANGED config
     ELSE IF ~extracted.ok THEN Fail("extradata") /\ UNCHANGED config
     ELSE Goto("read") /\ config' = extracted.config
  /\ UNCHANGED <<phase, read, stages, sent, lost, cancelled, receiver, payload, normalized>>

OpenTranscode(s, backend, used, parts) ==
  /\ mode' = "transcode" /\ stream' = s
  /\ IF backend = "Pi5HardwareDecode" /\ s.codec \notin {"h264", "hevc"} THEN Fail("codec")
     ELSE IF /\ DecoderPart(backend, s.codec) \subseteq parts
             /\ FiltersOpen(used, parts) /\ EncoderOpens(backend, parts)
     THEN Goto("read")
     ELSE Fail("part")
  /\ UNCHANGED <<phase, read, stages, sent, lost, cancelled, receiver, media>>
-----------------------------------------------------------------------------
(* A packet of the stream arrives, and the token is not cancelled.         *)
TakePacket ==
  /\ pc = "read" /\ read < Packets /\ ~cancelled
  /\ Goto("packet")
  /\ UNCHANGED <<mode, stream, phase, read, stages, sent, lost, cancelled, receiver, media>>

(* demux_packets: it is normalized and sent at once.                       *)
DemuxPacket(p) ==
  /\ mode = "demux" /\ pc = "packet"
  /\ LET bytes == Normalize(p.bytes, p.key, config) IN
     IF bytes = <<>> THEN Fail("payload") /\ UNCHANGED <<read, payload, normalized, sent>>
     ELSE /\ read' = read + 1 /\ payload' = p /\ normalized' = bytes[1]
          /\ IF receiver THEN sent' = Append(sent, read') /\ Goto("read")
             ELSE Goto("done") /\ UNCHANGED sent
  /\ UNCHANGED <<mode, stream, phase, stages, lost, cancelled, receiver, config>>

(* One arrives and the token is cancelled, or the input ends: a demuxer is *)
(* done, a transcoder flushes its stages.                                  *)
EndInputUnflushed ==                    \* mutant: a transcoder is done as well
  /\ pc = "read" /\ Goto("done")
  /\ UNCHANGED <<mode, stream, phase, read, stages, sent, lost, cancelled, receiver, media>>
EndInput ==
  /\ pc = "read"
  /\ IF mode = "demux" THEN Goto("done") /\ UNCHANGED phase
     ELSE Goto("decode") /\ phase' = "decoder"
  /\ UNCHANGED <<mode, stream, read, stages, sent, lost, cancelled, receiver, media>>

Refuses(stage) == Len(stage) > Delay

(* transcode_packets: it goes to the decoder, which is then drained.       *)
SendPacketUndrained ==                  \* mutant: the decoder is drained at the end only
  /\ mode = "transcode" /\ pc = "packet"
  /\ IF Refuses(decoder) THEN Fail("refused") /\ UNCHANGED <<read, decoder>>
     ELSE Goto("read") /\ read' = read + 1 /\ decoder' = Append(decoder, read')
  /\ UNCHANGED <<mode, stream, phase, filter, encoder, sent, lost, cancelled, receiver, media>>
SendPacket ==
  /\ mode = "transcode" /\ pc = "packet"
  /\ IF Refuses(decoder) THEN Fail("refused") /\ UNCHANGED <<read, decoder>>
     ELSE Goto("decode") /\ read' = read + 1 /\ decoder' = Append(decoder, read')
  /\ UNCHANGED <<mode, stream, phase, filter, encoder, sent, lost, cancelled, receiver, media>>

(* A stage has nothing to give: it asks for more input, or has given all.  *)
Dry(stage, ended) == IF ended THEN stage = <<>> ELSE Len(stage) <= Delay
DecoderEnded == phase # "input"
FilterEnded  == phase \in {"filter", "encoder"}
EncoderEnded == phase = "encoder"

(* Each of the three loops goes on while its stage gives something, and    *)
(* takes whatever else the stage says for a sign that it is dry: an error  *)
(* costs the frame at fault, and after the input's end all that the stage  *)
(* still held, for nobody asks it again.                                   *)
LeftByError(stage, ended) == IF ended THEN <<>> ELSE Tail(stage)

(* receive_decoded_frames: each frame goes through the filter.             *)
ReceiveDecoded ==
  /\ pc = "decode" /\ decoder # <<>>
  /\ decoder' = Tail(decoder) /\ filter' = Append(filter, Head(decoder))
  /\ Goto("filter")
  /\ UNCHANGED <<mode, stream, phase, read, encoder, sent, lost, cancelled, receiver, media>>

DecodedAll ==
  IF phase = "input" THEN Goto("read") /\ UNCHANGED phase
  ELSE Goto("filter") /\ phase' = "filter"

DecoderDry ==
  /\ pc = "decode" /\ Dry(decoder, DecoderEnded)
  /\ DecodedAll
  /\ UNCHANGED <<mode, stream, read, stages, sent, lost, cancelled, receiver, media>>

DecodeError ==
  /\ pc = "decode" /\ decoder # <<>>
  /\ decoder' = LeftByError(decoder, DecoderEnded)
  /\ lost' = lost \cup (ToSet(decoder) \ ToSet(decoder'))
  /\ DecodedAll
  /\ UNCHANGED <<mode, stream, read, filter, encoder, sent, cancelled, receiver, media>>

(* receive_filtered_frames: each filtered frame goes to the encoder.       *)
ReceiveFiltered ==
  /\ pc = "filter" /\ filter # <<>>
  /\ IF Refuses(encoder) THEN Fail("refused") /\ UNCHANGED <<filter, encoder>>
     ELSE /\ filter' = Tail(filter) /\ encoder' = Append(encoder, Head(filter))
          /\ Goto("encode")
  /\ UNCHANGED <<mode, stream, phase, read, decoder, sent, lost, cancelled, receiver, media>>

FilteredAll ==
  IF phase = "filter" THEN Goto("encode") /\ phase' = "encoder"
  ELSE Goto("decode") /\ UNCHANGED phase

FilterDry ==
  /\ pc = "filter" /\ Dry(filter, FilterEnded)
  /\ FilteredAll
  /\ UNCHANGED <<mode, stream, read, stages, sent, lost, cancelled, receiver, media>>

FilterError ==
  /\ pc = "filter" /\ filter # <<>>
  /\ filter' = LeftByError(filter, FilterEnded)
  /\ lost' = lost \cup (ToSet(filter) \ ToSet(filter'))
  /\ FilteredAll
  /\ UNCHANGED <<mode, stream, read, decoder, encoder, sent, cancelled, receiver, media>>

(* receive_encoded_packets: each packet is sent; once the receiver is gone *)
(* the packet is dropped, and the loop ends.                               *)
EncodedAll == IF EncoderEnded THEN Goto("done") ELSE Goto("filter")

ReceiveEncodedTries ==                  \* mutant: try_send where blocking_send belongs
  /\ pc = "encode" /\ encoder # <<>>
  /\ encoder' = Tail(encoder) /\ Goto("encode")
  /\ sent' \in {sent, Append(sent, Head(encoder))}
  /\ UNCHANGED <<mode, stream, phase, read, decoder, filter, lost, cancelled, receiver, media>>
ReceiveEncoded ==
  /\ pc = "encode" /\ encoder # <<>>
  /\ encoder' = Tail(encoder)
  /\ IF receiver THEN sent' = Append(sent, Head(encoder)) /\ Goto("encode")
     ELSE EncodedAll /\ UNCHANGED sent
  /\ UNCHANGED <<mode, stream, phase, read, decoder, filter, lost, cancelled, receiver, media>>

EncoderDry ==
  /\ pc = "encode" /\ Dry(encoder, EncoderEnded)
  /\ EncodedAll
  /\ UNCHANGED <<mode, stream, phase, read, stages, sent, lost, cancelled, receiver, media>>

EncoderError ==
  /\ pc = "encode" /\ encoder # <<>>
  /\ encoder' = LeftByError(encoder, EncoderEnded)
  /\ lost' = lost \cup (ToSet(encoder) \ ToSet(encoder'))
  /\ EncodedAll
  /\ UNCHANGED <<mode, stream, phase, read, decoder, filter, sent, cancelled, receiver, media>>

(* Any other call into libav may fail, and the attempt with it.            *)
MediaFails ==
  /\ pc \in {"read", "packet", "decode", "filter", "encode"}
  /\ Fail("media")
  /\ UNCHANGED <<mode, stream, phase, read, stages, sent, lost, cancelled, receiver, media>>

(* Drop for FfmpegSource cancels; then its receiver is gone.               *)
Cancel ==
  /\ pc \notin {"idle", "done", "failed"} /\ ~cancelled
  /\ cancelled' = TRUE
  /\ UNCHANGED <<mode, stream, pc, phase, failure, read, stages, sent, lost, receiver, media>>
DropReceiver ==
  /\ cancelled /\ receiver /\ pc \notin {"done", "failed"}
  /\ receiver' = FALSE
  /\ UNCHANGED <<mode, stream, pc, phase, failure, read, stages, sent, lost, cancelled, media>>
-----------------------------------------------------------------------------
AttemptNext ==
  \/ \E p \in stream.payloads : DemuxPacket(p)
  \/ TakePacket \/ EndInput \/ SendPacket
  \/ ReceiveDecoded \/ DecoderDry \/ DecodeError
  \/ ReceiveFiltered \/ FilterDry \/ FilterError
  \/ ReceiveEncoded \/ EncoderDry \/ EncoderError
  \/ MediaFails \/ Cancel \/ DropReceiver
=============================================================================
