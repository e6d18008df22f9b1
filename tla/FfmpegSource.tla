---------------------------- MODULE FfmpegSource ----------------------------
(***************************************************************************)
(* FfmpegSource and its worker thread (caml-ffmpeg/src/source.rs and       *)
(* worker.rs, the loop of transcode.rs): the thread demuxes or transcodes  *)
(* the input into a bounded channel, retries by itself, and is cancelled,  *)
(* but never joined, when the source is dropped.  The pipeline's task      *)
(* polls the source, drops it after an error, the end of the stream, a     *)
(* stall or a shutdown, and may build the next one while the thread of     *)
(* the last still runs: sources and threads are numbered by generation.    *)
(***************************************************************************)
EXTENDS Naturals, Sequences, SequencesExt

CONSTANTS Depth,    \* capacity of the channel (8)
          Builds,   \* bound of the model: sources ever built
          Packets,  \* bound of the model: packets one thread reads
          Failures  \* bound of the model: attempts of one thread that fail

ASSUME SourceConstants == Depth \in Nat \ {0} /\ Builds \in Nat \ {0} /\ Packets \in Nat
                             /\ Failures \in Nat

Gen == 1 .. Builds
None == 0
Packet == 1 .. Packets        \* a packet is its place in what the thread reads
Signal == Packets + 1 .. Packets + 3
EndOfStream      == Packets + 1   \* the other variants of WorkerMessage
RecoverableError == Packets + 2
FatalError       == Packets + 3
Message == Packet \cup Signal

VARIABLES
  input,    \* an RTSP URL, a /dev/video device, or a file, played again and again
  source,   \* the generation of the source the pipeline holds, or None
  built,    \* generations built so far
  cancel,   \* the CancellationToken of each generation
  channel,  \* what each channel buffers
  worker,   \* where each thread stands
  message,  \* the message a thread is sending
  read,     \* packets each thread has read
  attempts, \* attempts of each thread that have failed
  answers   \* history: what next has returned to the pipeline, per generation

vars == <<input, source, built, cancel, channel, worker, message, read, attempts, answers>>

Init ==
  /\ input \in {"rtsp", "device", "file"}
  /\ source = None /\ built = 0
  /\ cancel = [g \in Gen |-> FALSE] /\ channel = [g \in Gen |-> <<>>]
  /\ worker = [g \in Gen |-> "unborn"] /\ message = [g \in Gen |-> None]
  /\ read = [g \in Gen |-> 0] /\ attempts = [g \in Gen |-> 0]
  /\ answers = [g \in Gen |-> <<>>]

Ended(g) == worker[g] \in {"over", "panicked"}
-----------------------------------------------------------------------------
(* FfmpegSourceFactory::build_source                                       *)
BuildSource ==
  /\ source = None /\ built < Builds
  /\ built' = built + 1 /\ source' = built'
  /\ worker' = [worker EXCEPT ![built'] = "start"]
  /\ UNCHANGED <<input, cancel, channel, message, read, attempts, answers>>

(* The answer that makes the pipeline's task drop the source: anything but *)
(* a packet.                                                               *)
Answered(g) == answers[g] # <<>> /\ Last(answers[g]) \notin Packet

(* FfmpegSource::next; a channel that is empty and closed is an end of     *)
(* stream, too.                                                            *)
NextPayload ==
  LET g == source IN
  /\ g # None /\ ~Answered(g)
  /\ \/ /\ channel[g] # <<>>
        /\ answers' = [answers EXCEPT ![g] = Append(@, Head(channel[g]))]
        /\ channel' = [channel EXCEPT ![g] = Tail(@)]
     \/ /\ channel[g] = <<>> /\ Ended(g)
        /\ answers' = [answers EXCEPT ![g] = Append(@, EndOfStream)]
        /\ UNCHANGED channel
  /\ UNCHANGED <<input, source, built, cancel, worker, message, read, attempts>>

(* Drop for FfmpegSource: cancel, then the receiver goes with its messages.*)
DropSourceOnly ==                       \* mutant: drop without cancelling
  /\ source # None
  /\ channel' = [channel EXCEPT ![source] = <<>>]
  /\ source' = None
  /\ UNCHANGED <<input, built, cancel, worker, message, read, attempts, answers>>
DropSource ==
  /\ source # None
  /\ cancel' = [cancel EXCEPT ![source] = TRUE]
  /\ channel' = [channel EXCEPT ![source] = <<>>]
  /\ source' = None
  /\ UNCHANGED <<input, built, worker, message, read, attempts, answers>>
-----------------------------------------------------------------------------
(* blocking_send waits for room, and fails once the receiver is gone.  The *)
(* thread goes on all the same, but after a packet: demuxing then ends the *)
(* attempt as if the input had ended, transcoding reads the next packet.   *)
Sends(g, m, place) ==
  /\ message' = [message EXCEPT ![g] = m]
  /\ worker' = [worker EXCEPT ![g] = place]

AfterSendRetries(g) ==                  \* mutant: a stream is opened again after its end
  CASE message[g] \in Packet -> IF source = g THEN {"demux"} ELSE {"demux", "done"}
    [] message[g] \in {RecoverableError, EndOfStream} -> {"pause"}
    [] OTHER -> {"over"}
AfterSend(g) ==
  CASE message[g] \in Packet -> IF source = g THEN {"demux"} ELSE {"demux", "done"}
    [] message[g] = RecoverableError -> {"pause"}
    [] OTHER -> {"over"}

SendTries(g) ==                         \* mutant: try_send where blocking_send belongs
  /\ worker[g] = "send"
  /\ channel' = IF source = g /\ Len(channel[g]) < Depth
                THEN [channel EXCEPT ![g] = Append(@, message[g])] ELSE channel
  /\ \E place \in AfterSend(g) : Sends(g, None, place)
  /\ UNCHANGED <<input, source, built, cancel, read, attempts, answers>>
Send(g) ==
  /\ worker[g] = "send"
  /\ \/ /\ source = g /\ Len(channel[g]) < Depth
        /\ channel' = [channel EXCEPT ![g] = Append(@, message[g])]
     \/ source # g /\ UNCHANGED channel
  /\ \E place \in AfterSend(g) : Sends(g, None, place)
  /\ UNCHANGED <<input, source, built, cancel, read, attempts, answers>>

(* run_worker: initialization, and the head of its loop.                   *)
StartWorker(g) ==
  /\ worker[g] = "start"
  /\ \/ worker' = [worker EXCEPT ![g] = "check"] /\ UNCHANGED message
     \/ Sends(g, FatalError, "send")
  /\ UNCHANGED <<input, source, built, cancel, channel, read, attempts, answers>>

CheckCancel(g) ==
  /\ worker[g] = "check"
  /\ worker' = [worker EXCEPT ![g] = IF cancel[g] THEN "over" ELSE "demux"]
  /\ UNCHANGED <<input, source, built, cancel, channel, message, read, attempts, answers>>

(* demux_packets or transcode_packets: a packet arrives, and is sent on    *)
(* unless the source was dropped; the input ends; or something fails.      *)
ReadPacket(g) ==
  /\ worker[g] = "demux" /\ read[g] < Packets
  /\ read' = [read EXCEPT ![g] = @ + 1]
  /\ IF cancel[g]
     THEN worker' = [worker EXCEPT ![g] = "done"] /\ UNCHANGED message
     ELSE Sends(g, read'[g], "send")
  /\ UNCHANGED <<input, source, built, cancel, channel, attempts, answers>>

InputEnds(g) ==
  /\ worker[g] = "demux"
  /\ worker' = [worker EXCEPT ![g] = "done"]
  /\ UNCHANGED <<input, source, built, cancel, channel, message, read, attempts, answers>>

InputFailsUnsaid(g) ==                  \* mutant: the thread retries without a word
  /\ worker[g] = "demux" /\ attempts[g] < Failures
  /\ attempts' = [attempts EXCEPT ![g] = @ + 1]
  /\ worker' = [worker EXCEPT ![g] = "pause"]
  /\ UNCHANGED <<input, source, built, cancel, channel, message, read, answers>>
InputFails(g) ==
  /\ worker[g] = "demux" /\ attempts[g] < Failures
  /\ attempts' = [attempts EXCEPT ![g] = @ + 1]
  /\ Sends(g, RecoverableError, "send")
  /\ UNCHANGED <<input, source, built, cancel, channel, read, answers>>

(* The attempt was Ok: a stream or a device has ended, a file starts again.*)
AttemptDone(g) ==
  /\ worker[g] = "done"
  /\ IF input # "file" THEN Sends(g, EndOfStream, "send")
     ELSE worker' = [worker EXCEPT ![g] = "check"] /\ UNCHANGED message
  /\ UNCHANGED <<input, source, built, cancel, channel, read, attempts, answers>>

(* The attempt failed: the thread sleeps, and tries again.                 *)
Retry(g) ==
  /\ worker[g] = "pause"
  /\ worker' = [worker EXCEPT ![g] = "check"]
  /\ UNCHANGED <<input, source, built, cancel, channel, message, read, attempts, answers>>

(* The thread panics in the media code: its sender is dropped.             *)
PanicWorker(g) ==
  /\ worker[g] = "demux"
  /\ worker' = [worker EXCEPT ![g] = "panicked"]
  /\ UNCHANGED <<input, source, built, cancel, channel, message, read, attempts, answers>>
-----------------------------------------------------------------------------
Work(g) == Send(g) \/ StartWorker(g) \/ CheckCancel(g) \/ AttemptDone(g) \/ Retry(g)
Media(g) == ReadPacket(g) \/ InputEnds(g) \/ InputFails(g) \/ PanicWorker(g)

Next == \/ BuildSource \/ NextPayload \/ DropSource
        \/ \E g \in Gen : Work(g) \/ Media(g)

Spec == Init /\ [][Next]_vars

(* Threads run, sleeps end, and a call into FFmpeg for an RTSP input comes *)
(* back: it is opened with a timeout of five seconds.  A device or a file  *)
(* is opened with none, and with no callback that could interrupt it: a    *)
(* silent device, or a pipe nobody writes, keeps the thread for ever.  A   *)
(* file that fails or ends at once would be opened for ever: it is only    *)
(* the cancellation that ends its thread.                                  *)
FairSpec == /\ Spec /\ WF_vars(NextPayload)
            /\ \A g \in Gen : WF_vars(Work(g)) /\ WF_vars(input = "rtsp" /\ Media(g))
-----------------------------------------------------------------------------
TypeOK ==
  /\ input \in {"rtsp", "device", "file"} /\ source \in Gen \cup {None} /\ built \in 0 .. Builds
  /\ cancel \in [Gen -> BOOLEAN]
  /\ channel \in [Gen -> Seq(Message)] /\ \A g \in Gen : Len(channel[g]) <= Depth
  /\ worker \in [Gen -> {"unborn", "start", "check", "demux", "send", "done", "pause",
                         "over", "panicked"}]
  /\ message \in [Gen -> Message \cup {None}]
  /\ read \in [Gen -> 0 .. Packets] /\ attempts \in [Gen -> 0 .. Failures]
  /\ answers \in [Gen -> Seq(Message)]

(* As long as the pipeline holds a source it gets every packet its thread  *)
(* has read, in order, across all the thread's attempts and whatever the   *)
(* threads of earlier sources still do.                                    *)
Ordered(line, n) ==
  /\ ToSet(line) \cap Packet = 1 .. n
  /\ \A i, j \in DOMAIN line : i < j /\ {line[i], line[j]} \subseteq Packet => line[i] < line[j]
Gapless ==
  \A g \in Gen : source = g => Ordered(answers[g] \o channel[g] \o <<message[g]>>, read[g])

(* When next reports the end of the stream, or a fatal error, there is     *)
(* nothing more to come: the pipeline that stops for it loses nothing.     *)
EndIsLast ==
  \A g \in Gen : source = g /\ answers[g] # <<>>
                 /\ Last(answers[g]) \in {EndOfStream, FatalError} =>
     worker[g] \in {"over", "panicked"} /\ channel[g] = <<>>

(* A failed attempt is answered to the pipeline, however many packets wait *)
(* before it and although the thread is already trying again.              *)
FailureReported ==
  \A g \in Gen : source = g /\ attempts[g] > 0 ~> source # g \/ Answered(g)

(* The thread of a dropped source ends, wherever the drop found it: in a   *)
(* send, asleep, or reading.  One thing alone keeps it: a single call that *)
(* reads a device or a file and never returns, for it looks at the         *)
(* cancellation between two packets only.                                  *)
Reading(g) == input # "rtsp" /\ worker[g] = "demux"
WorkersEnd == \A g \in Gen : g <= built /\ source # g ~> Ended(g) \/ []Reading(g)
=============================================================================
