---------------------------- MODULE CameraSource ----------------------------
(***************************************************************************)
(* NativeLibcameraProvider and its camera thread                           *)
(* (caml-linux-media/src/camera/native.rs).  The thread acquires the       *)
(* camera, keeps its requests going round, and copies every completed one  *)
(* into an unbounded channel, looking for a Shutdown command between two   *)
(* waits of 10 ms.  Dropping the provider sends the command and joins the  *)
(* thread.  A pipeline that restarts opens another provider: providers and *)
(* threads are numbered by generation.  libcamera itself is external.      *)
(***************************************************************************)
EXTENDS Naturals, Sequences, SequencesExt

CONSTANTS Requests, \* requests the allocator gives buffers for
          Opens,    \* bound of the model: providers ever opened
          Frames    \* bound of the model: frames the camera takes for one thread

ASSUME CameraConstants == Requests \in Nat \ {0} /\ Opens \in Nat \ {0} /\ Frames \in Nat

Gen == 1 .. Opens
None == 0
Frame == 1 .. Frames          \* a frame is its sequence number
Terminated == Frames + 1      \* the error of next_payload

VARIABLES
  provider,  \* the generation of the provider the pipeline holds, or None
  joining,   \* its drop has begun
  opened,    \* generations opened so far
  shutdown,  \* a Shutdown waits in the command channel
  worker,    \* where each thread stands
  holder,    \* the generation that has acquired the camera, or None
  queued,    \* requests that are with the camera
  completed, \* frames of the requests the callback has handed to the thread
  taken,     \* frames the camera has taken
  frames,    \* the channel from the thread to the provider
  answers    \* history: what next_payload has returned, per generation

vars == <<provider, joining, opened, shutdown, worker, holder, queued, completed, taken,
          frames, answers>>
pipeline == <<provider, joining, opened, shutdown>>

Init ==
  /\ provider = None /\ joining = FALSE /\ opened = 0 /\ holder = None
  /\ shutdown = [g \in Gen |-> FALSE] /\ worker = [g \in Gen |-> "unborn"]
  /\ queued = [g \in Gen |-> 0] /\ taken = [g \in Gen |-> 0]
  /\ completed = [g \in Gen |-> <<>>] /\ frames = [g \in Gen |-> <<>>]
  /\ answers = [g \in Gen |-> <<>>]

Failed(g) == answers[g] # <<>> /\ Last(answers[g]) = Terminated
-----------------------------------------------------------------------------
(* NativeLibcameraFactory::open; a pipeline whose source has failed ends.  *)
Open ==
  /\ provider = None /\ opened < Opens /\ \A g \in Gen : ~Failed(g)
  /\ opened' = opened + 1 /\ provider' = opened'
  /\ worker' = [worker EXCEPT ![opened'] = "setup"]
  /\ UNCHANGED <<joining, shutdown, holder, queued, completed, taken, frames, answers>>

(* NativeLibcameraProvider::next_payload: the channel is read to its end   *)
(* before a thread that is gone is noticed.                                *)
Polled(g) == provider = g /\ ~joining /\ ~Failed(g)

NextPayloadHasty ==                     \* mutant: a thread that is gone is noticed first
  \E g \in Gen :
    /\ Polled(g)
    /\ IF worker[g] = "over"
       THEN answers' = [answers EXCEPT ![g] = Append(@, Terminated)] /\ UNCHANGED frames
       ELSE /\ frames[g] # <<>>
            /\ answers' = [answers EXCEPT ![g] = Append(@, Head(frames[g]))]
            /\ frames' = [frames EXCEPT ![g] = Tail(@)]
    /\ UNCHANGED <<pipeline, worker, holder, queued, completed, taken>>
NextPayloadOpen ==                      \* mutant: the provider keeps a sender of its own
  \E g \in Gen :
    /\ Polled(g) /\ frames[g] # <<>>
    /\ answers' = [answers EXCEPT ![g] = Append(@, Head(frames[g]))]
    /\ frames' = [frames EXCEPT ![g] = Tail(@)]
    /\ UNCHANGED <<pipeline, worker, holder, queued, completed, taken>>
NextPayload ==
  \E g \in Gen :
    /\ Polled(g)
    /\ \/ /\ frames[g] # <<>>
          /\ answers' = [answers EXCEPT ![g] = Append(@, Head(frames[g]))]
          /\ frames' = [frames EXCEPT ![g] = Tail(@)]
       \/ /\ frames[g] = <<>> /\ worker[g] = "over"
          /\ answers' = [answers EXCEPT ![g] = Append(@, Terminated)]
          /\ UNCHANGED frames
    /\ UNCHANGED <<pipeline, worker, holder, queued, completed, taken>>

(* Drop for NativeLibcameraProvider: the command, then the join; only then *)
(* does the receiver go, with the frames it still has.                     *)
DropProviderUnsaid ==                   \* mutant: join without the command
  /\ provider # None /\ ~joining /\ joining' = TRUE
  /\ UNCHANGED <<provider, opened, shutdown, worker, holder, queued, completed, taken,
                 frames, answers>>
DropProvider ==
  /\ provider # None /\ ~joining /\ joining' = TRUE
  /\ shutdown' = [shutdown EXCEPT ![provider] = TRUE]
  /\ UNCHANGED <<provider, opened, worker, holder, queued, completed, taken, frames, answers>>

JoinSkipped ==                          \* mutant: the handle is dropped, the thread detached
  /\ joining
  /\ joining' = FALSE /\ provider' = None
  /\ frames' = [frames EXCEPT ![provider] = <<>>]
  /\ UNCHANGED <<opened, shutdown, worker, holder, queued, completed, taken, answers>>
Join ==
  /\ joining /\ worker[provider] = "over"
  /\ joining' = FALSE /\ provider' = None
  /\ frames' = [frames EXCEPT ![provider] = <<>>]
  /\ UNCHANGED <<opened, shutdown, worker, holder, queued, completed, taken, answers>>
-----------------------------------------------------------------------------
(* run_camera_worker returns, by an error, a panic or a break: its locals  *)
(* are dropped, so the camera is released, and then its sender.            *)
Over(g) ==
  /\ worker' = [worker EXCEPT ![g] = "over"]
  /\ holder' = IF holder = g THEN None ELSE holder

Moves(g, from, to) == worker[g] = from /\ worker' = [worker EXCEPT ![g] = to]

Idle == UNCHANGED <<pipeline, queued, completed, taken, frames, answers>>

(* Manager, selection and acquisition of the camera; then configuration,   *)
(* buffers and start.                                                      *)
Acquire(g) == Moves(g, "setup", "configure") /\ holder = None /\ holder' = g /\ Idle

Configure(g) == Moves(g, "configure", "queue") /\ UNCHANGED holder /\ Idle

SetupFails(g) == worker[g] \in {"setup", "configure"} /\ Over(g) /\ Idle

(* Every request is queued once before the loop begins.                    *)
QueueFirst(g) ==
  /\ IF queued[g] + Len(completed[g]) + 1 = Requests
     THEN Moves(g, "queue", "loop") ELSE Moves(g, "queue", "queue")
  /\ queued' = [queued EXCEPT ![g] = @ + 1]
  /\ UNCHANGED <<pipeline, holder, completed, taken, frames, answers>>

QueueFails(g) == worker[g] \in {"queue", "requeue"} /\ Over(g) /\ Idle

(* The loop: the command first, then at most 10 ms for a request.          *)
SeeShutdown(g) == worker[g] = "loop" /\ shutdown[g] /\ Over(g) /\ Idle

SeeNone(g) == Moves(g, "loop", "wait") /\ ~shutdown[g] /\ UNCHANGED holder /\ Idle

WaitOver(g) == Moves(g, "wait", "loop") /\ completed[g] = <<>> /\ UNCHANGED holder /\ Idle

ForwardLatest(g) ==                     \* mutant: older frames are skipped to catch up
  /\ Moves(g, "wait", "requeue") /\ completed[g] # <<>>
  /\ frames' = [frames EXCEPT ![g] = Append(@, Last(completed[g]))]
  /\ completed' = [completed EXCEPT ![g] = <<>>]
  /\ UNCHANGED <<pipeline, holder, queued, taken, answers>>
Forward(g) ==
  /\ completed[g] # <<>> /\ completed' = [completed EXCEPT ![g] = Tail(@)]
  /\ IF provider = g
     THEN /\ Moves(g, "wait", "requeue")
          /\ frames' = [frames EXCEPT ![g] = Append(@, Head(completed[g]))]
          /\ UNCHANGED holder
     ELSE worker[g] = "wait" /\ Over(g) /\ UNCHANGED frames
  /\ UNCHANGED <<pipeline, queued, taken, answers>>

Requeue(g) ==
  /\ Moves(g, "requeue", "loop")
  /\ queued' = [queued EXCEPT ![g] = @ + 1]
  /\ UNCHANGED <<pipeline, holder, completed, taken, frames, answers>>

(* The camera fills requests in their order; the callback only forwards.   *)
Complete(g) ==
  /\ worker[g] \in {"queue", "loop", "wait", "requeue"}
  /\ queued[g] > 0 /\ taken[g] < Frames
  /\ taken' = [taken EXCEPT ![g] = @ + 1] /\ queued' = [queued EXCEPT ![g] = @ - 1]
  /\ completed' = [completed EXCEPT ![g] = Append(@, taken'[g])]
  /\ UNCHANGED <<pipeline, worker, holder, frames, answers>>
-----------------------------------------------------------------------------
Setup(g) == Acquire(g) \/ Configure(g) \/ SetupFails(g) \/ QueueFirst(g) \/ QueueFails(g)
Loop(g) == SeeShutdown(g) \/ SeeNone(g) \/ WaitOver(g) \/ Forward(g) \/ Requeue(g)

Next == \/ Open \/ NextPayload \/ DropProvider \/ Join
        \/ \E g \in Gen : Setup(g) \/ Loop(g) \/ Complete(g)

Spec == Init /\ [][Next]_vars

(* The thread runs and its calls to libcamera return; the camera itself    *)
(* need never complete a request.                                          *)
FairSpec == Spec /\ WF_vars(NextPayload) /\ WF_vars(Join)
                 /\ \A g \in Gen : WF_vars(Setup(g) \/ Loop(g))
-----------------------------------------------------------------------------
TypeOK ==
  /\ provider \in Gen \cup {None} /\ joining \in BOOLEAN /\ opened \in 0 .. Opens
  /\ holder \in Gen \cup {None}
  /\ shutdown \in [Gen -> BOOLEAN]
  /\ worker \in [Gen -> {"unborn", "setup", "configure", "queue", "loop", "wait", "requeue",
                         "over"}]
  /\ queued \in [Gen -> 0 .. Requests] /\ taken \in [Gen -> 0 .. Frames]
  /\ completed \in [Gen -> Seq(Frame)]
  /\ \A g \in Gen : queued[g] + Len(completed[g]) <= Requests
  /\ frames \in [Gen -> Seq(Frame)] /\ answers \in [Gen -> Seq(Frame \cup {Terminated})]

(* A restart never finds its camera busy: the thread of the last provider  *)
(* has released it before the next one asks, and no two threads run.       *)
ExclusiveCamera ==
  /\ \A g \in Gen : worker[g] = "setup" => holder = None
  /\ \A g, h \in Gen : {worker[g], worker[h]} \subseteq {"loop", "wait", "requeue"} => g = h

(* The pipeline gets the frames the camera has taken, all and in order;    *)
(* what is still with the thread when it ends is all that it misses.       *)
Returned(g) == IF Failed(g) THEN Front(answers[g]) ELSE answers[g]
Shot(n) == [i \in 1 .. n |-> i]
Gapless ==
  \A g \in Gen : provider = g => Returned(g) \o frames[g] \o completed[g] = Shot(taken[g])

(* When next_payload says that the thread is gone, every frame it sent has *)
(* been returned, and the camera is free.                                  *)
ErrorIsLast ==
  \A g \in Gen : provider = g /\ Failed(g) => frames[g] = <<>> /\ holder # g

(* Dropping the provider joins a thread from an async task: it returns,    *)
(* wherever the drop finds the thread, and without any answer of the       *)
(* camera.                                                                 *)
DropReturns == joining ~> ~joining

(* A thread that ends, for any reason and without a word, is reported to   *)
(* the pipeline, which still holds its provider.                           *)
DeathReported ==
  \A g \in Gen : provider = g /\ worker[g] = "over" ~> provider # g \/ joining \/ Failed(g)
=============================================================================
