----------------------------- MODULE WebRtcSink -----------------------------
(***************************************************************************)
(* WebRtcSink of caml-webrtc/src/lib.rs: the pipeline's task enqueues      *)
(* encoded packets in a bounded queue, a sender task dequeues, packetizes  *)
(* and writes them.  Both sides wait on one tokio Notify, each creating    *)
(* its Notified future under the queue's lock and awaiting it after the    *)
(* lock is released.                                                       *)
(*                                                                         *)
(* Each critical section is an action, and so is the first poll of a       *)
(* future.  No await separates releasing the lock from that poll, nor from *)
(* the notify_waiters that follows it in close_and_flush and               *)
(* set_sender_error: on an executor with one thread nobody else runs in    *)
(* between, on the multi-threaded one the other side does.                 *)
(***************************************************************************)
EXTENDS Naturals, Sequences, SequencesExt

CONSTANTS QueueLimit,  \* queue_limit
          Policies,    \* the drop policies to consider
          Executors,   \* the executors to consider
          Packets,     \* bound of the model: packets the source delivers
          Keyframes    \* those of them with is_keyframe

ASSUME SinkConstants ==
  /\ QueueLimit \in Nat \ {0} /\ Packets \in Nat /\ Keyframes \subseteq 1 .. Packets
  /\ Policies \subseteq {"Block", "DropNewest", "DropOldest"}
  /\ Executors \subseteq {"current_thread", "multi_thread"}

Side == {"producer", "sender"}
Packet == 1 .. Packets     \* a packet is its place in the stream
None == 0

VARIABLES
  policy,    \* WebRtcSink.drop_policy
  executor,  \* the runtime the tasks run on
  queue, closed, error,  \* WebRtcSharedState
  permit,    \* Notify: a stored permit
  future,    \* the Notified future of each side
  producer,  \* where consume stands
  packet,    \* the packet consume was given
  sender,    \* where run_sender_loop stands
  sending,   \* the packet process_packet works on
  next,      \* the next packet of the stream
  accepted,  \* history: packets for which consume returned Ok
  dropped,   \* history: packets reported to record_backpressure_drop
  delivered, \* history: packets written, in order
  flushed    \* history: how close_and_flush returned

shared  == <<queue, closed, error>>
notify  == <<permit, future>>
history == <<accepted, dropped, delivered, flushed>>
vars == <<policy, executor, shared, notify, producer, packet, sender, sending,
          next, history>>

Init ==
  /\ policy \in Policies /\ executor \in Executors
  /\ queue = <<>> /\ closed = FALSE /\ error = FALSE
  /\ permit = FALSE /\ future = [s \in Side |-> "none"]
  /\ producer = "idle" /\ packet = None
  /\ sender = "take" /\ sending = None
  /\ next = 1
  /\ accepted = {} /\ dropped = {} /\ delivered = <<>> /\ flushed = "no"

(* Between two await points of one side, on a single thread, the other     *)
(* does not run.                                                           *)
Midway == [s \in Side |->
  \/ future[s] \in {"created", "called"}
  \/ s = "producer" /\ producer = "closing"
  \/ s = "sender" /\ sender = "failing"]
Runs(s) == executor = "multi_thread" \/ \A t \in Side \ {s} : ~Midway[t]
-----------------------------------------------------------------------------
(* tokio::sync::Notify.  A future is created, notes a notify_waiters call  *)
(* made before its first poll (called), and at that poll takes a stored    *)
(* permit, returns if called, or registers as waiting.                     *)
Notified(s) == future' = [future EXCEPT ![s] = "created"] /\ UNCHANGED permit

(* Only the producer calls notify_one, so only the sender can be waiting.  *)
NotifyOne ==
  IF future["sender"] = "waiting"
  THEN future' = [future EXCEPT !["sender"] = "woken"] /\ UNCHANGED permit
  ELSE permit' = TRUE /\ UNCHANGED future

NotifyWaiters ==
  /\ future' = [s \in Side |-> CASE future[s] = "created" -> "called"
                                 [] future[s] = "waiting" -> "woken"
                                 [] OTHER -> future[s]]
  /\ UNCHANGED permit

Registers(s) ==
  /\ future[s] = "created" /\ ~permit
  /\ future' = [future EXCEPT ![s] = "waiting"]
  /\ UNCHANGED permit

Completes(s) ==
  /\ \/ future[s] = "woken" /\ UNCHANGED permit
     \/ future[s] \in {"created", "called"} /\ permit /\ permit' = FALSE
     \/ future[s] = "called" /\ ~permit /\ UNCHANGED permit
  /\ future' = [future EXCEPT ![s] = "none"]
-----------------------------------------------------------------------------
(* MediaSink::consume with a packet; both of its looks at the shared error *)
(* before the queue is locked are one.                                     *)
Consume ==
  /\ producer = "idle" /\ Runs("producer") /\ next <= Packets
  /\ packet' = next /\ next' = next + 1
  /\ producer' = "check"
  /\ UNCHANGED <<policy, executor, shared, notify, sender, sending, history>>

SharedError ==
  /\ producer = "check" /\ Runs("producer")
  /\ IF error THEN producer' = "idle" /\ packet' = None
              ELSE producer' = "push" /\ UNCHANGED packet
  /\ UNCHANGED <<policy, executor, shared, notify, sender, sending, next, history>>

Return == producer' = "idle" /\ packet' = None

EnqueueClosed ==
  /\ producer = "push" /\ Runs("producer") /\ closed
  /\ Return
  /\ UNCHANGED <<policy, executor, shared, notify, sender, sending, next, history>>

HasRoom == Len(queue) < QueueLimit

WakeNobody == UNCHANGED notify            \* mutant: notify_one is forgotten
WakeSender == NotifyOne

EnqueueFits ==
  /\ producer = "push" /\ Runs("producer") /\ ~closed /\ HasRoom
  /\ queue' = Append(queue, packet)
  /\ WakeSender
  /\ accepted' = accepted \cup {packet}
  /\ Return
  /\ UNCHANGED <<policy, executor, closed, error, sender, sending, next,
                 dropped, delivered, flushed>>

Full == producer = "push" /\ Runs("producer") /\ ~closed /\ ~HasRoom

EnqueueBlocks ==
  /\ Full /\ policy = "Block"
  /\ Notified("producer")
  /\ producer' = "wait"
  /\ UNCHANGED <<policy, executor, shared, packet, sender, sending, next, history>>

EnqueueDropsNewest ==
  /\ Full /\ policy = "DropNewest"
  /\ accepted' = accepted \cup {packet} /\ dropped' = dropped \cup {packet}
  /\ Return
  /\ UNCHANGED <<policy, executor, shared, notify, sender, sending, next,
                 delivered, flushed>>

(* drop_oldest_prefer_delta: the first delta frame, else the front.        *)
Victim ==
  LET deltas == {i \in DOMAIN queue : queue[i] \notin Keyframes} IN
  IF deltas = {} THEN 1 ELSE CHOOSE i \in deltas : \A j \in deltas : i <= j

EvictedBySwap(i) ==                    \* mutant: swap_remove_back for remove
  IF i = Len(queue) THEN Front(queue) ELSE Front([queue EXCEPT ![i] = Last(queue)])
EvictedThrough(i) == SubSeq(queue, i + 1, Len(queue))   \* mutant: drain(..=i) for remove(i)
Evicted(i) == RemoveAt(queue, i)

EnqueueDropsOldest ==
  /\ Full /\ policy = "DropOldest"
  /\ queue' = Append(Evicted(Victim), packet)
  /\ WakeSender
  /\ accepted' = accepted \cup {packet} /\ dropped' = dropped \cup {queue[Victim]}
  /\ Return
  /\ UNCHANGED <<policy, executor, closed, error, sender, sending, next,
                 delivered, flushed>>

(* The poll of wait_for_capacity; woken, the enqueue loop starts over.     *)
ProducerWaits ==
  /\ producer = "wait" /\ Runs("producer")
  /\ \/ Registers("producer") /\ UNCHANGED producer
     \/ Completes("producer") /\ producer' = "check"
  /\ UNCHANGED <<policy, executor, shared, packet, sender, sending, next, history>>

(* consume with EndOfStream, unless the sender has failed: close_and_flush *)
(* closes the queue, notifies, and joins the sender.                       *)
EndOfStream ==
  /\ producer = "idle" /\ Runs("producer") /\ ~error
  /\ producer' = "close"
  /\ UNCHANGED <<policy, executor, shared, notify, packet, sender, sending, next,
                 history>>

Close ==
  /\ producer = "close" /\ Runs("producer")
  /\ closed' = TRUE /\ producer' = "closing"
  /\ UNCHANGED <<policy, executor, queue, error, notify, packet, sender, sending,
                 next, history>>

CloseSilently ==                       \* mutant: the sender is not told
  /\ producer = "closing" /\ Runs("producer")
  /\ producer' = "joining"
  /\ UNCHANGED <<policy, executor, shared, notify, packet, sender, sending, next, history>>
CloseNotifies ==
  /\ producer = "closing" /\ Runs("producer")
  /\ NotifyWaiters
  /\ producer' = "joining"
  /\ UNCHANGED <<policy, executor, shared, packet, sender, sending, next, history>>

(* The join returns whether the sender ended or panicked: the JoinError is *)
(* discarded, and only the shared error makes the flush fail.              *)
Flushed ==
  /\ producer = "joining" /\ Runs("producer") /\ sender \in {"gone", "panicked"}
  /\ producer' = "idle"
  /\ flushed' = IF error THEN "error" ELSE "ok"
  /\ UNCHANGED <<policy, executor, shared, notify, packet, sender, sending, next,
                 accepted, dropped, delivered>>

(* Drop for WebRtcSink, between two calls: the sender is aborted, unless   *)
(* it is over already.                                                     *)
DropSink ==
  /\ producer = "idle" /\ Runs("producer")
  /\ producer' = "gone"
  /\ IF sender = "panicked" THEN UNCHANGED <<sender, sending>>
                            ELSE sender' = "gone" /\ sending' = None
  /\ future' = [future EXCEPT !["sender"] = "none"]
  /\ UNCHANGED <<policy, executor, shared, permit, packet, next, history>>
-----------------------------------------------------------------------------
(* dequeue_packet.  Its look at the shared error finds none: only the      *)
(* sender sets it, and ends.                                               *)
Taking == sender = "take" /\ Runs("sender")

DequeuePacket ==
  /\ Taking /\ queue # <<>>
  /\ sending' = Head(queue) /\ queue' = Tail(queue)
  /\ NotifyWaiters
  /\ sender' = "process"
  /\ UNCHANGED <<policy, executor, closed, error, producer, packet, next, history>>

DrainedUnseen == TRUE                  \* mutant: closed is looked at before the queue
Drained == queue = <<>>

DequeueClosed ==
  /\ Taking /\ Drained /\ closed
  /\ NotifyWaiters
  /\ sender' = "gone"
  /\ UNCHANGED <<policy, executor, shared, producer, packet, sending, next, history>>

DequeueEmpty ==
  /\ Taking /\ queue = <<>> /\ ~closed
  /\ Notified("sender")
  /\ sender' = "wait"
  /\ UNCHANGED <<policy, executor, shared, producer, packet, sending, next, history>>

SenderWaits ==
  /\ sender = "wait" /\ Runs("sender")
  /\ \/ Registers("sender") /\ UNCHANGED sender
     \/ Completes("sender") /\ sender' = "take"
  /\ UNCHANGED <<policy, executor, shared, producer, packet, sending, next, history>>

(* process_packet: the packet is written, or packetizing or a write fails  *)
(* (a write that stalls fails after 500 ms).                               *)
ProcessOk ==
  /\ sender = "process" /\ Runs("sender")
  /\ delivered' = Append(delivered, sending) /\ sending' = None
  /\ sender' = "take"
  /\ UNCHANGED <<policy, executor, shared, notify, producer, packet, next,
                 accepted, dropped, flushed>>

ProcessFails ==
  /\ sender = "process" /\ Runs("sender")
  /\ sending' = None /\ sender' = "failed"
  /\ UNCHANGED <<policy, executor, shared, notify, producer, packet, next, history>>

(* The metrics, the packetizer or the writer panics: the task is over, no  *)
(* error is set and nobody is notified.  The packet at hand stays in       *)
(* sending, as a history of where the sender died.                         *)
SenderPanics ==
  /\ sender = "process" /\ Runs("sender")
  /\ sender' = "panicked"
  /\ UNCHANGED <<policy, executor, shared, notify, producer, packet, sending, next,
                 history>>

(* set_sender_error                                                        *)
SetSenderError ==
  /\ sender = "failed" /\ Runs("sender")
  /\ error' = TRUE /\ sender' = "failing"
  /\ UNCHANGED <<policy, executor, queue, closed, notify, producer, packet, sending,
                 next, history>>

ErrorNotifies ==
  /\ sender = "failing" /\ Runs("sender")
  /\ NotifyWaiters
  /\ sender' = "gone"
  /\ UNCHANGED <<policy, executor, shared, producer, packet, sending, next, history>>
-----------------------------------------------------------------------------
Producing == \/ SharedError \/ EnqueueClosed \/ EnqueueFits \/ EnqueueBlocks
             \/ EnqueueDropsNewest \/ EnqueueDropsOldest \/ ProducerWaits
             \/ Close \/ CloseNotifies \/ Flushed
Sending   == \/ DequeuePacket \/ DequeueClosed \/ DequeueEmpty
             \/ SenderWaits \/ ProcessOk \/ ProcessFails \/ SetSenderError
             \/ ErrorNotifies
Calling   == Consume \/ EndOfStream \/ DropSink

Next == Producing \/ Sending \/ Calling \/ SenderPanics

Spec == Init /\ [][Next]_vars

(* Both tasks are run by the executor when they are ready; nobody needs to *)
(* call the sink again.  A write ends by its timeout at the latest.        *)
FairSpec == Spec /\ WF_vars(Producing) /\ WF_vars(Sending)
-----------------------------------------------------------------------------
TypeOK ==
  /\ policy \in Policies /\ executor \in Executors
  /\ queue \in Seq(Packet) /\ Len(queue) <= QueueLimit /\ closed \in BOOLEAN /\ error \in BOOLEAN
  /\ permit \in BOOLEAN
  /\ future \in [Side -> {"none", "created", "called", "waiting", "woken"}]
  /\ producer \in {"idle", "check", "push", "wait", "close", "closing", "joining", "gone"}
  /\ sender \in {"take", "wait", "process", "failed", "failing", "gone", "panicked"}
  /\ packet \in Packet \cup {None} /\ sending \in Packet \cup {None}
  /\ next \in 1 .. Packets + 1
  /\ accepted \subseteq Packet /\ dropped \subseteq accepted
  /\ delivered \in Seq(Packet) /\ ToSet(delivered) \subseteq accepted /\ flushed \in {"no", "ok", "error"}

(* Packets leave in the order they came, whatever is evicted in between.   *)
InOrder ==
  LET line == delivered \o (IF sending = None THEN <<>> ELSE <<sending>>) \o queue IN
  \A i, j \in DOMAIN line : i < j => line[i] < line[j]

(* What close_and_flush means by Ok.  If the sender came to its end, every *)
(* packet consume accepted has been written or was reported as dropped.    *)
(* If it panicked, Ok is returned all the same (the JoinError is thrown    *)
(* away), and it means less: the packet the sender panicked at and those   *)
(* behind it in the queue are lost unreported, but no others.              *)
FlushedAll ==
  flushed = "ok" =>
    accepted \ dropped = ToSet(delivered) \cup
      (IF sender = "panicked" THEN {sending} \cup ToSet(queue) ELSE {})

(* The sink is a LossyQueue: a packet in the queue is evicted only by one  *)
(* that takes its place, one for one, and lost only when the sender ends;  *)
(* the others are written from the oldest on, whatever errors, closing and *)
(* blocking come in between.                                               *)
queueOf == [r \in {"sender"} |->
  [newest |-> (IF packet = None THEN next ELSE packet) - 1, passed |-> delivered,
   ended |-> sender \in {"failed", "failing", "gone", "panicked"},
   waiting |-> ToSet(queue) \cup ({sending} \ {None})]]

Lossy == INSTANCE LossyQueue WITH Receiver <- {"sender"}, queues <- queueOf
ImplementsQueue == Lossy!Spec

(* A packet in the queue is written or evicted, unless the sender fails,   *)
(* panics or is aborted: it is always woken for it.  The exception is      *)
(* Block on the multi-threaded executor (see BackPressureEnds).            *)
QueueDrains ==
  \A p \in Packet :
    (policy # "Block" \/ executor = "current_thread") /\ p \in ToSet(queue) ~>
       p \in ToSet(delivered) \cup dropped \/ error \/ sender \in {"gone", "panicked"}

(* Flushing ends, whatever the sender was doing.                           *)
FlushReturns == producer = "joining" ~> producer # "joining"

(* "Back-pressure the ingestion loop until the sink drains."               *)
(* (frontend.rs:65): a producer held back by a full queue goes on while    *)
(* the sender has neither failed nor panicked.                             *)
BackPressureEnds == producer = "wait" ~> producer # "wait" \/ error \/ sender = "panicked"

(* "If a track write times out ..., caml terminates or recovers the        *)
(* pipeline cleanly." (docs/webrtc.md:22): the producer held back by a     *)
(* full queue learns of the failure.                                       *)
FailureReleases == producer = "wait" /\ error ~> producer # "wait"
=============================================================================
