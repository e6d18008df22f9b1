---------------------------- MODULE FanoutRouter ----------------------------
(***************************************************************************)
(* FanoutRouter of caml-core/src/runtime.rs: one payload goes to several   *)
(* sinks, each behind a bounded channel read by an actor task of its own.  *)
(* consume visits the actors in order; what it does with a full channel is *)
(* the actor's drop policy.  An actor ignores its sink's errors; a sink    *)
(* that panics takes the actor, its receiver and what was buffered along.  *)
(***************************************************************************)
EXTENDS Naturals, Sequences, SequencesExt

CONSTANTS Policy,     \* SinkActorConfig.drop_policy of each sink, in order
          QueueLimit, \* SinkActorConfig.queue_limit of each sink
          Payloads    \* bound of the model: payloads the source delivers

Sink == DOMAIN Policy
ASSUME FanoutConstants ==              \* a pipeline of one sink has no router
  /\ Policy \in Seq({"Block", "DropNewest", "DropOldest"}) /\ Policy # <<>>
  /\ QueueLimit \in [Sink -> Nat \ {0}] /\ Payloads \in Nat

Payload == 1 .. Payloads
None == 0
Idle == 0      \* value of visit: consume is not running

VARIABLES
  visit,    \* the actor consume stands at, or Idle
  yielded,  \* DropOldest: the first try_send failed and consume has yielded
  payload,  \* the last payload consume was given
  result,   \* how consume returned last
  channel,  \* what each channel buffers
  actor,    \* each actor: receiving, consuming, panicked, aborted
  working,  \* the payload each actor's sink works on
  handled   \* history: payloads each sink's consume has returned for, in order

vars == <<visit, yielded, payload, result, channel, actor, working, handled>>

Init ==
  /\ visit = Idle /\ yielded = FALSE /\ payload = None /\ result = "ok"
  /\ channel = [s \in Sink |-> <<>>]
  /\ actor = [s \in Sink |-> "receiving"]
  /\ working = [s \in Sink |-> None]
  /\ handled = [s \in Sink |-> <<>>]

(* tokio::sync::mpsc: the channel is closed when its receiver is dropped.  *)
Open(s) == actor[s] \in {"receiving", "consuming"}
Room(s) == Open(s) /\ Len(channel[s]) < QueueLimit[s]

Dropped == \E s \in Sink : actor[s] = "aborted"
-----------------------------------------------------------------------------
(* The supervisor hands on no payload after consume has failed.            *)
Consume ==
  /\ visit = Idle /\ result = "ok" /\ ~Dropped /\ payload < Payloads
  /\ payload' = payload + 1 /\ visit' = 1
  /\ UNCHANGED <<yielded, result, channel, actor, working, handled>>

NextVisit == visit' = IF visit = Len(Policy) THEN Idle ELSE visit + 1

Enqueue(s) ==
  /\ channel' = [channel EXCEPT ![s] = Append(@, payload)]
  /\ yielded' = FALSE /\ NextVisit
  /\ UNCHANGED <<payload, result, actor, working, handled>>

Discard(s) ==
  /\ yielded' = FALSE /\ NextVisit
  /\ UNCHANGED <<payload, result, channel, actor, working, handled>>

Visiting(s) == visit = s /\ s \in Sink

(* Block: send().await waits for room.                                     *)
BlockTries(s) ==                       \* mutant: try_send where send().await belongs
  Visiting(s) /\ Policy[s] = "Block" /\ Open(s) /\ IF Room(s) THEN Enqueue(s) ELSE Discard(s)
BlockSends(s) == Visiting(s) /\ Policy[s] = "Block" /\ Room(s) /\ Enqueue(s)

(* A closed channel ends consume: the actors not yet visited get nothing.  *)
BlockFails(s) ==
  /\ Visiting(s) /\ Policy[s] = "Block" /\ ~Open(s)
  /\ visit' = Idle /\ result' = "error"
  /\ UNCHANGED <<yielded, payload, channel, actor, working, handled>>

NewestWaits(s) ==                      \* mutant: send().await where try_send belongs
  Visiting(s) /\ Policy[s] = "DropNewest" /\ Room(s) /\ Enqueue(s)
NewestTries(s) ==
  /\ Visiting(s) /\ Policy[s] = "DropNewest"
  /\ IF Room(s) THEN Enqueue(s) ELSE Discard(s)

(* DropOldest: try, yield to the other tasks, and try once more.           *)
OldestTriesTwice(s) ==                 \* mutant: retried whether or not the first try failed
  /\ Visiting(s) /\ Policy[s] = "DropOldest" /\ ~yielded
  /\ channel' = IF Room(s) THEN [channel EXCEPT ![s] = Append(@, payload)] ELSE channel
  /\ yielded' = TRUE
  /\ UNCHANGED <<visit, payload, result, actor, working, handled>>
OldestTries(s) ==
  /\ Visiting(s) /\ Policy[s] = "DropOldest" /\ ~yielded
  /\ IF Room(s) THEN Enqueue(s)
     ELSE /\ yielded' = TRUE
          /\ UNCHANGED <<visit, payload, result, channel, actor, working, handled>>

OldestRetries(s) ==
  /\ Visiting(s) /\ Policy[s] = "DropOldest" /\ yielded
  /\ IF Room(s) THEN Enqueue(s) ELSE Discard(s)

(* Drop for FanoutRouter, between two calls: the actors are aborted, and   *)
(* with them goes what they had buffered.                                  *)
DropRouter ==
  /\ visit = Idle /\ ~Dropped
  /\ actor' = [s \in Sink |-> IF Open(s) THEN "aborted" ELSE actor[s]]
  /\ channel' = [s \in Sink |-> <<>>]
  /\ working' = [s \in Sink |-> None]
  /\ \E s \in Sink : Open(s)
  /\ UNCHANGED <<visit, yielded, payload, result, handled>>
-----------------------------------------------------------------------------
Receive(s) ==
  /\ actor[s] = "receiving" /\ channel[s] # <<>>
  /\ working' = [working EXCEPT ![s] = Head(channel[s])]
  /\ channel' = [channel EXCEPT ![s] = Tail(@)]
  /\ actor' = [actor EXCEPT ![s] = "consuming"]
  /\ UNCHANGED <<visit, yielded, payload, result, handled>>

(* The sink's consume returns.  An error it returns leaves no trace: it is *)
(* thrown away where it is got (MCSinkFailures remembers it).              *)
SinkReturns(s) ==
  /\ actor[s] = "consuming"
  /\ handled' = [handled EXCEPT ![s] = Append(@, working[s])]
  /\ working' = [working EXCEPT ![s] = None]
  /\ actor' = [actor EXCEPT ![s] = "receiving"]
  /\ UNCHANGED <<visit, yielded, payload, result, channel>>

SinkPanics(s) ==
  /\ actor[s] = "consuming"
  /\ actor' = [actor EXCEPT ![s] = "panicked"]
  /\ channel' = [channel EXCEPT ![s] = <<>>]
  /\ working' = [working EXCEPT ![s] = None]
  /\ UNCHANGED <<visit, yielded, payload, result, handled>>

Route == \E s \in Sink : \/ BlockSends(s) \/ BlockFails(s) \/ NewestTries(s)
                         \/ OldestTries(s) \/ OldestRetries(s)
Act(s) == Receive(s) \/ SinkReturns(s)

Next == \/ Consume \/ Route \/ DropRouter
        \/ \E s \in Sink : Act(s) \/ SinkPanics(s)

Spec == Init /\ [][Next]_vars

(* The router's task runs whenever it can.  Only the sinks whose policy is *)
(* Block are assumed to return: the others may stall for ever.             *)
FairSpec ==
  /\ Spec /\ WF_vars(Route)
  /\ \A s \in Sink : Policy[s] = "Block" => WF_vars(Act(s))
-----------------------------------------------------------------------------
TypeOK ==
  /\ visit \in Sink \cup {Idle} /\ yielded \in BOOLEAN
  /\ payload \in Payload \cup {None} /\ result \in {"ok", "error"}
  /\ channel \in [Sink -> Seq(Payload)] /\ \A s \in Sink : Len(channel[s]) <= QueueLimit[s]
  /\ handled \in [Sink -> Seq(Payload)]
  /\ actor \in [Sink -> {"receiving", "consuming", "panicked", "aborted"}]
  /\ working \in [Sink -> Payload \cup {None}]

(* What a sink has handled, is working on, and has buffered.               *)
Line(s) == handled[s] \o (IF working[s] = None THEN <<>> ELSE <<working[s]>>) \o channel[s]

(* Each sink gets the payloads in the order of the source, none twice.     *)
InOrder == \A s \in Sink : \A i, j \in DOMAIN Line(s) : i < j => Line(s)[i] < Line(s)[j]

(* The last payload that consume has offered to a sink.                    *)
Due(s) == IF visit \in 1 .. s THEN payload - 1 ELSE payload

(* While its actor lives, a sink behind a Block queue gets every payload:  *)
(* all but the one consume is visiting the actors with, whatever the sinks *)
(* with other policies lose.                                               *)
BlockLosesNothing ==
  \A s \in Sink : Policy[s] = "Block" /\ Open(s) /\ result = "ok" =>
     ToSet(Line(s)) = 1 .. Due(s)

(* The router is one queue per sink (LossyQueue): a payload that has got   *)
(* into a channel reaches its sink, in order and once, while the actor     *)
(* lives; a full channel costs the payload at hand and none that waits.    *)
queueOf == [s \in Sink |->
  [newest |-> Due(s), passed |-> handled[s], ended |-> ~Open(s),
   waiting |-> IF Open(s) THEN ToSet(channel[s]) \cup ({working[s]} \ {None}) ELSE {}]]

Queues == INSTANCE LossyQueue WITH Receiver <- Sink, queues <- queueOf
ImplementsQueues == Queues!Spec

(* A sink that is stalled for ever behind a dropping queue does not hold   *)
(* up the pipeline, nor the other sinks: consume returns.                  *)
ConsumeReturns == visit # Idle ~> visit = Idle

(* "Evict the oldest buffered payload and enqueue the new one."            *)
(* (runtime.rs:567): after consume, the new payload is not the one lost.   *)
NewestSurvives ==
  \A s \in Sink : Policy[s] = "DropOldest" /\ Open(s) /\ visit = Idle /\ payload # None
                     => payload \in ToSet(Line(s))
=============================================================================
