------------------------- MODULE CameraSourceProofs -------------------------
(***************************************************************************)
(* Proofs for any number of providers, requests and frames: the camera has *)
(* one owner at a time across restarts; every variable keeps its type; the *)
(* error of next_payload is its last word; no frame is lost or reordered.  *)
(* The first rests on the join in the provider's drop: a thread that runs  *)
(* belongs to the provider in place, and the camera to a thread that runs. *)
(* The last follows every frame: completed, in the thread's hand, in the   *)
(* channel or returned, it is in one place, and in order.                  *)
(***************************************************************************)
EXTENDS CameraSource, SequenceTheorems, TLAPS

Place == {"unborn", "setup", "configure", "queue", "loop", "wait", "requeue", "over"}
Active == {"configure", "queue", "loop", "wait", "requeue"}

Types ==
  /\ provider \in Gen \cup {None} /\ joining \in BOOLEAN /\ opened \in 0 .. Opens
  /\ holder \in Gen \cup {None} /\ worker \in [Gen -> Place]
RunningIsOwned == \A g \in Gen : worker[g] \notin {"unborn", "over"} => provider = g
JoinHasTarget  == joining => provider # None
HolderRuns     == holder # None => worker[holder] \in Active

IInv == Types /\ RunningIsOwned /\ JoinHasTarget /\ HolderRuns

(* Generations are positive, so none of them is None.                      *)
LEMMA GenIsSome == None \notin Gen /\ Gen \subseteq Nat
BY CameraConstants DEF None, Gen

LEMMA InitInv == Init => IInv
<1> SUFFICES ASSUME Init PROVE IInv
  OBVIOUS
<1>1. /\ provider = None /\ joining = FALSE /\ opened = 0 /\ holder = None
      /\ worker = [g \in Gen |-> "unborn"]
  BY DEF Init
<1>2. opened \in 0 .. Opens
  BY <1>1, CameraConstants
<1>3. Types
  BY <1>1, <1>2 DEF Types, Place
<1> QED BY <1>1, <1>3 DEF IInv, RunningIsOwned, JoinHasTarget, HolderRuns

(* A thread that moves on, keeping what it holds, keeps the invariant.     *)
LEMMA MoveInv ==
  ASSUME IInv, NEW g \in Gen, NEW from \in Place, NEW to \in Place,
         Moves(g, from, to), UNCHANGED <<provider, joining, opened, holder>>,
         from \notin {"unborn", "over"}, from \in Active => to \in Active
  PROVE  IInv'
<1>1. /\ worker' \in [Gen -> Place] /\ worker'[g] = to /\ worker[g] = from
      /\ \A h \in Gen \ {g} : worker'[h] = worker[h]
  BY DEF IInv, Types, Moves
<1>2. Types'
  BY <1>1 DEF IInv, Types
<1>3. RunningIsOwned'
  BY <1>1 DEF IInv, RunningIsOwned
<1>4. JoinHasTarget' /\ HolderRuns'
  BY <1>1, GenIsSome DEF IInv, Types, JoinHasTarget, HolderRuns
<1> QED BY <1>2, <1>3, <1>4 DEF IInv

(* A thread that ends releases the camera if it has it.                    *)
LEMMA OverInv ==
  ASSUME IInv, NEW g \in Gen, Over(g), UNCHANGED <<provider, joining, opened>>
  PROVE  IInv'
<1>1. /\ worker' \in [Gen -> Place] /\ worker'[g] = "over"
      /\ \A h \in Gen \ {g} : worker'[h] = worker[h]
  BY DEF IInv, Types, Over, Place
<1>2. Types'
  BY <1>1, GenIsSome DEF IInv, Types, Over
<1>3. RunningIsOwned'
  BY <1>1 DEF IInv, RunningIsOwned
<1>4. HolderRuns'
  BY <1>1, GenIsSome DEF IInv, Types, HolderRuns, Over
<1> QED BY <1>2, <1>3, <1>4 DEF IInv, JoinHasTarget

(* Nothing that the invariant speaks of changes.                           *)
LEMMA StutterInv ==
  ASSUME IInv, UNCHANGED <<provider, joining, opened, holder, worker>>
  PROVE  IInv'
BY DEF IInv, Types, RunningIsOwned, JoinHasTarget, HolderRuns

(* Opening finds every earlier thread over, since none is owned.           *)
LEMMA OpenInv == ASSUME IInv, Open PROVE IInv'
<1>1. /\ provider = None /\ opened' = opened + 1 /\ provider' = opened' /\ opened < Opens
      /\ worker' = [worker EXCEPT ![opened'] = "setup"]
      /\ joining' = joining /\ holder' = holder
  BY DEF Open
<1>2. opened' \in Gen /\ opened' \in 0 .. Opens
  BY <1>1, CameraConstants DEF IInv, Types, Gen
<1>3. \A h \in Gen : worker[h] \in {"unborn", "over"}
  BY <1>1, GenIsSome DEF IInv, RunningIsOwned
<1>4. /\ worker' \in [Gen -> Place] /\ worker'[opened'] = "setup"
      /\ \A h \in Gen \ {opened'} : worker'[h] \in {"unborn", "over"}
  BY <1>1, <1>2, <1>3 DEF IInv, Types, Place
<1>5. holder = None
  BY <1>3 DEF IInv, Types, HolderRuns, Active
<1>6. Types'
  BY <1>1, <1>2, <1>4 DEF IInv, Types
<1>7. RunningIsOwned'
  BY <1>1, <1>4 DEF RunningIsOwned
<1>8. JoinHasTarget' /\ HolderRuns'
  BY <1>1, <1>2, <1>5, GenIsSome DEF JoinHasTarget, HolderRuns
<1> QED BY <1>6, <1>7, <1>8 DEF IInv

(* Join waits for the thread: no thread runs once the provider is gone.    *)
LEMMA JoinInv == ASSUME IInv, Join PROVE IInv'
<1>1. /\ worker[provider] = "over" /\ joining' = FALSE /\ provider' = None
      /\ opened' = opened /\ worker' = worker /\ holder' = holder
  BY DEF Join
<1>2. \A h \in Gen : worker[h] \in {"unborn", "over"}
  BY <1>1 DEF IInv, RunningIsOwned
<1> QED BY <1>1, <1>2 DEF IInv, Types, RunningIsOwned, JoinHasTarget, HolderRuns

LEMMA SetupInv == ASSUME IInv, NEW g \in Gen, Setup(g) PROVE IInv'
<1>1. CASE Acquire(g)
  <2>1. /\ worker[g] = "setup" /\ holder = None /\ holder' = g
        /\ worker' = [worker EXCEPT ![g] = "configure"]
        /\ UNCHANGED <<provider, joining, opened>>
    BY <1>1 DEF Acquire, Moves, Idle, pipeline
  <2>2. /\ worker' \in [Gen -> Place] /\ worker'[g] = "configure"
        /\ \A h \in Gen \ {g} : worker'[h] = worker[h]
    BY <2>1 DEF IInv, Types, Place
  <2> QED BY <2>1, <2>2
          DEF IInv, Types, RunningIsOwned, JoinHasTarget, HolderRuns, Active
<1>2. CASE Configure(g)
  BY <1>2, MoveInv DEF Configure, Idle, pipeline, Place, Active
<1>3. CASE SetupFails(g)
  BY <1>3, OverInv DEF SetupFails, Idle, pipeline
<1>4. CASE QueueFirst(g)
  <2>1. UNCHANGED <<provider, joining, opened, holder>>
    BY <1>4 DEF QueueFirst, pipeline
  <2>2. Moves(g, "queue", "loop") \/ Moves(g, "queue", "queue")
    BY <1>4 DEF QueueFirst
  <2> QED BY <2>1, <2>2, MoveInv DEF Place, Active
<1>5. CASE QueueFails(g)
  BY <1>5, OverInv DEF QueueFails, Idle, pipeline
<1> QED BY <1>1, <1>2, <1>3, <1>4, <1>5 DEF Setup

LEMMA LoopInv == ASSUME IInv, NEW g \in Gen, Loop(g) PROVE IInv'
<1>1. CASE SeeShutdown(g)
  BY <1>1, OverInv DEF SeeShutdown, Idle, pipeline
<1>2. CASE SeeNone(g)
  BY <1>2, MoveInv DEF SeeNone, Idle, pipeline, Place, Active
<1>3. CASE WaitOver(g)
  BY <1>3, MoveInv DEF WaitOver, Idle, pipeline, Place, Active
<1>4. CASE Forward(g)
  <2>1. UNCHANGED <<provider, joining, opened>>
    BY <1>4 DEF Forward, pipeline
  <2>2. (Moves(g, "wait", "requeue") /\ UNCHANGED holder) \/ Over(g)
    BY <1>4 DEF Forward
  <2> QED BY <2>1, <2>2, MoveInv, OverInv DEF Place, Active
<1>5. CASE Requeue(g)
  BY <1>5, MoveInv DEF Requeue, pipeline, Place, Active
<1> QED BY <1>1, <1>2, <1>3, <1>4, <1>5 DEF Loop

LEMMA NextInv == IInv /\ [Next]_vars => IInv'
<1> SUFFICES ASSUME IInv, [Next]_vars PROVE IInv'
  OBVIOUS
<1>1. CASE Open
  BY <1>1, OpenInv
<1>2. CASE NextPayload
  BY <1>2, StutterInv DEF NextPayload, pipeline
<1>3. CASE DropProvider
  BY <1>3 DEF DropProvider, IInv, Types, RunningIsOwned, JoinHasTarget, HolderRuns
<1>4. CASE Join
  BY <1>4, JoinInv
<1>5. CASE \E g \in Gen : Setup(g)
  BY <1>5, SetupInv
<1>6. CASE \E g \in Gen : Loop(g)
  BY <1>6, LoopInv
<1>7. CASE \E g \in Gen : Complete(g)
  BY <1>7, StutterInv DEF Complete, pipeline
<1>8. CASE UNCHANGED vars
  BY <1>8, StutterInv DEF vars
<1> QED BY <1>1, <1>2, <1>3, <1>4, <1>5, <1>6, <1>7, <1>8 DEF Next

(* Two running threads would both be owned by the one provider; a thread   *)
(* that is about to acquire the camera would share its provider with the   *)
(* thread that holds it, and be that thread.                               *)
LEMMA InvExclusive == IInv => ExclusiveCamera
<1> SUFFICES ASSUME IInv PROVE ExclusiveCamera
  OBVIOUS
<1>1. ASSUME NEW g \in Gen, worker[g] = "setup" PROVE holder = None
  <2> SUFFICES ASSUME holder # None PROVE FALSE
    OBVIOUS
  <2>1. holder \in Gen /\ worker[holder] \in Active
    BY DEF IInv, Types, HolderRuns
  <2>2. provider = g /\ provider = holder
    BY <1>1, <2>1 DEF IInv, RunningIsOwned, Active
  <2> QED BY <1>1, <2>1, <2>2 DEF Active
<1>2. ASSUME NEW g \in Gen, NEW h \in Gen,
             {worker[g], worker[h]} \subseteq {"loop", "wait", "requeue"}
      PROVE  g = h
  BY <1>2 DEF IInv, RunningIsOwned
<1> QED BY <1>1, <1>2 DEF ExclusiveCamera

(* No thread ever finds the camera held when it asks for it, and no two    *)
(* threads run their loops: restarts do not race for the camera.           *)
THEOREM CameraIsExclusive == Spec => []ExclusiveCamera
BY InitInv, NextInv, InvExclusive, PTL DEF Spec
-----------------------------------------------------------------------------
(* The rest of the state: requests are with the camera, or completed, or,  *)
(* one at a time, in the thread's hands; a provider that has said that its *)
(* thread is gone was right, and has nothing left.                         *)
Stores ==
  /\ shutdown \in [Gen -> BOOLEAN] /\ queued \in [Gen -> Nat] /\ taken \in [Gen -> 0 .. Frames]
  /\ completed \in [Gen -> Seq(Frame)] /\ frames \in [Gen -> Seq(Frame)]
  /\ answers \in [Gen -> Seq(Frame \cup {Terminated})]
OneInHand == {"unborn", "setup", "configure", "queue", "requeue"}
RequestsKept ==
  \A g \in Gen : /\ queued[g] + Len(completed[g]) <= Requests
                 /\ worker[g] \in OneInHand => queued[g] + Len(completed[g]) < Requests
Unopened == \A g \in Gen : g > opened => worker[g] = "unborn"
FailedIsOver == \A g \in Gen : provider = g /\ Failed(g) => worker[g] = "over" /\ frames[g] = <<>>

FullInv == IInv /\ Stores /\ RequestsKept /\ FailedIsOver

LEMMA TerminatedIsNoFrame == Terminated \notin Frame /\ Frame \subseteq Nat
BY CameraConstants DEF Terminated, Frame

LEMMA InitFull == Init => FullInv
<1> SUFFICES ASSUME Init PROVE FullInv
  OBVIOUS
<1>1. /\ provider = None
      /\ shutdown = [g \in Gen |-> FALSE] /\ queued = [g \in Gen |-> 0]
      /\ taken = [g \in Gen |-> 0] /\ completed = [g \in Gen |-> <<>>]
      /\ frames = [g \in Gen |-> <<>>] /\ answers = [g \in Gen |-> <<>>]
  BY DEF Init
<1>2. 0 \in 0 .. Frames /\ 0 < Requests
  BY CameraConstants
<1>3. Stores
  BY <1>1, <1>2 DEF Stores
<1>4. RequestsKept
  BY <1>1, <1>2, CameraConstants DEF RequestsKept
<1>5. FailedIsOver
  BY <1>1, GenIsSome DEF FailedIsOver
<1> QED BY <1>3, <1>4, <1>5, InitInv DEF FullInv

(* A thread that changes its place only.                                   *)
LEMMA PlaceFull ==
  ASSUME FullInv, IInv', NEW g \in Gen, worker[g] # "over",
         UNCHANGED <<pipeline, queued, completed, taken, frames, answers>>,
         \A h \in Gen \ {g} : worker'[h] = worker[h],
         worker'[g] \in OneInHand => worker[g] \in OneInHand
  PROVE  FullInv'
<1>1. UNCHANGED <<provider, shutdown>>
  BY DEF pipeline
<1>2. Stores'
  BY <1>1 DEF FullInv, Stores
<1>3. RequestsKept'
  BY DEF FullInv, RequestsKept
<1>4. FailedIsOver'
  BY <1>1 DEF FullInv, FailedIsOver, Failed
<1> QED BY <1>2, <1>3, <1>4 DEF FullInv

LEMMA WorkerMoves ==
  ASSUME FullInv, NEW g \in Gen, NEW to, worker' = [worker EXCEPT ![g] = to]
  PROVE  worker'[g] = to /\ \A h \in Gen \ {g} : worker'[h] = worker[h]
BY DEF FullInv, IInv, Types

LEMMA SetupFull == ASSUME FullInv, IInv', NEW g \in Gen, Setup(g) PROVE FullInv'
<1>1. CASE Acquire(g)
  BY <1>1, PlaceFull, WorkerMoves DEF Acquire, Moves, Idle, OneInHand
<1>2. CASE Configure(g)
  BY <1>2, PlaceFull, WorkerMoves DEF Configure, Moves, Idle, OneInHand
<1>3. CASE SetupFails(g)
  BY <1>3, PlaceFull, WorkerMoves DEF SetupFails, Over, Idle, OneInHand
<1>4. CASE QueueFirst(g)
  <2>1. /\ worker[g] = "queue" /\ queued' = [queued EXCEPT ![g] = @ + 1]
        /\ UNCHANGED <<provider, shutdown, completed, taken, frames, answers>>
    BY <1>4 DEF QueueFirst, Moves, pipeline
  <2>2. /\ queued' \in [Gen -> Nat] /\ queued'[g] = queued[g] + 1
        /\ \A h \in Gen \ {g} : queued'[h] = queued[h]
    BY <2>1 DEF FullInv, Stores
  <2>3. PICK place \in {"loop", "queue"} :
          /\ worker' = [worker EXCEPT ![g] = place]
          /\ place = "queue" => queued[g] + Len(completed[g]) + 1 # Requests
    BY <1>4 DEF QueueFirst, Moves
  <2>4. worker'[g] = place /\ \A h \in Gen \ {g} : worker'[h] = worker[h]
    BY <2>3, WorkerMoves
  <2>5. Stores'
    BY <2>1, <2>2 DEF FullInv, Stores
  <2>6. ASSUME NEW h \in Gen
        PROVE  /\ queued'[h] + Len(completed'[h]) <= Requests
               /\ worker'[h] \in OneInHand => queued'[h] + Len(completed'[h]) < Requests
    <3>1. CASE h = g
      <4>1. /\ queued[g] \in Nat /\ Len(completed[g]) \in Nat /\ Requests \in Nat
            /\ queued[g] + Len(completed[g]) < Requests
        BY <2>1, CameraConstants DEF FullInv, Stores, RequestsKept, OneInHand
      <4>2. worker'[g] \in OneInHand => queued[g] + Len(completed[g]) + 1 # Requests
        BY <2>3, <2>4 DEF OneInHand
      <4> QED BY <2>1, <2>2, <3>1, <4>1, <4>2
    <3>2. CASE h # g
      BY <2>1, <2>2, <2>4, <3>2 DEF FullInv, RequestsKept
    <3> QED BY <3>1, <3>2
  <2>7. RequestsKept'
    BY <2>6 DEF RequestsKept
  <2>8. FailedIsOver'
    BY <2>1, <2>4 DEF FullInv, FailedIsOver, Failed
  <2> QED BY <2>5, <2>7, <2>8 DEF FullInv
<1>5. CASE QueueFails(g)
  BY <1>5, PlaceFull, WorkerMoves DEF QueueFails, Over, Idle, OneInHand
<1> QED BY <1>1, <1>2, <1>3, <1>4, <1>5 DEF Setup

LEMMA LoopFull == ASSUME FullInv, IInv', NEW g \in Gen, Loop(g) PROVE FullInv'
<1>1. CASE SeeShutdown(g)
  BY <1>1, PlaceFull, WorkerMoves DEF SeeShutdown, Over, Idle, OneInHand
<1>2. CASE SeeNone(g)
  BY <1>2, PlaceFull, WorkerMoves DEF SeeNone, Moves, Idle, OneInHand
<1>3. CASE WaitOver(g)
  BY <1>3, PlaceFull, WorkerMoves DEF WaitOver, Moves, Idle, OneInHand
<1>4. CASE Forward(g)
  <2>1. /\ worker[g] = "wait" /\ completed[g] # <<>>
        /\ completed' = [completed EXCEPT ![g] = Tail(@)]
        /\ frames' = [frames EXCEPT ![g] = Append(@, Head(completed[g]))] \/ frames' = frames
        /\ UNCHANGED <<provider, shutdown, queued, taken, answers>>
    BY <1>4 DEF Forward, Moves, pipeline
  <2>2. PICK place \in {"requeue", "over"} : worker' = [worker EXCEPT ![g] = place]
    BY <1>4 DEF Forward, Moves, Over
  <2>3. worker'[g] = place /\ \A h \in Gen \ {g} : worker'[h] = worker[h]
    BY <2>2, WorkerMoves
  <2>4. completed[g] \in Seq(Frame) /\ frames[g] \in Seq(Frame) /\ Stores /\ queued[g] \in Nat
    BY DEF FullInv, Stores
  <2>5. /\ Head(completed[g]) \in Frame /\ Tail(completed[g]) \in Seq(Frame)
        /\ Len(Tail(completed[g])) = Len(completed[g]) - 1
    BY <2>1, <2>4, HeadTailProperties
  <2>6. Append(frames[g], Head(completed[g])) \in Seq(Frame)
    BY <2>4, <2>5, AppendProperties
  <2>7. /\ completed' \in [Gen -> Seq(Frame)] /\ completed'[g] = Tail(completed[g])
        /\ \A h \in Gen \ {g} : completed'[h] = completed[h] /\ frames'[h] = frames[h]
        /\ frames' \in [Gen -> Seq(Frame)]
    BY <2>1, <2>4, <2>5, <2>6 DEF Stores
  <2>8. Stores'
    BY <2>1, <2>4, <2>7 DEF Stores
  <2>9. ASSUME NEW h \in Gen
        PROVE  /\ queued'[h] + Len(completed'[h]) <= Requests
               /\ worker'[h] \in OneInHand => queued'[h] + Len(completed'[h]) < Requests
    <3>1. CASE h = g
      <4>1. /\ Len(completed[g]) \in Nat /\ Requests \in Nat
            /\ queued[g] + Len(completed[g]) <= Requests
        BY <2>4, CameraConstants DEF FullInv, RequestsKept
      <4>2. queued'[g] + Len(completed'[g]) = queued[g] + (Len(completed[g]) - 1)
        BY <2>1, <2>5, <2>7
      <4> QED BY <2>4, <3>1, <4>1, <4>2
    <3>2. CASE h # g
      BY <2>1, <2>3, <2>7, <3>2 DEF FullInv, RequestsKept
    <3> QED BY <3>1, <3>2
  <2>10. FailedIsOver'
    BY <2>1, <2>3, <2>7 DEF FullInv, FailedIsOver, Failed
  <2> QED BY <2>8, <2>9, <2>10 DEF FullInv, RequestsKept
<1>5. CASE Requeue(g)
  <2>1. /\ worker[g] = "requeue" /\ worker' = [worker EXCEPT ![g] = "loop"]
        /\ queued' = [queued EXCEPT ![g] = @ + 1]
        /\ UNCHANGED <<provider, shutdown, completed, taken, frames, answers>>
    BY <1>5 DEF Requeue, Moves, pipeline
  <2>2. worker'[g] = "loop" /\ \A h \in Gen \ {g} : worker'[h] = worker[h]
    BY <2>1, WorkerMoves
  <2>3. /\ queued' \in [Gen -> Nat] /\ queued'[g] = queued[g] + 1
        /\ \A h \in Gen \ {g} : queued'[h] = queued[h]
    BY <2>1 DEF FullInv, Stores
  <2>4. Stores'
    BY <2>1, <2>3 DEF FullInv, Stores
  <2>5. queued[g] \in Nat /\ Len(completed[g]) \in Nat /\ queued[g] + Len(completed[g]) < Requests
    BY <2>1 DEF FullInv, Stores, RequestsKept, OneInHand
  <2>6. queued'[g] + Len(completed'[g]) <= Requests /\ worker'[g] \notin OneInHand
    BY <2>1, <2>2, <2>3, <2>5, CameraConstants DEF OneInHand
  <2>7. RequestsKept'
    BY <2>1, <2>2, <2>3, <2>6 DEF FullInv, RequestsKept
  <2>8. FailedIsOver'
    BY <2>1, <2>2 DEF FullInv, FailedIsOver, Failed
  <2> QED BY <2>4, <2>7, <2>8 DEF FullInv
<1> QED BY <1>1, <1>2, <1>3, <1>4, <1>5 DEF Loop

LEMMA CompleteFull == ASSUME FullInv, IInv', NEW g \in Gen, Complete(g) PROVE FullInv'
<1>1. /\ queued[g] > 0 /\ taken[g] < Frames
      /\ taken' = [taken EXCEPT ![g] = @ + 1] /\ queued' = [queued EXCEPT ![g] = @ - 1]
      /\ completed' = [completed EXCEPT ![g] = Append(@, taken'[g])]
      /\ UNCHANGED <<provider, shutdown, worker, frames, answers>>
  BY DEF Complete, pipeline
<1>2. /\ taken[g] \in 0 .. Frames /\ queued[g] \in Nat /\ completed[g] \in Seq(Frame) /\ Stores
  BY DEF FullInv, Stores
<1>3. /\ taken' \in [Gen -> 0 .. Frames] /\ taken'[g] \in Frame
      /\ queued' \in [Gen -> Nat] /\ queued'[g] = queued[g] - 1
      /\ \A h \in Gen \ {g} : queued'[h] = queued[h]
  BY <1>1, <1>2, CameraConstants DEF Stores, Frame
<1>4. /\ Append(completed[g], taken'[g]) \in Seq(Frame)
      /\ Len(Append(completed[g], taken'[g])) = Len(completed[g]) + 1
  BY <1>2, <1>3, AppendProperties
<1>5. /\ completed' \in [Gen -> Seq(Frame)] /\ Len(completed'[g]) = Len(completed[g]) + 1
      /\ \A h \in Gen \ {g} : completed'[h] = completed[h]
  BY <1>1, <1>2, <1>4 DEF Stores
<1>6. Stores'
  BY <1>1, <1>2, <1>3, <1>5 DEF Stores
<1>7. queued'[g] + Len(completed'[g]) = queued[g] + Len(completed[g])
  <2>1. Len(completed[g]) \in Nat /\ queued[g] \in Nat
    BY <1>2
  <2>2. queued'[g] = queued[g] - 1 /\ Len(completed'[g]) = Len(completed[g]) + 1
    BY <1>3, <1>5
  <2> QED BY <2>1, <2>2
<1>8. RequestsKept'
  BY <1>1, <1>3, <1>5, <1>7 DEF FullInv, RequestsKept
<1>9. FailedIsOver'
  BY <1>1 DEF FullInv, FailedIsOver, Failed
<1> QED BY <1>6, <1>8, <1>9 DEF FullInv

LEMMA NextPayloadFull == ASSUME FullInv, IInv', NextPayload PROVE FullInv'
<1>1. PICK g \in Gen :
        /\ Polled(g)
        /\ \/ /\ frames[g] # <<>>
              /\ answers' = [answers EXCEPT ![g] = Append(@, Head(frames[g]))]
              /\ frames' = [frames EXCEPT ![g] = Tail(@)]
           \/ /\ frames[g] = <<>> /\ worker[g] = "over"
              /\ answers' = [answers EXCEPT ![g] = Append(@, Terminated)]
              /\ UNCHANGED frames
        /\ UNCHANGED <<pipeline, worker, holder, queued, completed, taken>>
  BY DEF NextPayload
<1>2. provider' = provider /\ shutdown' = shutdown /\ worker' = worker
  BY <1>1 DEF pipeline
<1>3. /\ frames[g] \in Seq(Frame) /\ answers[g] \in Seq(Frame \cup {Terminated}) /\ Stores
  BY DEF FullInv, Stores
<1>4. PICK e \in Frame \cup {Terminated} :
        /\ answers' = [answers EXCEPT ![g] = Append(@, e)]
        /\ \/ e \in Frame /\ frames[g] # <<>> /\ frames' = [frames EXCEPT ![g] = Tail(@)]
           \/ frames[g] = <<>> /\ worker[g] = "over" /\ UNCHANGED frames
  <2>1. CASE frames[g] # <<>>
    <3>1. Head(frames[g]) \in Frame
      BY <1>3, <2>1, HeadTailProperties
    <3> QED BY <1>1, <2>1, <3>1
  <2>2. CASE frames[g] = <<>>
    BY <1>1, <2>2
  <2> QED BY <2>1, <2>2
<1>5. /\ Append(answers[g], e) \in Seq(Frame \cup {Terminated})
      /\ Last(Append(answers[g], e)) = e
  BY <1>3, AppendProperties DEF Last
<1>6. /\ answers' \in [Gen -> Seq(Frame \cup {Terminated})] /\ Last(answers'[g]) = e
      /\ \A h \in Gen \ {g} : answers'[h] = answers[h]
  BY <1>3, <1>4, <1>5 DEF Stores
<1>7. frames[g] # <<>> => Tail(frames[g]) \in Seq(Frame)
  BY <1>3, HeadTailProperties
<1>8. frames' \in [Gen -> Seq(Frame)] /\ \A h \in Gen \ {g} : frames'[h] = frames[h]
  BY <1>3, <1>4, <1>7 DEF Stores
<1>9. Stores'
  BY <1>1, <1>2, <1>3, <1>6, <1>8 DEF Stores
<1>10. RequestsKept'
  BY <1>1, <1>2 DEF FullInv, RequestsKept
<1>11. FailedIsOver'
  BY <1>2, <1>4, <1>6, <1>8, TerminatedIsNoFrame DEF FullInv, FailedIsOver, Failed
<1> QED BY <1>9, <1>10, <1>11 DEF FullInv

LEMMA OpenFull == ASSUME FullInv, Unopened, IInv', Open PROVE FullInv'
<1>1. /\ opened' = opened + 1 /\ opened < Opens /\ provider' = opened'
      /\ worker' = [worker EXCEPT ![opened'] = "setup"] /\ \A g \in Gen : ~Failed(g)
      /\ UNCHANGED <<shutdown, queued, completed, taken, frames, answers>>
  BY DEF Open
<1>2. opened' \in Gen /\ opened' > opened
  BY <1>1, CameraConstants DEF FullInv, IInv, Types, Gen
<1>3. worker[opened'] = "unborn" /\ \A h \in Gen \ {opened'} : worker'[h] = worker[h]
  BY <1>1, <1>2 DEF FullInv, IInv, Types, Unopened
<1>4. RequestsKept'
  BY <1>1, <1>3 DEF FullInv, RequestsKept, OneInHand
<1>5. Stores' /\ FailedIsOver'
  BY <1>1 DEF FullInv, Stores, FailedIsOver, Failed
<1> QED BY <1>4, <1>5 DEF FullInv

LEMMA DropFull == ASSUME FullInv, IInv', DropProvider \/ Join PROVE FullInv'
<1>1. CASE DropProvider
  <2>1. /\ shutdown' = [shutdown EXCEPT ![provider] = TRUE]
        /\ UNCHANGED <<provider, worker, queued, completed, taken, frames, answers>>
    BY <1>1 DEF DropProvider
  <2>2. Stores' /\ RequestsKept' /\ FailedIsOver'
    BY <2>1 DEF FullInv, Stores, RequestsKept, FailedIsOver, Failed
  <2> QED BY <2>2 DEF FullInv
<1>2. CASE Join
  <2>1. /\ provider' = None /\ frames' = [frames EXCEPT ![provider] = <<>>]
        /\ UNCHANGED <<shutdown, worker, queued, completed, taken, answers>>
    BY <1>2 DEF Join
  <2>a. frames \in [Gen -> Seq(Frame)]
    BY DEF FullInv, Stores
  <2>b. <<>> \in Seq(Frame)
    OBVIOUS
  <2>2. frames' \in [Gen -> Seq(Frame)]
    BY <2>1, <2>a, <2>b
  <2>3. Stores' /\ RequestsKept'
    BY <2>1, <2>2 DEF FullInv, Stores, RequestsKept
  <2>4. FailedIsOver'
    BY <2>1, GenIsSome DEF FailedIsOver
  <2> QED BY <2>3, <2>4 DEF FullInv
<1> QED BY <1>1, <1>2

(* Only Open lets a thread be born, and only the next one.                 *)
LEMMA UnopenedInv == IInv /\ Unopened /\ [Next]_vars => Unopened'
<1> SUFFICES ASSUME IInv, Unopened, [Next]_vars PROVE Unopened'
  OBVIOUS
<1>1. CASE Open
  <2>1. opened' = opened + 1 /\ worker' = [worker EXCEPT ![opened'] = "setup"]
    BY <1>1 DEF Open
  <2>2. opened \in Nat
    BY CameraConstants DEF IInv, Types
  <2>3. \A g \in Gen : g > opened' => g > opened /\ worker'[g] = worker[g]
    BY <2>1, <2>2, GenIsSome DEF IInv, Types
  <2> QED BY <2>3 DEF Unopened
<1>2. ASSUME NEW g \in Gen, worker[g] # "unborn", opened' = opened,
             NEW place, worker' = [worker EXCEPT ![g] = place] \/ worker' = worker
      PROVE  Unopened'
  BY <1>2 DEF IInv, Types, Unopened
<1>3. ASSUME NEW g \in Gen, Setup(g) \/ Loop(g) \/ Complete(g) PROVE Unopened'
  <2>1. opened' = opened /\ worker[g] # "unborn"
    BY <1>3 DEF Setup, Loop, Complete, Acquire, Configure, SetupFails, QueueFirst, QueueFails,
       SeeShutdown, SeeNone, WaitOver, Forward, Requeue, Moves, Idle, pipeline
  <2>2. \E place : worker' = [worker EXCEPT ![g] = place] \/ worker' = worker
    BY <1>3 DEF Setup, Loop, Complete, Acquire, Configure, SetupFails, QueueFirst, QueueFails,
       SeeShutdown, SeeNone, WaitOver, Forward, Requeue, Moves, Over
  <2> QED BY <1>2, <2>1, <2>2
<1>4. CASE NextPayload \/ DropProvider \/ Join \/ UNCHANGED vars
  <2>1. UNCHANGED <<opened, worker>>
    BY <1>4 DEF NextPayload, DropProvider, Join, vars, pipeline
  <2> QED BY <2>1 DEF Unopened
<1> QED BY <1>1, <1>3, <1>4 DEF Next

LEMMA NextFull == FullInv /\ Unopened /\ [Next]_vars => FullInv'
<1> SUFFICES ASSUME FullInv, Unopened, [Next]_vars PROVE FullInv'
  OBVIOUS
<1>1. IInv'
  BY NextInv DEF FullInv
<1>2. CASE Open
  BY <1>1, <1>2, OpenFull
<1>3. CASE NextPayload
  BY <1>1, <1>3, NextPayloadFull
<1>4. CASE DropProvider \/ Join
  BY <1>1, <1>4, DropFull
<1>5. CASE \E g \in Gen : Setup(g) \/ Loop(g) \/ Complete(g)
  BY <1>1, <1>5, SetupFull, LoopFull, CompleteFull
<1>6. CASE UNCHANGED vars
  BY <1>1, <1>6 DEF vars, FullInv, Stores, RequestsKept, FailedIsOver, Failed
<1> QED BY <1>2, <1>3, <1>4, <1>5, <1>6 DEF Next

LEMMA FullInvariant == Spec => [](FullInv /\ Unopened)
<1>1. Init => Unopened
  BY DEF Init, Unopened
<1>2. FullInv => IInv
  BY DEF FullInv
<1> QED BY <1>1, <1>2, InitFull, NextFull, UnopenedInv, PTL DEF Spec

(* Every variable keeps its type; in particular there are never more       *)
(* requests under way than there are.                                      *)
THEOREM TypeCorrect == Spec => []TypeOK
<1> SUFFICES FullInv => TypeOK
  BY FullInvariant, PTL
<1> SUFFICES ASSUME FullInv PROVE TypeOK
  OBVIOUS
<1>1. ASSUME NEW g \in Gen PROVE queued[g] \in 0 .. Requests
  <2>1. /\ queued[g] \in Nat /\ Len(completed[g]) \in Nat
        /\ queued[g] + Len(completed[g]) <= Requests /\ Requests \in Nat
    BY CameraConstants DEF FullInv, Stores, RequestsKept
  <2> QED BY <2>1
<1>2. queued \in [Gen -> 0 .. Requests]
  BY <1>1 DEF FullInv, Stores
<1> QED BY <1>2 DEF FullInv, IInv, Types, Place, Stores, RequestsKept, TypeOK

(* When next_payload reports a thread that is gone, every frame it sent    *)
(* has been returned, and it does not hold the camera.                     *)
THEOREM ErrorIsLastHolds == Spec => []ErrorIsLast
<1> SUFFICES FullInv => ErrorIsLast
  BY FullInvariant, PTL
<1> QED BY GenIsSome DEF FullInv, IInv, HolderRuns, Active, FailedIsOver, ErrorIsLast
-----------------------------------------------------------------------------
(* Frames keep their order on their way: those the pipeline was given,     *)
(* those in the channel and those still with the thread are together what  *)
(* the camera has taken.  A provider begins with nothing on its way.       *)
Fresh(g) == taken[g] = 0 /\ completed[g] = <<>> /\ frames[g] = <<>> /\ answers[g] = <<>>
AllFresh == provider \in 0 .. opened /\ \A g \in Gen : g > opened => Fresh(g)

(* An element moves from the front of a sequence to the end of another.    *)
LEMMA HandOver ==
  ASSUME NEW S, NEW s \in Seq(S), NEW t \in Seq(S), t # <<>>
  PROVE  /\ Append(s, Head(t)) \o Tail(t) = s \o t
         /\ Append(s, Head(t)) \in Seq(S) /\ Tail(t) \in Seq(S)
<1>1. Head(t) \in S /\ Tail(t) \in Seq(S) /\ <<Head(t)>> \in Seq(S)
  BY HeadTailProperties
<1>2. Append(s, Head(t)) = s \o <<Head(t)>> /\ Append(s, Head(t)) \in Seq(S)
  BY <1>1, AppendIsConcat, AppendProperties
<1>3. <<Head(t)>> \o Tail(t) = t
  <2>1. /\ Len(Tail(t)) = Len(t) - 1 /\ Len(t) \in Nat /\ Len(t) > 0
        /\ \A i \in 1 .. Len(Tail(t)) : Tail(t)[i] = t[i + 1]
        /\ Head(t) = t[1]
    BY HeadTailProperties, EmptySeq
  <2> DEFINE u == <<Head(t)>> \o Tail(t)
  <2>2. u \in Seq(S) /\ Len(u) = Len(t)
    BY <1>1, <2>1, ConcatProperties
  <2>3. \A i \in 1 .. Len(t) : u[i] = t[i]
    BY <1>1, <2>1, ConcatProperties
  <2> QED BY <2>2, <2>3, SeqEqual
<1> QED BY <1>1, <1>2, <1>3, ConcatAssociative

LEMMA Grouped ==
  ASSUME NEW s \in Seq(Nat), NEW t \in Seq(Nat), NEW u \in Seq(Nat)
  PROVE  (s \o t) \o u = s \o (t \o u)
BY ConcatAssociative, SMTT(30)

LEMMA ShotGrows == ASSUME NEW n \in Nat
                   PROVE  Shot(n) \in Seq(Nat) /\ Append(Shot(n), n + 1) = Shot(n + 1)
<1>1. Shot(n) \in Seq(Nat) /\ Shot(n + 1) \in Seq(Nat) /\ Len(Shot(n)) = n /\ Len(Shot(n + 1)) = n + 1
  BY DEF Shot
<1>2. /\ Append(Shot(n), n + 1) \in Seq(Nat) /\ Len(Append(Shot(n), n + 1)) = n + 1
      /\ \A i \in 1 .. n + 1 : Append(Shot(n), n + 1)[i] = Shot(n + 1)[i]
  BY <1>1, AppendProperties DEF Shot
<1> QED BY <1>1, <1>2, SeqEqual

LEMMA FrontAppended ==
  ASSUME NEW S, NEW s \in Seq(S), NEW e \in S PROVE Front(Append(s, e)) = s
<1>1. Append(s, e) \in Seq(S) /\ Len(Append(s, e)) = Len(s) + 1 /\ Len(s) \in Nat
      /\ \A i \in 1 .. Len(s) : Append(s, e)[i] = s[i]
  BY AppendProperties
<1> DEFINE f == SubSeq(Append(s, e), 1, Len(s))
<1>2. f \in Seq(S) /\ Len(f) = Len(s) /\ \A i \in 1 .. Len(s) : f[i] = s[i]
  <2>1. \A i \in 1 .. Len(s) : Append(s, e)[i] \in S
    BY <1>1, ElementOfSeq
  <2>2. /\ f \in Seq(S) /\ Len(f) = IF 1 <= Len(s) THEN Len(s) - 1 + 1 ELSE 0
        /\ \A i \in 1 .. Len(s) - 1 + 1 : f[i] = Append(s, e)[1 + i - 1]
    BY <1>1, <2>1, SubSeqProperties
  <2> QED BY <1>1, <2>2
<1>3. f = s
  BY <1>2, SeqEqual
<1>4. Front(Append(s, e)) = f
  BY <1>1 DEF Front
<1> QED BY <1>3, <1>4

LEMMA Numbered ==
  ASSUME FullInv, NEW g \in Gen
  PROVE  /\ completed[g] \in Seq(Nat) /\ frames[g] \in Seq(Nat) /\ answers[g] \in Seq(Nat)
         /\ taken[g] \in Nat
<1>1. Frame \subseteq Nat /\ Frame \cup {Terminated} \subseteq Nat
  BY CameraConstants DEF Frame, Terminated
<1>2. /\ completed[g] \in Seq(Frame) /\ frames[g] \in Seq(Frame)
      /\ answers[g] \in Seq(Frame \cup {Terminated}) /\ taken[g] \in 0 .. Frames
  BY DEF FullInv, Stores
<1>3. Seq(Frame) \subseteq Seq(Nat) /\ Seq(Frame \cup {Terminated}) \subseteq Seq(Nat)
  BY <1>1, SeqMonotonic
<1> QED BY <1>2, <1>3, CameraConstants

LEMMA NextPayloadLine == ASSUME FullInv, Gapless, NextPayload PROVE Gapless'
<1>1. PICK g \in Gen :
        /\ Polled(g)
        /\ \/ /\ frames[g] # <<>>
              /\ answers' = [answers EXCEPT ![g] = Append(@, Head(frames[g]))]
              /\ frames' = [frames EXCEPT ![g] = Tail(@)]
           \/ /\ frames[g] = <<>> /\ worker[g] = "over"
              /\ answers' = [answers EXCEPT ![g] = Append(@, Terminated)]
              /\ UNCHANGED frames
        /\ UNCHANGED <<pipeline, worker, holder, queued, completed, taken>>
  BY DEF NextPayload
<1>2. /\ provider = g /\ provider' = g /\ completed' = completed /\ taken' = taken /\ ~Failed(g)
  BY <1>1 DEF pipeline, Polled
<1>3. answers[g] \o frames[g] \o completed[g] = Shot(taken[g])
  BY <1>2 DEF Gapless, Returned
<1>4. /\ answers \in [Gen -> Seq(Frame \cup {Terminated})] /\ frames \in [Gen -> Seq(Frame)]
      /\ answers[g] \in Seq(Nat) /\ frames[g] \in Seq(Nat)
  BY Numbered DEF FullInv, Stores
<1>5. CASE frames[g] # <<>>
  <2>1. /\ answers'[g] = Append(answers[g], Head(frames[g])) /\ frames'[g] = Tail(frames[g])
    BY <1>1, <1>4, <1>5
  <2>2. answers'[g] \o frames'[g] = answers[g] \o frames[g]
    BY <1>4, <1>5, <2>1, HandOver
  <2>3. Head(frames[g]) \in Frame
    BY <1>4, <1>5, HeadTailProperties
  <2>4. Last(answers'[g]) = Head(frames[g])
    BY <1>4, <2>1, <2>3, AppendProperties DEF Last
  <2>5. ~(Failed(g)')
    BY <2>3, <2>4, TerminatedIsNoFrame DEF Failed
  <2>6. Returned(g)' = answers'[g]
    BY <2>5 DEF Returned
  <2> QED BY <1>2, <1>3, <2>2, <2>6 DEF Gapless
<1>6. CASE frames[g] = <<>>
  <2>1. answers'[g] = Append(answers[g], Terminated) /\ frames' = frames
    BY <1>1, <1>4, <1>6
  <2>2. Front(answers'[g]) = answers[g]
    BY <1>4, <2>1, FrontAppended
  <2>3. Append(answers[g], Terminated) # <<>> /\ Last(answers'[g]) = Terminated
    <3>1. PICK a \in Seq(Frame \cup {Terminated}) : a = answers[g]
      BY <1>4
    <3>2. PICK e \in Frame \cup {Terminated} : e = Terminated
      OBVIOUS
    <3>3. Append(a, e) # <<>> /\ Last(Append(a, e)) = e
      BY AppendProperties DEF Last
    <3> QED BY <2>1, <3>1, <3>2, <3>3
  <2>4. Failed(g)'
    BY <2>1, <2>3 DEF Failed
  <2>5. Returned(g)' = answers[g]
    BY <2>2, <2>4 DEF Returned
  <2> QED BY <1>2, <1>3, <2>1, <2>5 DEF Gapless
<1> QED BY <1>5, <1>6

LEMMA ThreadLine ==
  ASSUME FullInv, Gapless, NEW g \in Gen, Forward(g) \/ Complete(g) PROVE Gapless'
<1>1. /\ completed \in [Gen -> Seq(Frame)] /\ frames \in [Gen -> Seq(Frame)]
      /\ taken \in [Gen -> 0 .. Frames]
  BY DEF FullInv, Stores
<1>2. /\ completed[g] \in Seq(Nat) /\ frames[g] \in Seq(Nat) /\ answers[g] \in Seq(Nat)
      /\ taken[g] \in Nat
  BY Numbered
<1>3. Returned(g) \in Seq(Nat)
  <2>1. CASE Failed(g)
    <3>1. answers[g] # <<>> /\ Len(answers[g]) \in Nat
          /\ \A i \in 1 .. Len(answers[g]) - 1 : answers[g][i] \in Nat
      BY <1>2, <2>1, ElementOfSeq DEF Failed
    <3> QED BY <2>1, <3>1, SubSeqProperties DEF Returned, Front
  <2> QED BY <1>2, <2>1 DEF Returned
<1>4. /\ UNCHANGED <<provider, answers>>
      /\ \A h \in Gen \ {g} : frames'[h] = frames[h] /\ completed'[h] = completed[h]
                             /\ taken'[h] = taken[h]
  BY <1>1 DEF Forward, Complete, pipeline
<1>5. \A h \in Gen : Returned(h)' = Returned(h)
  BY <1>4 DEF Returned, Failed
<1>6. CASE provider # g
  BY <1>4, <1>5, <1>6 DEF Gapless
<1>7. CASE provider = g /\ Forward(g)
  <2>1. /\ completed[g] # <<>> /\ completed'[g] = Tail(completed[g])
        /\ frames'[g] = Append(frames[g], Head(completed[g])) /\ taken' = taken
    BY <1>1, <1>7 DEF Forward
  <2>2. /\ frames'[g] \o completed'[g] = frames[g] \o completed[g]
        /\ frames'[g] \in Seq(Nat) /\ completed'[g] \in Seq(Nat)
    <3>1. PICK f \in Seq(Nat), c \in Seq(Nat) : f = frames[g] /\ c = completed[g]
      BY <1>2
    <3>2. c # <<>>
      BY <2>1, <3>1
    <3>3. /\ Append(f, Head(c)) \o Tail(c) = f \o c
          /\ Append(f, Head(c)) \in Seq(Nat) /\ Tail(c) \in Seq(Nat)
      BY <3>2, HandOver
    <3> QED BY <2>1, <3>1, <3>3
  <2>3. Returned(g) \o frames'[g] \o completed'[g] = Returned(g) \o frames[g] \o completed[g]
    <3>1. PICK s \in Seq(Nat), f \in Seq(Nat), c \in Seq(Nat), g1 \in Seq(Nat), c1 \in Seq(Nat) :
            s = Returned(g) /\ f = frames[g] /\ c = completed[g] /\ g1 = frames'[g] /\ c1 = completed'[g]
      BY <1>2, <1>3, <2>2
    <3>2. g1 \o c1 = f \o c
      BY <2>2, <3>1
    <3>3. (s \o g1) \o c1 = s \o (g1 \o c1)
      BY Grouped, ZenonT(30)
    <3>4. (s \o f) \o c = s \o (f \o c)
      BY Grouped, ZenonT(30)
    <3>5. (s \o g1) \o c1 = (s \o f) \o c
      BY <3>2, <3>3, <3>4
    <3> QED BY <3>1, <3>5
  <2> QED BY <1>4, <1>5, <1>7, <2>1, <2>3 DEF Gapless
<1>8. CASE provider = g /\ Complete(g)
  <2>1. /\ taken'[g] = taken[g] + 1 /\ completed'[g] = Append(completed[g], taken[g] + 1)
        /\ frames' = frames
    BY <1>1, <1>8 DEF Complete
  <2> DEFINE before == Returned(g) \o frames[g]
  <2>2. before \in Seq(Nat) /\ before \o completed[g] = Shot(taken[g])
    BY <1>2, <1>3, <1>8, ConcatProperties DEF Gapless
  <2>3. <<taken[g] + 1>> \in Seq(Nat) /\ taken[g] + 1 \in Nat
    BY <1>2
  <2> HIDE DEF before
  <2>4. /\ completed'[g] = completed[g] \o <<taken[g] + 1>>
        /\ Append(Shot(taken[g]), taken[g] + 1) = Shot(taken[g]) \o <<taken[g] + 1>>
    BY <1>2, <2>1, <2>3, AppendIsConcat, ShotGrows
  <2>5. before \o completed'[g] = (before \o completed[g]) \o <<taken[g] + 1>>
    <3>1. PICK b \in Seq(Nat), c \in Seq(Nat), n \in Seq(Nat) :
            b = before /\ c = completed[g] /\ n = <<taken[g] + 1>>
      BY <1>2, <2>2, <2>3
    <3>2. (b \o c) \o n = b \o (c \o n)
      BY ConcatAssociative, SMTT(30)
    <3> QED BY <2>4, <3>1, <3>2
  <2>6. before \o completed'[g] = Shot(taken[g] + 1)
    BY <1>2, <2>2, <2>4, <2>5, ShotGrows
  <2> QED BY <1>4, <1>5, <1>8, <2>1, <2>6 DEF Gapless, before
<1> QED BY <1>6, <1>7, <1>8

LEMMA OpenLine == ASSUME FullInv, AllFresh, Open PROVE Gapless'
<1>1. /\ opened' = opened + 1 /\ opened < Opens /\ provider' = opened'
      /\ UNCHANGED <<completed, taken, frames, answers>>
  BY DEF Open
<1>2. opened' \in Gen /\ opened' > opened
  BY <1>1, CameraConstants DEF FullInv, IInv, Types, Gen
<1>3. PICK g \in Gen : g = opened' /\ Fresh(g)
  BY <1>2 DEF AllFresh
<1>4. Returned(g)' = <<>> /\ frames'[g] = <<>> /\ completed'[g] = <<>> /\ taken'[g] = 0
  BY <1>1, <1>3 DEF Fresh, Returned, Failed
<1>5. <<>> \o <<>> \o <<>> = <<>> /\ Shot(0) = <<>>
  BY DEF Shot
<1> QED BY <1>1, <1>3, <1>4, <1>5 DEF Gapless

LEMMA FreshInv == ASSUME FullInv, Unopened, AllFresh, [Next]_vars PROVE AllFresh'
<1>1. CASE Open
  <2>1. /\ opened' = opened + 1 /\ provider' = opened'
        /\ UNCHANGED <<completed, taken, frames, answers>>
    BY <1>1 DEF Open
  <2>2. opened \in Nat
    BY CameraConstants DEF FullInv, IInv, Types
  <2>3. \A g \in Gen : g > opened' => g > opened
    BY <2>1, <2>2, GenIsSome
  <2>4. provider' \in 0 .. opened'
    BY <2>1, <2>2
  <2> QED BY <2>1, <2>3, <2>4 DEF AllFresh, Fresh
<1>2. ASSUME NEW g \in Gen, g <= opened, UNCHANGED opened, provider' \in {provider, None},
             \A h \in Gen \ {g} : /\ frames'[h] = frames[h] /\ completed'[h] = completed[h]
                                  /\ taken'[h] = taken[h] /\ answers'[h] = answers[h]
      PROVE  AllFresh'
  <2>1. opened \in Nat
    BY CameraConstants DEF FullInv, IInv, Types
  <2>2. provider' \in 0 .. opened'
    BY <1>2, <2>1 DEF AllFresh, None
  <2>3. \A h \in Gen : h > opened => h # g
    BY <1>2, <2>1, GenIsSome
  <2> QED BY <1>2, <2>2, <2>3 DEF AllFresh, Fresh
<1>3. /\ frames \in [Gen -> Seq(Frame)] /\ completed \in [Gen -> Seq(Frame)]
      /\ taken \in [Gen -> 0 .. Frames] /\ answers \in [Gen -> Seq(Frame \cup {Terminated})]
      /\ opened \in Nat
  BY CameraConstants, SMTT(30) DEF FullInv, IInv, Types, Stores
<1>4. ASSUME NEW g \in Gen, Setup(g) \/ Loop(g) \/ Complete(g) PROVE AllFresh'
  <2>1. worker[g] # "unborn" /\ UNCHANGED <<opened, provider>>
    BY <1>4 DEF Setup, Loop, Complete, Acquire, Configure, SetupFails, QueueFirst, QueueFails,
       SeeShutdown, SeeNone, WaitOver, Forward, Requeue, Moves, Idle, pipeline
  <2>2. g <= opened
    BY <1>3, <2>1, GenIsSome DEF Unopened
  <2>3. \A h \in Gen \ {g} : /\ frames'[h] = frames[h] /\ completed'[h] = completed[h]
                             /\ taken'[h] = taken[h] /\ answers'[h] = answers[h]
    BY <1>3, <1>4 DEF Setup, Loop, Complete, Acquire, Configure, SetupFails, QueueFirst,
       QueueFails, SeeShutdown, SeeNone, WaitOver, Forward, Requeue, Idle
  <2> QED BY <1>2, <2>1, <2>2, <2>3
<1>5. CASE NextPayload
  <2>1. PICK g \in Gen :
          /\ Polled(g) /\ UNCHANGED <<pipeline, completed, taken>>
          /\ \A h \in Gen \ {g} : frames'[h] = frames[h] /\ answers'[h] = answers[h]
    BY <1>3, <1>5 DEF NextPayload
  <2>2. g <= opened
    BY <1>3, <2>1 DEF AllFresh, Polled
  <2> QED BY <1>2, <2>1, <2>2 DEF pipeline
<1>6. CASE DropProvider \/ UNCHANGED vars
  <2>1. UNCHANGED <<provider, opened, completed, taken, frames, answers>>
    BY <1>6 DEF DropProvider, vars
  <2> QED BY <2>1 DEF AllFresh, Fresh
<1>7. CASE Join
  <2>1. /\ provider' = None /\ frames' = [frames EXCEPT ![provider] = <<>>] /\ joining
        /\ UNCHANGED <<opened, completed, taken, answers>>
    BY <1>7 DEF Join
  <2>2. provider \in Gen /\ provider <= opened
    BY <1>3, <2>1 DEF FullInv, IInv, Types, JoinHasTarget, AllFresh
  <2> QED BY <1>2, <1>3, <2>1, <2>2
<1> QED BY <1>1, <1>4, <1>5, <1>6, <1>7 DEF Next

LEMMA LineInv == ASSUME FullInv, AllFresh, Gapless, [Next]_vars PROVE Gapless'
<1>1. CASE Open
  BY <1>1, OpenLine
<1>2. CASE NextPayload
  BY <1>2, NextPayloadLine
<1>3. ASSUME UNCHANGED <<completed, taken, frames, answers, provider>> PROVE Gapless'
  BY <1>3 DEF Gapless, Returned, Failed
<1>4. CASE DropProvider \/ UNCHANGED vars
  BY <1>3, <1>4 DEF DropProvider, vars
<1>5. CASE Join
  BY <1>5, GenIsSome DEF Join, Gapless
<1>6. ASSUME NEW g \in Gen, Setup(g) \/ Loop(g) \/ Complete(g) PROVE Gapless'
  <2>1. CASE Forward(g) \/ Complete(g)
    BY <2>1, ThreadLine
  <2>2. CASE ~(Forward(g) \/ Complete(g))
    BY <1>3, <1>6, <2>2 DEF Setup, Loop, Acquire, Configure, SetupFails, QueueFirst, QueueFails,
       SeeShutdown, SeeNone, WaitOver, Requeue, Idle, pipeline
  <2> QED BY <2>1, <2>2
<1> QED BY <1>1, <1>2, <1>4, <1>5, <1>6 DEF Next

(* However often the provider is replaced, the pipeline gets every frame   *)
(* the camera takes for it, in order, but for what a thread that ends      *)
(* leaves behind.                                                          *)
THEOREM FramesAreGapless == Spec => []Gapless
<1>1. Init => Gapless /\ AllFresh
  <2> SUFFICES ASSUME Init PROVE Gapless /\ AllFresh
    OBVIOUS
  <2>1. /\ provider = None /\ opened = 0
        /\ taken = [g \in Gen |-> 0] /\ completed = [g \in Gen |-> <<>>]
        /\ frames = [g \in Gen |-> <<>>] /\ answers = [g \in Gen |-> <<>>]
    BY DEF Init
  <2> QED BY <2>1, GenIsSome DEF Gapless, AllFresh, Fresh, None
<1> QED BY <1>1, FullInvariant, LineInv, FreshInv, PTL DEF Spec
=============================================================================
