-------------------------- MODULE WebRtcSinkProofs --------------------------
(***************************************************************************)
(* Proofs about WebRtcSink, for any queue limit, any packets and keyframes *)
(* and any policies and executors: types; packets leave in order; a flush  *)
(* that returns Ok leaves nothing behind.  The argument follows where the  *)
(* accepted packets are: written, in the sender's hands, in the queue, or  *)
(* reported as dropped, each in one place, and each place before the next. *)
(***************************************************************************)
EXTENDS WebRtcSink, SequenceTheorems, WellFoundedInduction, TLAPS

Increasing(q) == \A i, j \in 1 .. Len(q) : i < j => q[i] < q[j]
Before(A, B) == \A a \in A, b \in B : a < b

Written == ToSet(delivered)
InHand  == {sending} \ {None}
Queued  == ToSet(queue)
-----------------------------------------------------------------------------
LEMMA Numbers == /\ Packet \subseteq Nat /\ None \notin Packet /\ QueueLimit \in Nat \ {0}
                 /\ Packets \in Nat
BY SinkConstants DEF Packet, None

LEMMA SetOf == ASSUME NEW S, NEW q \in Seq(S)
               PROVE  /\ ToSet(q) = {q[i] : i \in 1 .. Len(q)} /\ ToSet(q) \subseteq S
                      /\ Len(q) \in Nat /\ (Len(q) = 0 <=> q = <<>>)
BY LenProperties, EmptySeq DEF ToSet

LEMMA Appended ==
  ASSUME NEW q \in Seq(Packet), NEW e \in Packet, Increasing(q), Before(ToSet(q), {e})
  PROVE  /\ Append(q, e) \in Seq(Packet) /\ Len(Append(q, e)) = Len(q) + 1
         /\ ToSet(Append(q, e)) = ToSet(q) \cup {e} /\ Increasing(Append(q, e))
<1> DEFINE r == Append(q, e)
<1>1. /\ r \in Seq(Packet) /\ Len(r) = Len(q) + 1 /\ r[Len(q) + 1] = e /\ Len(q) \in Nat
      /\ \A i \in 1 .. Len(q) : r[i] = q[i]
  BY AppendProperties, LenProperties
<1> HIDE DEF r
<1>2. ToSet(r) = {r[i] : i \in 1 .. Len(r)} /\ ToSet(q) = {q[i] : i \in 1 .. Len(q)}
  BY <1>1, SetOf
<1>3. 1 .. Len(r) = (1 .. Len(q)) \cup {Len(q) + 1}
  BY <1>1
<1>4. ToSet(r) = ToSet(q) \cup {e}
  BY <1>1, <1>2, <1>3
<1>5. ASSUME NEW i \in 1 .. Len(r), NEW j \in 1 .. Len(r), i < j PROVE r[i] < r[j]
  <2>1. i \in 1 .. Len(q)
    BY <1>1, <1>3, <1>5
  <2>2. CASE j \in 1 .. Len(q)
    BY <1>1, <1>5, <2>1, <2>2 DEF Increasing
  <2>3. CASE j = Len(q) + 1
    <3>1. q[i] \in ToSet(q)
      BY <1>2, <2>1
    <3> QED BY <1>1, <2>1, <2>3, <3>1 DEF Before
  <2> QED BY <1>3, <2>2, <2>3
<1> QED BY <1>1, <1>4, <1>5 DEF Increasing, r

LEMMA Beheaded ==
  ASSUME NEW q \in Seq(Packet), q # <<>>, Increasing(q)
  PROVE  /\ Head(q) \in Packet /\ Tail(q) \in Seq(Packet) /\ Len(Tail(q)) = Len(q) - 1
         /\ ToSet(q) = {Head(q)} \cup ToSet(Tail(q)) /\ Increasing(Tail(q))
         /\ Before({Head(q)}, ToSet(Tail(q)))
<1>1. /\ Head(q) \in Packet /\ Tail(q) \in Seq(Packet) /\ Len(Tail(q)) = Len(q) - 1
      /\ \A i \in 1 .. Len(Tail(q)) : Tail(q)[i] = q[i + 1]
  BY HeadTailProperties
<1>2. Head(q) = q[1] /\ Len(q) \in Nat \ {0}
  BY SetOf
<1>3. PICK t \in Seq(Packet) : t = Tail(q)
  BY <1>1
<1>4. ToSet(t) = {t[i] : i \in 1 .. Len(t)} /\ ToSet(q) = {q[i] : i \in 1 .. Len(q)}
  BY SetOf
<1>5. /\ Len(t) = Len(q) - 1 /\ \A i \in 1 .. Len(t) : t[i] = q[i + 1] /\ i + 1 \in 1 .. Len(q)
      /\ \A i \in 1 .. Len(q) : i # 1 => i - 1 \in 1 .. Len(t) /\ t[i - 1] = q[i]
      /\ 1 \in 1 .. Len(q)
  BY <1>1, <1>2, <1>3
<1>6. ToSet(q) = {q[1]} \cup ToSet(t)
  BY <1>4, <1>5
<1>7. Increasing(t)
  BY <1>2, <1>5 DEF Increasing
<1>8. \A i \in 1 .. Len(t) : q[1] < t[i]
  BY <1>2, <1>5 DEF Increasing
<1>9. Before({q[1]}, ToSet(t))
  BY <1>4, <1>8 DEF Before
<1> QED BY <1>1, <1>2, <1>3, <1>6, <1>7, <1>9

(* What RemoveAt leaves, of a queue in order.                              *)
LEMMA Removed ==
  ASSUME NEW q \in Seq(Packet), NEW v \in 1 .. Len(q), Increasing(q)
  PROVE  /\ RemoveAt(q, v) \in Seq(Packet) /\ Len(RemoveAt(q, v)) = Len(q) - 1
         /\ ToSet(RemoveAt(q, v)) = ToSet(q) \ {q[v]} /\ Increasing(RemoveAt(q, v))
<1>1. /\ Len(q) \in Nat /\ \A i \in 1 .. Len(q) : q[i] \in Packet
      /\ v \in Nat /\ v >= 1 /\ v <= Len(q)
  BY SetOf
<1> DEFINE n == Len(q)
           a == SubSeq(q, 1, v - 1)
           b == SubSeq(q, v + 1, n)
<1>2. a \in Seq(Packet) /\ Len(a) = v - 1 /\ \A i \in 1 .. v - 1 : a[i] = q[i]
  <2>1. /\ \A i \in 1 .. v - 1 : q[i] \in Packet
        /\ 1 \in Int /\ v - 1 \in Int /\ v - 1 - 1 + 1 = v - 1
    BY <1>1
  <2>2. /\ a \in Seq(Packet) /\ Len(a) = IF 1 <= v - 1 THEN v - 1 - 1 + 1 ELSE 0
        /\ \A i \in 1 .. v - 1 - 1 + 1 : a[i] = q[1 + i - 1]
    BY <2>1, SubSeqProperties
  <2> HIDE DEF a
  <2>3. Len(a) = v - 1
    BY <1>1, <2>2
  <2>4. \A i \in 1 .. v - 1 : 1 + i - 1 = i
    OBVIOUS
  <2> QED BY <2>1, <2>2, <2>3, <2>4
<1>3. b \in Seq(Packet) /\ Len(b) = n - v /\ \A i \in 1 .. n - v : b[i] = q[v + i]
  <2>1. /\ \A i \in v + 1 .. n : q[i] \in Packet
        /\ v + 1 \in Int /\ n \in Int /\ n - (v + 1) + 1 = n - v
    BY <1>1
  <2>2. /\ b \in Seq(Packet) /\ Len(b) = IF v + 1 <= n THEN n - (v + 1) + 1 ELSE 0
        /\ \A i \in 1 .. n - (v + 1) + 1 : b[i] = q[v + 1 + i - 1]
    BY <2>1, SubSeqProperties
  <2> HIDE DEF b
  <2>3. Len(b) = n - v
    BY <1>1, <2>2
  <2>4. \A i \in 1 .. n - v : v + 1 + i - 1 = v + i
    BY <1>1
  <2> QED BY <2>1, <2>2, <2>3, <2>4
<1> DEFINE r == a \o b
<1>4. RemoveAt(q, v) = r
  BY DEF RemoveAt
<1> HIDE DEF a, b
<1>5. /\ r \in Seq(Packet) /\ Len(r) = Len(a) + Len(b)
      /\ \A i \in 1 .. Len(a) + Len(b) : r[i] = IF i <= Len(a) THEN a[i] ELSE b[i - Len(a)]
  BY <1>2, <1>3, ConcatProperties
<1> HIDE DEF r, n
<1>6. Len(r) = n - 1 /\ n \in Nat /\ n = Len(q) /\ Len(a) + Len(b) = n - 1 /\ Len(a) = v - 1
  BY <1>1, <1>2, <1>3, <1>5 DEF n
<1>7. \A i \in 1 .. Len(r) : r[i] = q[IF i < v THEN i ELSE i + 1]
  <2> SUFFICES ASSUME NEW i \in 1 .. n - 1 PROVE r[i] = q[IF i < v THEN i ELSE i + 1]
    BY <1>6
  <2>1. r[i] = IF i <= v - 1 THEN a[i] ELSE b[i - (v - 1)]
    BY <1>5, <1>6
  <2>2. CASE i < v
    BY <1>1, <1>2, <2>1, <2>2
  <2>3. CASE ~(i < v)
    <3>1. i - (v - 1) \in 1 .. n - v /\ v + (i - (v - 1)) = i + 1 /\ ~(i <= v - 1)
      BY <1>1, <1>6, <2>3
    <3>2. b[i - (v - 1)] = q[v + (i - (v - 1))]
      BY <1>3, <3>1
    <3> QED BY <2>1, <2>3, <3>1, <3>2
  <2> QED BY <2>2, <2>3
<1>8. \A i \in 1 .. Len(q) : i # v =>
        \E k \in 1 .. Len(r) : (IF k < v THEN k ELSE k + 1) = i
  <2> SUFFICES ASSUME NEW i \in 1 .. n, i # v
               PROVE  \E k \in 1 .. n - 1 : (IF k < v THEN k ELSE k + 1) = i
    BY <1>6
  <2>1. CASE i < v
    <3>1. i \in 1 .. n - 1
      BY <1>1, <1>6, <2>1
    <3> QED BY <2>1, <3>1
  <2>2. CASE i > v
    <3>1. i - 1 \in 1 .. n - 1 /\ ~(i - 1 < v) /\ i - 1 + 1 = i
      BY <1>1, <1>6, <2>2
    <3> QED BY <3>1
  <2> QED BY <1>1, <2>1, <2>2
<1>9. \A i \in 1 .. Len(r) : (IF i < v THEN i ELSE i + 1) \in (1 .. Len(q)) \ {v}
  BY <1>1, <1>6
<1>10. \A i \in 1 .. Len(q) : i # v => q[i] # q[v]
  <2> SUFFICES ASSUME NEW i \in 1 .. Len(q), i # v PROVE q[i] # q[v]
    OBVIOUS
  <2>0. i < v \/ v < i
    BY <1>1
  <2>1. q[i] \in Nat /\ q[v] \in Nat
    BY <1>1, Numbers
  <2>2. q[i] < q[v] \/ q[v] < q[i]
    BY <2>0 DEF Increasing
  <2> QED BY <2>1, <2>2
<1>11. ToSet(r) = {r[i] : i \in 1 .. Len(r)} /\ ToSet(q) = {q[i] : i \in 1 .. Len(q)}
  BY <1>5, SetOf
<1>12. ToSet(r) = ToSet(q) \ {q[v]}
  <2>1. ASSUME NEW x \in ToSet(r) PROVE x \in ToSet(q) /\ x # q[v]
    <3>1. PICK i \in 1 .. Len(r) : x = r[i]
      BY <1>11
    <3>2. PICK k \in (1 .. Len(q)) \ {v} : x = q[k]
      BY <1>7, <1>9, <3>1
    <3> QED BY <1>10, <1>11, <3>2
  <2>2. ASSUME NEW x \in ToSet(q), x # q[v] PROVE x \in ToSet(r)
    <3>1. PICK i \in 1 .. Len(q) : x = q[i] /\ i # v
      BY <1>11, <2>2
    <3>2. PICK k \in 1 .. Len(r) : r[k] = x
      BY <1>7, <1>8, <3>1
    <3> QED BY <1>11, <3>2
  <2> QED BY <2>1, <2>2
<1>13. ASSUME NEW i \in 1 .. Len(r), NEW j \in 1 .. Len(r), i < j PROVE r[i] < r[j]
  <2> DEFINE at(x) == IF x < v THEN x ELSE x + 1
  <2>1. at(i) \in 1 .. Len(q) /\ at(j) \in 1 .. Len(q)
    BY <1>9
  <2>2. at(i) < at(j)
    BY <1>1, <1>6, <1>13
  <2>3. r[i] = q[at(i)] /\ r[j] = q[at(j)]
    BY <1>7
  <2> HIDE DEF at
  <2> QED BY <2>1, <2>2, <2>3 DEF Increasing
<1> QED BY <1>4, <1>5, <1>6, <1>12, <1>13 DEF Increasing

(* The victim is a place in the queue: a set of places has a least one.    *)
LEMMA LeastPlace == ASSUME NEW T, T \subseteq Nat, T # {} PROVE \E i \in T : \A j \in T : i <= j
<1>1. PICK x \in T : \A y \in T : ~ (<<y, x>> \in OpToRel(<, Nat))
  BY WFMin, NatLessThanWellFounded
<1>2. \A y \in T : ~(y < x)
  BY <1>1 DEF OpToRel
<1> QED BY <1>2

LEMMA VictimIsPlace ==
  ASSUME queue \in Seq(Packet), queue # <<>> PROVE Victim \in 1 .. Len(queue)
<1> DEFINE deltas == {i \in DOMAIN queue : queue[i] \notin Keyframes}
<1>1. DOMAIN queue = 1 .. Len(queue) /\ Len(queue) \in Nat \ {0}
  BY SetOf, LenProperties
<1>2. CASE deltas = {}
  BY <1>1, <1>2 DEF Victim
<1>3. CASE deltas # {}
  <2>1. deltas \subseteq Nat
    BY <1>1
  <2>2. \E i \in deltas : \A j \in deltas : i <= j
    BY <1>3, <2>1, LeastPlace
  <2> QED BY <1>1, <1>3, <2>2 DEF Victim
<1> QED BY <1>2, <1>3
-----------------------------------------------------------------------------
Consuming == {"check", "push", "wait"}
Held == /\ packet # None <=> producer \in Consuming
        /\ packet # None => packet = next - 1
Limit == IF packet = None THEN next ELSE packet

SenderPlace == /\ sending # None <=> sender \in {"process", "panicked"}
               /\ sender = "failing" => error
               /\ error => sender \in {"failing", "gone"}

Members  == Queued \subseteq accepted /\ InHand \subseteq accepted /\ \A p \in accepted : p < Limit
Ordered  == /\ Increasing(delivered) /\ Increasing(queue)
            /\ Before(Written, InHand) /\ Before(Written, Queued) /\ Before(InHand, Queued)
Reported == dropped \cap (Written \cup InHand \cup Queued) = {}

(* While the sender has not failed and the sink is not dropped, every      *)
(* accepted packet is somewhere.                                           *)
Alive   == ~error /\ sender # "failed" /\ producer # "gone"
Whole   == Alive => accepted \subseteq dropped \cup Written \cup InHand \cup Queued
EndDrained == sender = "gone" /\ ~error /\ producer # "gone" => closed /\ queue = <<>>

(* What a panic of the sender leaves behind.                               *)
Left == IF sender = "panicked" THEN InHand \cup Queued ELSE {}
Flushing == flushed = "ok" => /\ closed /\ sender \in {"gone", "panicked"} /\ ~error
                              /\ accepted \subseteq dropped \cup Written \cup Left

JoinsClosed == producer \in {"closing", "joining"} => closed

Control == TypeOK /\ Held /\ SenderPlace /\ EndDrained /\ JoinsClosed /\ Flushing
IInv == Control /\ Members /\ Ordered /\ Reported /\ Whole

LEMMA InitInv == Init => IInv
<1> SUFFICES ASSUME Init PROVE IInv
  OBVIOUS
<1>1. /\ policy \in Policies /\ executor \in Executors
      /\ queue = <<>> /\ closed = FALSE /\ error = FALSE /\ permit = FALSE
      /\ future = [s \in Side |-> "none"] /\ producer = "idle" /\ packet = None
      /\ sender = "take" /\ sending = None /\ next = 1
      /\ accepted = {} /\ dropped = {} /\ delivered = <<>> /\ flushed = "no"
  BY DEF Init
<1>2. /\ <<>> \in Seq(Packet) /\ Len(<<>>) = 0 /\ ToSet(<<>>) = {}
      /\ Increasing(<<>>)
  BY DEF ToSet, Increasing
<1>3. 1 \in 1 .. Packets + 1 /\ 0 <= QueueLimit
  BY Numbers
<1>4. TypeOK
  BY <1>1, <1>2, <1>3 DEF TypeOK
<1>5. Written = {} /\ InHand = {} /\ Queued = {}
  BY <1>1, <1>2 DEF Written, InHand, Queued
<1>6. Members /\ Ordered /\ Reported /\ Whole
  BY <1>1, <1>2, <1>5 DEF Members, Ordered, Reported, Whole, Before
<1> QED BY <1>1, <1>4, <1>6 DEF IInv, Control, Held, SenderPlace, EndDrained, JoinsClosed, Flushing, Consuming

LEMMA LimitType == ASSUME Control PROVE Limit \in Nat /\ next \in Nat /\ (packet # None => packet \in Nat)
BY Numbers DEF Control, TypeOK, Limit

(* The sequences are as they were, and so are the history sets.            *)
LEMMA QuietInv ==
  ASSUME IInv, UNCHANGED <<queue, delivered, sending, accepted, dropped>>,
         Control', Limit <= Limit', Alive' => Alive
  PROVE  IInv'
<1>1. Written' = Written /\ InHand' = InHand /\ Queued' = Queued
  BY DEF Written, InHand, Queued
<1>2. Limit \in Nat /\ accepted \subseteq Nat
  BY LimitType, Numbers DEF IInv, Control, TypeOK
<1>3. Limit' \in Nat
  BY Numbers DEF Control, TypeOK, Limit
<1>4. Members'
  BY <1>1, <1>2, <1>3 DEF IInv, Members
<1>5. Ordered' /\ Reported' /\ Whole'
  BY <1>1 DEF IInv, Ordered, Reported, Whole
<1> QED BY <1>4, <1>5 DEF IInv

(* Notify keeps its types, whatever is done with it.                       *)
LEMMA NotifyType ==
  ASSUME TypeOK, NEW s \in Side,
         Notified(s) \/ NotifyOne \/ NotifyWaiters \/ Registers(s) \/ Completes(s)
           \/ UNCHANGED notify
  PROVE  /\ permit' \in BOOLEAN
         /\ future' \in [Side -> {"none", "created", "called", "waiting", "woken"}]
<1>1. permit \in BOOLEAN /\ future \in [Side -> {"none", "created", "called", "waiting", "woken"}]
  BY DEF TypeOK
<1>2. CASE Notified(s) \/ NotifyOne \/ Registers(s) \/ Completes(s) \/ UNCHANGED notify
  BY <1>1, <1>2 DEF Notified, NotifyOne, Registers, Completes, notify, Side
<1>3. CASE NotifyWaiters
  <2>1. /\ future' = [t \in Side |-> CASE future[t] = "created" -> "called"
                                       [] future[t] = "waiting" -> "woken"
                                       [] OTHER -> future[t]]
        /\ UNCHANGED permit
    BY <1>3 DEF NotifyWaiters
  <2>2. \A t \in Side : (CASE future[t] = "created" -> "called"
                           [] future[t] = "waiting" -> "woken"
                           [] OTHER -> future[t])
                        \in {"none", "created", "called", "waiting", "woken"}
    BY <1>1
  <2> QED BY <1>1, <2>1, <2>2
<1> QED BY <1>2, <1>3

(* Steps of the producer that move no packet.                              *)
LEMMA ProducerQuiet ==
  ASSUME IInv, \/ Consume \/ SharedError \/ EnqueueClosed \/ EnqueueBlocks \/ ProducerWaits
               \/ EndOfStream \/ Close \/ CloseNotifies \/ Flushed
  PROVE  IInv'
<1>1. /\ UNCHANGED <<policy, executor, queue, error, delivered, sender, sending, accepted, dropped>>
      /\ producer # "gone" /\ producer' # "gone"
      /\ closed' = closed \/ closed' = TRUE
  BY DEF Consume, SharedError, EnqueueClosed, EnqueueBlocks, ProducerWaits, EndOfStream, Close,
     CloseNotifies, Flushed, Full, Return, shared, history
<1>2. /\ permit' \in BOOLEAN
      /\ future' \in [Side -> {"none", "created", "called", "waiting", "woken"}]
  <2>1. "producer" \in Side /\ TypeOK
    BY DEF Side, IInv, Control
  <2>2. \/ Notified("producer") \/ NotifyWaiters \/ Registers("producer")
        \/ Completes("producer") \/ UNCHANGED notify
    BY DEF Consume, SharedError, EnqueueClosed, EnqueueBlocks, ProducerWaits, EndOfStream,
       Close, CloseNotifies, Flushed
  <2> QED BY <2>1, <2>2, NotifyType
<1>3. /\ producer' \in {"idle", "check", "push", "wait", "close", "closing", "joining"}
      /\ packet' \in Packet \cup {None} /\ next' \in 1 .. Packets + 1
      /\ Held' /\ Limit <= Limit'
  <2>1. /\ packet \in Packet \cup {None} /\ next \in 1 .. Packets + 1 /\ next \in Nat /\ Held
        /\ packet # None => packet \in Nat
    BY Numbers DEF IInv, Control, TypeOK
  <2>2. CASE Consume
    <3>1. /\ producer = "idle" /\ next <= Packets /\ packet' = next /\ next' = next + 1
          /\ producer' = "check"
      BY <2>2 DEF Consume
    <3>2. next \in Packet /\ next' \in 1 .. Packets + 1 /\ next = next' - 1
      BY <2>1, <3>1, Numbers DEF Packet
    <3>3. packet = None
      BY <2>1, <3>1 DEF Held, Consuming
    <3>4. packet' # None
      BY <3>1, <3>2, Numbers
    <3>5. Held'
      BY <3>1, <3>2, <3>4 DEF Held, Consuming
    <3> QED BY <2>1, <3>1, <3>2, <3>3, <3>4, <3>5 DEF Limit
  <2>3. CASE /\ next' = next /\ packet' = packet
             /\ producer' \in {"idle", "check", "push", "wait", "close", "closing", "joining"}
             /\ producer' \in Consuming <=> producer \in Consuming
    BY <2>1, <2>3 DEF Held, Limit
  <2>4. CASE next' = next /\ Return /\ packet # None
    <3>1. packet' = None /\ producer' = "idle" /\ packet = next - 1
      BY <2>1, <2>4 DEF Return, Held
    <3> QED BY <2>1, <2>4, <3>1 DEF Held, Limit, Consuming
  <2>5. CASE SharedError \/ EnqueueClosed
    <3>1. packet # None
      BY <2>1, <2>5 DEF SharedError, EnqueueClosed, Held, Consuming
    <3> QED BY <2>3, <2>4, <2>5, <3>1 DEF SharedError, EnqueueClosed, Return, Consuming
  <2>6. CASE EnqueueBlocks \/ ProducerWaits \/ EndOfStream \/ Close \/ CloseNotifies \/ Flushed
    <3>1. next' = next /\ packet' = packet
      BY <2>6 DEF EnqueueBlocks, ProducerWaits, EndOfStream, Close, CloseNotifies, Flushed, history
    <3>2. CASE EnqueueBlocks \/ ProducerWaits
      BY <2>3, <3>1, <3>2 DEF EnqueueBlocks, ProducerWaits, Full, Consuming
    <3>3. CASE EndOfStream \/ Close \/ CloseNotifies \/ Flushed
      BY <2>3, <3>1, <3>3 DEF EndOfStream, Close, CloseNotifies, Flushed, Consuming
    <3> QED BY <2>6, <3>2, <3>3
  <2> QED BY <2>2, <2>5, <2>6
<1>4. SenderPlace' /\ EndDrained' /\ JoinsClosed'
  <2>1. SenderPlace' /\ EndDrained'
    BY <1>1 DEF IInv, Control, SenderPlace, EndDrained
  <2>2. JoinsClosed'
    BY <1>1 DEF IInv, Control, JoinsClosed, Consume, SharedError, EnqueueClosed, EnqueueBlocks,
       ProducerWaits, EndOfStream, Close, CloseNotifies, Flushed, Return, shared
  <2> QED BY <2>1, <2>2
<1>5. flushed' \in {"no", "ok", "error"} /\ Flushing'
  <2>1. CASE flushed' = flushed
    <3>1. Written' = Written /\ Left' = Left
      BY <1>1 DEF Written, Left, InHand, Queued
    <3> QED BY <1>1, <2>1, <3>1 DEF IInv, Control, TypeOK, Flushing
  <2>2. CASE Flushed
    <3>1. /\ producer = "joining" /\ sender \in {"gone", "panicked"} /\ closed' = closed
          /\ flushed' = IF error THEN "error" ELSE "ok"
      BY <2>2 DEF Flushed, shared
    <3>2. CASE error
      BY <3>1, <3>2 DEF Flushing
    <3>3. CASE ~error
      <4>1. closed
        BY <1>1, <3>1 DEF IInv, Control, JoinsClosed
      <4>2. Queued \cup InHand = Left /\ Written' = Written /\ Left' = Left
        <5>1. Written' = Written /\ Left' = Left
          BY <1>1 DEF Written, Left, InHand, Queued
        <5>2. CASE sender = "gone"
          <6>1. queue = <<>> /\ sending = None
            BY <1>1, <3>1, <3>3, <5>2 DEF IInv, Control, EndDrained, SenderPlace
          <6> QED BY <5>1, <5>2, <6>1 DEF Left, Queued, InHand, ToSet
        <5>3. CASE sender = "panicked"
          BY <5>1, <5>3 DEF Left
        <5> QED BY <3>1, <5>1, <5>2, <5>3
      <4>3. accepted \subseteq dropped \cup Written \cup Left
        BY <1>1, <3>1, <3>3, <4>2 DEF IInv, Whole, Alive
      <4> QED BY <1>1, <3>1, <3>3, <4>1, <4>2, <4>3 DEF Flushing
    <3> QED BY <3>1, <3>2, <3>3
  <2> QED BY <2>1, <2>2 DEF Consume, SharedError, EnqueueClosed, EnqueueBlocks, ProducerWaits,
             EndOfStream, Close, CloseNotifies, history
<1>6. TypeOK'
  BY <1>1, <1>2, <1>3, <1>5 DEF IInv, Control, TypeOK
<1>7. Alive' => Alive
  BY <1>1 DEF Alive
<1> QED BY <1>1, <1>3, <1>4, <1>5, <1>6, <1>7, QuietInv DEF Control

(* Steps of the sender that move no packet.                                *)
LEMMA SenderQuiet ==
  ASSUME IInv, DequeueClosed \/ DequeueEmpty \/ SenderWaits \/ SetSenderError \/ ErrorNotifies
  PROVE  IInv'
<1>1. /\ UNCHANGED <<policy, executor, queue, closed, delivered, producer, packet, sending, next,
                     accepted, dropped, flushed>>
      /\ sender \notin {"gone", "panicked"} /\ sender' \in {"take", "wait", "failing", "gone"}
  BY DEF DequeueClosed, DequeueEmpty, SenderWaits, SetSenderError, ErrorNotifies, Taking, shared,
     history
<1>2. /\ permit' \in BOOLEAN
      /\ future' \in [Side -> {"none", "created", "called", "waiting", "woken"}]
  <2>1. "sender" \in Side /\ TypeOK
    BY DEF Side, IInv, Control
  <2>2. \/ Notified("sender") \/ NotifyWaiters \/ Registers("sender")
        \/ Completes("sender") \/ UNCHANGED notify
    BY DEF DequeueClosed, DequeueEmpty, SenderWaits, SetSenderError, ErrorNotifies
  <2> QED BY <2>1, <2>2, NotifyType
<1>3. error' \in BOOLEAN /\ SenderPlace' /\ EndDrained' /\ (Alive' => Alive)
  <2>1. SenderPlace /\ error \in BOOLEAN
    BY DEF IInv, Control, TypeOK
  <2>2. CASE DequeueClosed
    BY <1>1, <2>1, <2>2 DEF DequeueClosed, Taking, Drained, SenderPlace, EndDrained, Alive, shared
  <2>3. CASE DequeueEmpty \/ SenderWaits
    BY <1>1, <2>1, <2>3 DEF DequeueEmpty, SenderWaits, Taking, SenderPlace, EndDrained, Alive, shared
  <2>4. CASE SetSenderError
    BY <1>1, <2>1, <2>4 DEF SetSenderError, SenderPlace, EndDrained, Alive
  <2>5. CASE ErrorNotifies
    BY <1>1, <2>1, <2>5 DEF ErrorNotifies, SenderPlace, EndDrained, Alive, shared
  <2> QED BY <2>2, <2>3, <2>4, <2>5
<1>4. Flushing' /\ JoinsClosed' /\ Held' /\ Limit' = Limit
  BY <1>1 DEF IInv, Control, Flushing, JoinsClosed, Held, Limit
<1>5. Limit <= Limit'
  BY <1>4, LimitType DEF IInv
<1>6. TypeOK'
  BY <1>1, <1>2, <1>3 DEF IInv, Control, TypeOK
<1> QED BY <1>1, <1>3, <1>4, <1>5, <1>6, QuietInv DEF Control
-----------------------------------------------------------------------------
(* A packet that the producer holds is newer than everything accepted.     *)
LEMMA HeldIsNewest ==
  ASSUME IInv, producer = "push"
  PROVE  /\ packet \in Packet /\ packet \in Nat /\ next = packet + 1 /\ packet \notin accepted
         /\ Before(accepted, {packet}) /\ Before(Written \cup InHand \cup Queued, {packet})
<1>1. packet # None /\ packet = next - 1 /\ packet \in Packet /\ next \in Nat /\ packet \in Nat
  BY Numbers DEF IInv, Control, Held, Consuming, TypeOK
<1>2. \A p \in accepted : p < packet
  BY <1>1 DEF IInv, Members, Limit
<1>3. Written \cup InHand \cup Queued \subseteq accepted
  BY DEF IInv, Control, TypeOK, Members, Written
<1> QED BY <1>1, <1>2, <1>3 DEF Before

(* What a step of the producer that accepts a packet leaves as it is.      *)
LEMMA AcceptInv ==
  ASSUME IInv, producer = "push", ~closed, Return,
         UNCHANGED <<policy, executor, closed, error, sender, sending, next, delivered, flushed>>,
         permit' \in BOOLEAN,
         future' \in [Side -> {"none", "created", "called", "waiting", "woken"}],
         queue' \in Seq(Packet), Len(queue') <= QueueLimit, Increasing(queue'),
         accepted' = accepted \cup {packet}, dropped' \subseteq accepted', dropped \subseteq dropped',
         Queued' \subseteq Queued \cup {packet},
         dropped' \cap (Written \cup InHand \cup Queued') = {},
         Queued \cup {packet} \subseteq dropped' \cup Queued'
  PROVE  IInv'
<1>1. /\ packet \in Packet /\ packet \in Nat /\ next = packet + 1
      /\ Before(accepted, {packet}) /\ Before(Written \cup InHand \cup Queued, {packet})
  BY HeldIsNewest
<1>2. Written' = Written /\ InHand' = InHand
  BY DEF Written, InHand
<1>3. producer' = "idle" /\ packet' = None
  BY DEF Return
<1>4. TypeOK'
  BY <1>1, <1>3 DEF IInv, Control, TypeOK
<1>5. Held'
  BY <1>3 DEF Held, Consuming
<1>6. SenderPlace' /\ EndDrained' /\ JoinsClosed' /\ Flushing'
  BY <1>3 DEF IInv, Control, SenderPlace, EndDrained, JoinsClosed, Flushing
<1>7. Members'
  <2>1. \A p \in accepted' : p < next
    BY <1>1, Numbers DEF Before, IInv, Control, TypeOK
  <2>2. Limit' = next
    BY <1>3 DEF Limit
  <2> QED BY <1>2, <2>1, <2>2 DEF IInv, Members
<1>8. Ordered'
  BY <1>1, <1>2 DEF IInv, Ordered, Before
<1>9. Reported'
  BY <1>2 DEF Reported
<1>10. Whole'
  BY <1>2, <1>3 DEF IInv, Whole, Alive
<1> QED BY <1>4, <1>5, <1>6, <1>7, <1>8, <1>9, <1>10 DEF IInv, Control

LEMMA WakeTypes ==
  ASSUME IInv, WakeSender \/ UNCHANGED notify
  PROVE  /\ permit' \in BOOLEAN
         /\ future' \in [Side -> {"none", "created", "called", "waiting", "woken"}]
BY NotifyType DEF IInv, Control, WakeSender, Side

LEMMA EnqueueFitsInv == ASSUME IInv, EnqueueFits PROVE IInv'
<1>1. /\ producer = "push" /\ ~closed /\ Len(queue) < QueueLimit
      /\ queue' = Append(queue, packet) /\ accepted' = accepted \cup {packet} /\ Return
      /\ UNCHANGED <<policy, executor, closed, error, sender, sending, next, dropped, delivered,
                     flushed>>
  BY DEF EnqueueFits, HasRoom
<1>2. /\ permit' \in BOOLEAN
      /\ future' \in [Side -> {"none", "created", "called", "waiting", "woken"}]
  BY WakeTypes DEF EnqueueFits
<1>3. packet \in Packet /\ packet \notin accepted /\ Before(Queued, {packet})
  BY <1>1, HeldIsNewest DEF Before
<1>4. queue \in Seq(Packet) /\ Len(queue) \in Nat /\ Increasing(queue) /\ dropped \subseteq accepted
  BY SetOf DEF IInv, Control, TypeOK, Ordered
<1>5. /\ queue' \in Seq(Packet) /\ Len(queue') = Len(queue) + 1 /\ Increasing(queue')
      /\ Queued' = Queued \cup {packet}
  BY <1>1, <1>3, <1>4, Appended DEF Queued
<1>6. Len(queue') <= QueueLimit
  BY <1>1, <1>4, <1>5, Numbers
<1>7. dropped' \cap (Written \cup InHand \cup Queued') = {}
  BY <1>1, <1>3, <1>4, <1>5 DEF IInv, Reported
<1> QED BY <1>1, <1>2, <1>4, <1>5, <1>6, <1>7, AcceptInv

LEMMA EnqueueDropsNewestInv == ASSUME IInv, EnqueueDropsNewest PROVE IInv'
<1>1. /\ producer = "push" /\ ~closed /\ Return
      /\ accepted' = accepted \cup {packet} /\ dropped' = dropped \cup {packet}
      /\ UNCHANGED <<policy, executor, queue, closed, error, sender, sending, next, delivered,
                     flushed>>
      /\ UNCHANGED notify
  BY DEF EnqueueDropsNewest, Full, shared
<1>2. /\ permit' \in BOOLEAN
      /\ future' \in [Side -> {"none", "created", "called", "waiting", "woken"}]
  BY <1>1, WakeTypes
<1>3. /\ queue' \in Seq(Packet) /\ Len(queue') <= QueueLimit /\ Increasing(queue')
      /\ Queued' = Queued /\ dropped \subseteq accepted
  BY <1>1 DEF IInv, Control, TypeOK, Ordered, Queued
<1>4. packet \notin accepted /\ Written \cup InHand \cup Queued \subseteq accepted
  BY <1>1, HeldIsNewest DEF IInv, Control, TypeOK, Members, Written
<1>5. dropped' \cap (Written \cup InHand \cup Queued') = {}
  BY <1>1, <1>3, <1>4 DEF IInv, Reported
<1> QED BY <1>1, <1>2, <1>3, <1>5, AcceptInv

LEMMA EnqueueDropsOldestInv == ASSUME IInv, EnqueueDropsOldest PROVE IInv'
<1>1. /\ producer = "push" /\ ~closed /\ ~HasRoom /\ Return
      /\ queue' = Append(Evicted(Victim), packet)
      /\ accepted' = accepted \cup {packet} /\ dropped' = dropped \cup {queue[Victim]}
      /\ UNCHANGED <<policy, executor, closed, error, sender, sending, next, delivered, flushed>>
  BY DEF EnqueueDropsOldest, Full
<1>2. /\ permit' \in BOOLEAN
      /\ future' \in [Side -> {"none", "created", "called", "waiting", "woken"}]
  BY WakeTypes DEF EnqueueDropsOldest
<1>3. /\ queue \in Seq(Packet) /\ Len(queue) \in Nat /\ Len(queue) <= QueueLimit
      /\ Increasing(queue) /\ dropped \subseteq accepted
  BY SetOf DEF IInv, Control, TypeOK, Ordered
<1>4. queue # <<>>
  BY <1>1, <1>3, Numbers DEF HasRoom
<1>5. PICK v \in 1 .. Len(queue) : v = Victim
  BY <1>3, <1>4, VictimIsPlace
<1>6. PICK rest \in Seq(Packet) : /\ rest = Evicted(v) /\ Len(rest) = Len(queue) - 1
                                  /\ ToSet(rest) = Queued \ {queue[v]} /\ Increasing(rest)
  BY <1>3, Removed DEF Evicted, Queued
<1>7. packet \in Packet /\ packet \notin accepted /\ Before(Written \cup InHand \cup Queued, {packet})
  BY <1>1, HeldIsNewest
<1>8. Before(ToSet(rest), {packet})
  BY <1>6, <1>7 DEF Before
<1>9. /\ queue' = Append(rest, packet) /\ queue' \in Seq(Packet) /\ Increasing(queue')
      /\ Len(queue') = Len(rest) + 1 /\ Queued' = ToSet(rest) \cup {packet}
  BY <1>1, <1>5, <1>6, <1>7, <1>8, Appended DEF Queued
<1>10. Len(queue') <= QueueLimit
  BY <1>3, <1>6, <1>9
<1>11. queue[v] \in Queued
  BY <1>3, SetOf DEF Queued
<1>12. queue[v] \notin Written \cup InHand
  <2>1. \A p \in Written \cup InHand : p < queue[v]
    BY <1>11 DEF IInv, Ordered, Before
  <2>2. Queued \subseteq Packet
    BY <1>3, SetOf DEF Queued
  <2>3. queue[v] \in Nat
    BY <1>11, <2>2, Numbers
  <2> QED BY <2>1, <2>3
<1>13. queue[v] \in accepted /\ queue[v] # packet
  BY <1>7, <1>11 DEF IInv, Members
<1>14. dropped' = dropped \cup {queue[v]}
  BY <1>1, <1>5
<1>15. Written \cup InHand \cup Queued \subseteq accepted
  BY DEF IInv, Control, TypeOK, Members, Written
<1>16. dropped' \cap (Written \cup InHand \cup Queued') = {}
  BY <1>3, <1>6, <1>7, <1>9, <1>12, <1>13, <1>14, <1>15 DEF IInv, Reported
<1>17. /\ Queued' \subseteq Queued \cup {packet} /\ Queued \cup {packet} \subseteq dropped' \cup Queued'
       /\ dropped' \subseteq accepted' /\ dropped \subseteq dropped'
  BY <1>1, <1>3, <1>6, <1>9, <1>13, <1>14
<1> QED BY <1>1, <1>2, <1>9, <1>10, <1>16, <1>17, AcceptInv
-----------------------------------------------------------------------------
LEMMA DequeuePacketInv == ASSUME IInv, DequeuePacket PROVE IInv'
<1>1. /\ sender = "take" /\ queue # <<>> /\ sending' = Head(queue) /\ queue' = Tail(queue)
      /\ sender' = "process"
      /\ UNCHANGED <<policy, executor, closed, error, producer, packet, next, accepted, dropped,
                     delivered, flushed>>
  BY DEF DequeuePacket, Taking, history
<1>2. /\ permit' \in BOOLEAN
      /\ future' \in [Side -> {"none", "created", "called", "waiting", "woken"}]
  BY NotifyType DEF DequeuePacket, IInv, Control, Side
<1>3. queue \in Seq(Packet) /\ Len(queue) \in Nat /\ Len(queue) <= QueueLimit /\ Increasing(queue)
  BY SetOf DEF IInv, Control, TypeOK, Ordered
<1>4. /\ sending' \in Packet /\ sending' # None /\ queue' \in Seq(Packet)
      /\ Len(queue') = Len(queue) - 1
      /\ Queued = {sending'} \cup Queued' /\ Increasing(queue') /\ Before({sending'}, Queued')
  BY <1>1, <1>3, Beheaded, Numbers DEF Queued
<1>5. Len(queue') <= QueueLimit
  BY <1>3, <1>4, Numbers
<1>6. InHand = {} /\ InHand' = {sending'} /\ Written' = Written
  BY <1>1, <1>4 DEF IInv, Control, SenderPlace, InHand, Written
<1>7. TypeOK'
  BY <1>1, <1>2, <1>4, <1>5 DEF IInv, Control, TypeOK
<1>8. Held' /\ SenderPlace' /\ EndDrained' /\ JoinsClosed' /\ Flushing'
  BY <1>1, <1>4 DEF IInv, Control, Held, SenderPlace, EndDrained, JoinsClosed, Flushing
<1>9. Members'
  BY <1>1, <1>4, <1>6 DEF IInv, Members, Limit
<1>10. Ordered'
  BY <1>1, <1>4, <1>6 DEF IInv, Ordered, Before
<1>11. Reported' /\ Whole'
  BY <1>1, <1>4, <1>6 DEF IInv, Reported, Whole, Alive
<1> QED BY <1>7, <1>8, <1>9, <1>10, <1>11 DEF IInv, Control

LEMMA ProcessOkInv == ASSUME IInv, ProcessOk PROVE IInv'
<1>1. /\ sender = "process" /\ delivered' = Append(delivered, sending) /\ sending' = None
      /\ sender' = "take"
      /\ UNCHANGED <<policy, executor, queue, closed, error, permit, future, producer, packet, next,
                     accepted, dropped, flushed>>
  BY DEF ProcessOk, shared, notify
<1>2. /\ sending \in Packet /\ InHand = {sending} /\ delivered \in Seq(Packet)
      /\ Increasing(delivered) /\ Before(Written, {sending})
  BY <1>1 DEF IInv, Control, SenderPlace, TypeOK, InHand, Ordered
<1>3. /\ delivered' \in Seq(Packet) /\ Increasing(delivered') /\ Written' = Written \cup {sending}
  BY <1>1, <1>2, Appended DEF Written
<1>4. InHand' = {} /\ Queued' = Queued
  BY <1>1 DEF InHand, Queued
<1>5. TypeOK'
  <2>1. Written' \subseteq accepted
    BY <1>2, <1>3 DEF IInv, Control, TypeOK, Members, Written
  <2> QED BY <1>1, <1>3, <2>1 DEF IInv, Control, TypeOK, Written
<1>6. Held' /\ SenderPlace' /\ EndDrained' /\ JoinsClosed' /\ Flushing'
  BY <1>1 DEF IInv, Control, Held, SenderPlace, EndDrained, JoinsClosed, Flushing
<1>7. Members'
  BY <1>1, <1>4 DEF IInv, Members, Limit
<1>8. Ordered'
  BY <1>1, <1>2, <1>3, <1>4 DEF IInv, Ordered, Before
<1>9. Reported' /\ Whole'
  BY <1>1, <1>2, <1>3, <1>4 DEF IInv, Reported, Whole, Alive
<1> QED BY <1>5, <1>6, <1>7, <1>8, <1>9 DEF IInv, Control

(* What the sender works on is lost, by a failure or with the sink.        *)
LEMMA LosesInv ==
  ASSUME IInv, ProcessFails \/ (DropSink /\ sender # "panicked")
  PROVE  IInv'
<1>1. /\ sending' = None /\ packet' = packet
      /\ \/ sender = "process" /\ sender' = "failed" /\ producer' = producer
            /\ UNCHANGED <<permit, future>>
         \/ /\ producer = "idle" /\ producer' = "gone" /\ sender' = "gone" /\ permit' = permit
            /\ sender # "panicked"
            /\ future' = [future EXCEPT !["sender"] = "none"]
      /\ UNCHANGED <<policy, executor, queue, closed, error, next, accepted, dropped, delivered,
                     flushed>>
  BY DEF ProcessFails, DropSink, shared, notify, history
<1>2. Written' = Written /\ Queued' = Queued /\ InHand' = {}
  BY <1>1 DEF Written, Queued, InHand
<1>3. TypeOK'
  BY <1>1 DEF IInv, Control, TypeOK
<1>4. Held' /\ SenderPlace' /\ EndDrained' /\ JoinsClosed'
  BY <1>1 DEF IInv, Control, Held, Consuming, SenderPlace, EndDrained, JoinsClosed
<1>5. Flushing'
  BY <1>1, <1>2 DEF IInv, Control, Flushing, Left
<1>6. Members'
  BY <1>1, <1>2 DEF IInv, Members, Limit
<1>7. Ordered' /\ Reported'
  BY <1>1, <1>2 DEF IInv, Ordered, Before, Reported
<1>8. Whole'
  BY <1>1 DEF Whole, Alive
<1> QED BY <1>3, <1>4, <1>5, <1>6, <1>7, <1>8 DEF IInv, Control
(* A panic leaves everything where it is, and so does dropping the sink    *)
(* after it.                                                               *)
LEMMA PanicInv ==
  ASSUME IInv, SenderPanics \/ (DropSink /\ sender = "panicked")
  PROVE  IInv'
<1>1. /\ UNCHANGED <<policy, executor, queue, closed, error, permit, packet, next, delivered, sending,
                     accepted, dropped, flushed>>
      /\ sender \in {"process", "panicked"} /\ sender' = "panicked"
      /\ \/ producer' = producer /\ future' = future /\ sender = "process"
         \/ /\ producer = "idle" /\ producer' = "gone" /\ sender = "panicked"
            /\ future' = [future EXCEPT !["sender"] = "none"]
  BY DEF SenderPanics, DropSink, shared, notify, history
<1>2. TypeOK'
  BY <1>1 DEF IInv, Control, TypeOK
<1>3. Held' /\ SenderPlace' /\ EndDrained' /\ JoinsClosed'
  BY <1>1 DEF IInv, Control, Held, Consuming, SenderPlace, EndDrained, JoinsClosed
<1>4. Flushing'
  <2>1. Written' = Written /\ InHand' = InHand /\ Queued' = Queued
    BY <1>1 DEF Written, InHand, Queued
  <2> QED BY <1>1, <2>1 DEF IInv, Control, Flushing, Left
<1>5. (Alive' => Alive) /\ Limit <= Limit'
  <2>1. Limit' = Limit
    BY <1>1 DEF Limit
  <2> QED BY <1>1, <2>1, LimitType DEF IInv, Alive
<1> QED BY <1>1, <1>2, <1>3, <1>4, <1>5, QuietInv DEF Control
-----------------------------------------------------------------------------
LEMMA NextInv == IInv /\ [Next]_vars => IInv'
<1> SUFFICES ASSUME IInv, [Next]_vars PROVE IInv'
  OBVIOUS
<1>1. CASE Producing
  BY <1>1, ProducerQuiet, EnqueueFitsInv, EnqueueDropsNewestInv, EnqueueDropsOldestInv DEF Producing
<1>2. CASE Sending
  BY <1>2, SenderQuiet, DequeuePacketInv, ProcessOkInv, LosesInv DEF Sending
<1>3. CASE Calling
  BY <1>3, ProducerQuiet, LosesInv, PanicInv DEF Calling
<1>4. CASE UNCHANGED vars
  <2>1. UNCHANGED <<policy, executor, queue, closed, error, permit, future, producer, packet,
                    sender, sending, next, accepted, dropped, delivered, flushed>>
    BY <1>4 DEF vars, shared, notify, history
  <2>2. TypeOK' /\ Held' /\ SenderPlace' /\ EndDrained' /\ JoinsClosed'
    BY <2>1 DEF IInv, Control, TypeOK, Held, SenderPlace, EndDrained, JoinsClosed
  <2>3. Flushing' /\ Limit' = Limit
    BY <2>1 DEF IInv, Control, Flushing, Limit, Written, Left, InHand, Queued
  <2>4. (Alive' => Alive) /\ Limit <= Limit'
    BY <2>1, <2>3, LimitType DEF IInv, Alive
  <2> QED BY <2>1, <2>2, <2>3, <2>4, QuietInv DEF Control
<1>5. CASE SenderPanics
  BY <1>5, PanicInv
<1> QED BY <1>1, <1>2, <1>3, <1>4, <1>5 DEF Next

LEMMA Inductive == Spec => []IInv
BY InitInv, NextInv, PTL DEF Spec

(* Every variable keeps its type: above all the queue its limit, under     *)
(* every policy.                                                           *)
THEOREM TypeCorrect == Spec => []TypeOK
<1>1. IInv => TypeOK
  BY DEF IInv, Control
<1> QED BY <1>1, Inductive, PTL

LEMMA Joined ==
  ASSUME NEW q \in Seq(Packet), NEW r \in Seq(Packet), Increasing(q), Increasing(r),
         Before(ToSet(q), ToSet(r))
  PROVE  /\ q \o r \in Seq(Packet) /\ Increasing(q \o r) /\ ToSet(q \o r) = ToSet(q) \cup ToSet(r)
<1> DEFINE t == q \o r
           n == Len(q)
<1>1. /\ t \in Seq(Packet) /\ Len(t) = n + Len(r) /\ n \in Nat /\ Len(r) \in Nat
      /\ \A i \in 1 .. n + Len(r) : t[i] = IF i <= n THEN q[i] ELSE r[i - n]
  BY ConcatProperties, LenProperties
<1>2. /\ ToSet(q) = {q[i] : i \in 1 .. n} /\ ToSet(r) = {r[i] : i \in 1 .. Len(r)}
      /\ ToSet(t) = {t[i] : i \in 1 .. Len(t)}
  BY <1>1, SetOf
<1> HIDE DEF t, n
<1>3. \A i \in 1 .. n : i \in 1 .. Len(t) /\ t[i] = q[i]
  BY <1>1
<1>4. \A i \in 1 .. Len(r) : n + i \in 1 .. Len(t) /\ t[n + i] = r[i]
  <2> SUFFICES ASSUME NEW i \in 1 .. Len(r) PROVE n + i \in 1 .. Len(t) /\ t[n + i] = r[i]
    OBVIOUS
  <2>1. n + i \in 1 .. n + Len(r) /\ ~(n + i <= n) /\ (n + i) - n = i
    BY <1>1
  <2> QED BY <1>1, <2>1
<1>5. \A i \in 1 .. Len(t) : i \in 1 .. n \/ \E k \in 1 .. Len(r) : i = n + k
  <2> SUFFICES ASSUME NEW i \in 1 .. Len(t), i \notin 1 .. n PROVE i - n \in 1 .. Len(r) /\ i = n + (i - n)
    OBVIOUS
  <2> QED BY <1>1
<1>6. ToSet(t) = ToSet(q) \cup ToSet(r)
  <2>1. ToSet(t) \subseteq ToSet(q) \cup ToSet(r)
    BY <1>2, <1>3, <1>4, <1>5, SMTT(30)
  <2>2. ToSet(q) \subseteq ToSet(t)
    BY <1>2, <1>3
  <2>3. ToSet(r) \subseteq ToSet(t)
    BY <1>2, <1>4
  <2> QED BY <2>1, <2>2, <2>3
<1>7. ASSUME NEW i \in 1 .. Len(t), NEW j \in 1 .. Len(t), i < j PROVE t[i] < t[j]
  <2>1. CASE i \in 1 .. n /\ j \in 1 .. n
    BY <1>3, <1>7, <2>1 DEF Increasing, n
  <2>2. ASSUME i \in 1 .. n, NEW k \in 1 .. Len(r), j = n + k PROVE t[i] < t[j]
    BY <1>2, <1>3, <1>4, <2>2 DEF Before
  <2>3. ASSUME NEW h \in 1 .. Len(r), NEW k \in 1 .. Len(r), i = n + h, j = n + k PROVE t[i] < t[j]
    <3>1. h < k
      BY <1>1, <1>7, <2>3
    <3> QED BY <1>4, <2>3, <3>1 DEF Increasing
  <2>4. ASSUME NEW h \in 1 .. Len(r), i = n + h, j \in 1 .. n PROVE FALSE
    BY <1>1, <1>7, <2>4
  <2> QED BY <1>5, <2>1, <2>2, <2>3, <2>4
<1> QED BY <1>1, <1>6, <1>7 DEF Increasing, t

(* Written, in hand and queued, the packets are in the order they came in, *)
(* whatever drop_oldest_prefer_delta takes out of the middle.              *)
THEOREM OrderIsKept == Spec => []InOrder
<1>1. IInv => InOrder
  <2> SUFFICES ASSUME IInv PROVE InOrder
    OBVIOUS
  <2> DEFINE m == IF sending = None THEN <<>> ELSE <<sending>>
             l == delivered \o m \o queue
  <2>1. /\ delivered \in Seq(Packet) /\ queue \in Seq(Packet) /\ sending \in Packet \cup {None}
        /\ Increasing(delivered) /\ Increasing(queue) /\ Before(ToSet(delivered), InHand)
        /\ Before(ToSet(delivered), ToSet(queue)) /\ Before(InHand, ToSet(queue))
    BY DEF IInv, Control, TypeOK, Ordered, Written, Queued
  <2>2. m \in Seq(Packet) /\ Increasing(m) /\ ToSet(m) = InHand
    <3>1. CASE sending = None
      BY <3>1 DEF Increasing, ToSet, InHand
    <3>2. CASE sending # None
      BY <2>1, <3>2 DEF Increasing, ToSet, InHand
    <3> QED BY <3>1, <3>2
  <2> HIDE DEF m
  <2>3. /\ delivered \o m \in Seq(Packet) /\ Increasing(delivered \o m)
        /\ ToSet(delivered \o m) = ToSet(delivered) \cup InHand
    BY <2>1, <2>2, Joined
  <2>4. Before(ToSet(delivered \o m), ToSet(queue))
    BY <2>1, <2>3 DEF Before
  <2>5. l \in Seq(Packet) /\ Increasing(l)
    BY <2>1, <2>3, <2>4, Joined
  <2>6. DOMAIN l = 1 .. Len(l)
    BY <2>5, LenProperties
  <2>7. \A i, j \in DOMAIN l : i < j => l[i] < l[j]
    BY <2>5, <2>6 DEF Increasing
  <2> QED BY <2>7 DEF InOrder, m
<1> QED BY <1>1, Inductive, PTL

(* What an Ok of close_and_flush means: every accepted packet was written, *)
(* was reported as dropped, or is what a panic of the sender, whose        *)
(* JoinError is discarded, has left behind; without a panic nothing is.    *)
THEOREM FlushIsComplete == Spec => []FlushedAll
<1>1. IInv => FlushedAll
  <2> SUFFICES ASSUME IInv, flushed = "ok"
               PROVE  accepted \ dropped = Written \cup
                        (IF sender = "panicked" THEN {sending} \cup Queued ELSE {})
    BY DEF FlushedAll, Written, Queued
  <2>1. /\ accepted \subseteq dropped \cup Written \cup Left
        /\ Written \cup InHand \cup Queued \subseteq accepted
        /\ dropped \cap (Written \cup InHand \cup Queued) = {}
    BY DEF IInv, Control, TypeOK, Flushing, Members, Reported, Written
  <2>2. sender = "panicked" => InHand = {sending}
    BY DEF IInv, Control, SenderPlace, InHand
  <2> QED BY <2>1, <2>2 DEF Left
<1> QED BY <1>1, Inductive, PTL
-----------------------------------------------------------------------------
(* The sink seen as a LossyQueue.                                          *)
Ended == sender \in {"failed", "failing", "gone", "panicked"}
Waiting == Queued \cup InHand

LEMMA SinkRecord == /\ queueOf = [r \in {"sender"} |-> Lossy!Queue(Limit - 1, Waiting, delivered, Ended)]
                    /\ queueOf["sender"] = Lossy!Queue(Limit - 1, Waiting, delivered, Ended)
                    /\ queueOf' = [r \in {"sender"} |-> Lossy!Queue(Limit' - 1, Waiting', delivered', Ended')]
                    /\ queueOf'["sender"] = Lossy!Queue(Limit' - 1, Waiting', delivered', Ended')
<1>1. queueOf = [r \in {"sender"} |-> Lossy!Queue(Limit - 1, Waiting, delivered, Ended)]
  BY DEF queueOf, Lossy!Queue, Limit, Waiting, Ended, Queued, InHand
<1>2. queueOf' = [r \in {"sender"} |-> Lossy!Queue(Limit' - 1, Waiting', delivered', Ended')]
  BY DEF queueOf, Lossy!Queue, Limit, Waiting, Ended, Queued, InHand
<1> QED BY <1>1, <1>2

LEMMA SinkStep ==
  ASSUME Lossy!Queue(Limit' - 1, Waiting', delivered', Ended')
           \in Lossy!Steps(Lossy!Queue(Limit - 1, Waiting, delivered, Ended))
  PROVE  Lossy!Next
<1>1. queueOf' = [r \in {"sender"} |-> queueOf'[r]]
  BY SinkRecord
<1>2. queueOf'["sender"] \in Lossy!Steps(queueOf["sender"])
  BY SinkRecord
<1> QED BY <1>1, <1>2 DEF Lossy!Next

(* The steps of a LossyQueue, written out.                                 *)
LEMMA QueueSteps ==
  ASSUME NEW n, NEW w, NEW p, NEW e
  PROVE  /\ Lossy!Queue(n, w, p, e) \in Lossy!Steps(Lossy!Queue(n, w, p, e))
         /\ Lossy!Queue(n + 1, w, p, e) \in Lossy!Steps(Lossy!Queue(n, w, p, e))
         /\ Lossy!Queue(n + 1, w \cup {n + 1}, p, e) \in Lossy!Steps(Lossy!Queue(n, w, p, e))
         /\ \A x \in w :
              Lossy!Queue(n + 1, (w \ {x}) \cup {n + 1}, p, e)
                \in Lossy!Steps(Lossy!Queue(n, w, p, e))
         /\ \A x \in w : e = FALSE /\ (\A y \in w : x <= y) =>
              Lossy!Queue(n, w \ {x}, Append(p, x), e) \in Lossy!Steps(Lossy!Queue(n, w, p, e))
         /\ \A v \in SUBSET w : e = FALSE =>
              Lossy!Queue(n, v, p, TRUE) \in Lossy!Steps(Lossy!Queue(n, w, p, e))
<1> DEFINE q == Lossy!Queue(n, w, p, e)
<1>1. q.newest = n /\ q.waiting = w /\ q.passed = p /\ q.ended = e
  BY DEF Lossy!Queue
<1> HIDE DEF q
<1>2. \A v \in Lossy!Room(q, n + 1) : Lossy!Queue(n + 1, v, p, e) \in Lossy!Offers(q)
  BY <1>1 DEF Lossy!Offers
<1>3. /\ w \in Lossy!Room(q, n + 1) /\ w \cup {n + 1} \in Lossy!Room(q, n + 1)
      /\ \A x \in w : (w \ {x}) \cup {n + 1} \in Lossy!Room(q, n + 1)
  BY <1>1 DEF Lossy!Room
<1>4. ASSUME NEW x \in w, e = FALSE, \A y \in w : x <= y
      PROVE  Lossy!Queue(n, w \ {x}, Append(p, x), e) \in Lossy!Passes(q)
  <2>1. x \in Lossy!Oldest(q)
    BY <1>1, <1>4 DEF Lossy!Oldest
  <2> QED BY <1>1, <1>4, <2>1 DEF Lossy!Passes
<1>5. ASSUME NEW v \in SUBSET w, e = FALSE PROVE Lossy!Queue(n, v, p, TRUE) \in Lossy!Ends(q)
  BY <1>1, <1>5 DEF Lossy!Ends
<1>6. /\ q \in Lossy!Steps(q)
      /\ Lossy!Offers(q) \cup Lossy!Passes(q) \cup Lossy!Ends(q) \subseteq Lossy!Steps(q)
  BY DEF Lossy!Steps
<1>7. q = Lossy!Queue(n, w, p, e)
  BY DEF q
<1> QED BY <1>2, <1>3, <1>4, <1>5, <1>6, <1>7

(* A step that moves no packet, or refuses the one at hand.                *)
LEMMA StayStep ==
  ASSUME UNCHANGED <<queue, sending, delivered>>, Ended' = Ended, Limit \in Nat,
         Limit' \in {Limit, Limit + 1}
  PROVE  Lossy!Next
<1>1. Waiting' = Waiting
  BY DEF Waiting, Queued, InHand
<1>2. Limit' - 1 \in {Limit - 1, (Limit - 1) + 1}
  <2>1. PICK k \in Nat : k = Limit
    OBVIOUS
  <2>2. k - 1 = k - 1 /\ (k + 1) - 1 = (k - 1) + 1
    OBVIOUS
  <2> QED BY <2>1, <2>2
<1> QED BY <1>1, <1>2, QueueSteps, SinkStep

(* The sender ends, and with it what waits.                                *)
LEMMA EndStep ==
  ASSUME UNCHANGED <<queue, delivered, packet, next>>, ~Ended, Ended', InHand' \subseteq InHand
  PROVE  Lossy!Next
<1>1. Limit' = Limit /\ Waiting' \in SUBSET Waiting
  BY DEF Limit, Waiting, Queued
<1>2. Ended = FALSE /\ Ended' = TRUE
  BY DEF Ended
<1> QED BY <1>1, <1>2, QueueSteps, SinkStep

LEMMA ProducerSteps ==
  ASSUME IInv, \/ Consume \/ SharedError \/ EnqueueClosed \/ EnqueueBlocks \/ ProducerWaits
               \/ EndOfStream \/ Close \/ CloseNotifies \/ Flushed \/ EnqueueDropsNewest
  PROVE  Lossy!Next
<1>1. UNCHANGED <<queue, sending, delivered, sender>>
  <2>1. CASE Consume \/ SharedError \/ EnqueueClosed \/ EnqueueBlocks \/ EnqueueDropsNewest
    BY <2>1 DEF Consume, SharedError, EnqueueClosed, EnqueueBlocks, EnqueueDropsNewest, shared, history
  <2>2. CASE ProducerWaits \/ EndOfStream \/ Close \/ CloseNotifies \/ Flushed
    BY <2>2 DEF ProducerWaits, EndOfStream, Close, CloseNotifies, Flushed, shared, history
  <2> QED BY <2>1, <2>2
<1>2. Ended' = Ended /\ Limit \in Nat
  BY <1>1, LimitType DEF Ended, IInv
<1>3. Held /\ next \in Nat /\ next # None
  BY Numbers DEF IInv, Control, TypeOK, None
<1>4. CASE Consume
  <2>1. packet = None /\ packet' = next
    BY <1>3, <1>4 DEF Consume, Held, Consuming
  <2>2. Limit' = Limit
    BY <1>3, <2>1 DEF Limit
  <2> QED BY <1>1, <1>2, <2>2, StayStep
<1>5. CASE UNCHANGED <<packet, next>>
  BY <1>1, <1>2, <1>5, StayStep DEF Limit
<1>6. CASE SharedError \/ EnqueueClosed \/ EnqueueDropsNewest
  <2>1. packet = next - 1 /\ packet # None /\ next' = next /\ packet' \in {packet, None}
    BY <1>3, <1>6 DEF SharedError, EnqueueClosed, EnqueueDropsNewest, Held, Consuming, Return, Full
  <2>2. Limit' \in {Limit, Limit + 1}
    BY <1>3, <2>1 DEF Limit
  <2> QED BY <1>1, <1>2, <2>2, StayStep
<1>7. CASE EnqueueBlocks \/ ProducerWaits \/ EndOfStream \/ Close \/ CloseNotifies \/ Flushed
  BY <1>5, <1>7 DEF EnqueueBlocks, ProducerWaits, EndOfStream, Close, CloseNotifies, Flushed, history
<1> QED BY <1>4, <1>6, <1>7

LEMMA EnqueueFitsStep == ASSUME IInv, EnqueueFits PROVE Lossy!Next
<1>1. /\ producer = "push" /\ queue' = Append(queue, packet) /\ Return
      /\ UNCHANGED <<sender, sending, next, delivered>>
  BY DEF EnqueueFits
<1>2. packet \in Packet /\ next = packet + 1 /\ packet \in Nat /\ packet # None
      /\ Before(Queued, {packet})
  BY <1>1, HeldIsNewest, Numbers DEF Before
<1>3. queue \in Seq(Packet) /\ Increasing(queue)
  BY DEF IInv, Control, TypeOK, Ordered
<1>4. Waiting' = Waiting \cup {packet} /\ Ended' = Ended
  <2>1. Queued' = Queued \cup {packet}
    BY <1>1, <1>2, <1>3, Appended DEF Queued
  <2> QED BY <1>1, <2>1 DEF Waiting, InHand, Ended
<1>5. Limit' - 1 = (Limit - 1) + 1 /\ packet = (Limit - 1) + 1
  <2>1. Limit = packet /\ Limit' = next
    BY <1>1, <1>2 DEF Limit, Return
  <2> QED BY <1>2, <2>1
<1> QED BY <1>1, <1>4, <1>5, QueueSteps, SinkStep

LEMMA EnqueueDropsOldestStep == ASSUME IInv, EnqueueDropsOldest PROVE Lossy!Next
<1>1. /\ producer = "push" /\ ~HasRoom /\ Return /\ queue' = Append(Evicted(Victim), packet)
      /\ UNCHANGED <<sender, sending, next, delivered>>
  BY DEF EnqueueDropsOldest, Full
<1>2. packet \in Packet /\ next = packet + 1 /\ packet \in Nat /\ packet # None
      /\ Before(Queued, {packet})
  BY <1>1, HeldIsNewest, Numbers DEF Before
<1>3. queue \in Seq(Packet) /\ Len(queue) \in Nat /\ Increasing(queue)
  BY SetOf DEF IInv, Control, TypeOK, Ordered
<1>4. queue # <<>>
  BY <1>1, <1>3, Numbers DEF HasRoom
<1>5. PICK v \in 1 .. Len(queue) : v = Victim
  BY <1>3, <1>4, VictimIsPlace
<1>6. PICK rest \in Seq(Packet) : /\ rest = Evicted(v) /\ Increasing(rest)
                                  /\ ToSet(rest) = Queued \ {queue[v]}
  BY <1>3, Removed DEF Evicted, Queued
<1>7. Queued' = (Queued \ {queue[v]}) \cup {packet}
  <2>1. Before(ToSet(rest), {packet})
    BY <1>2, <1>6 DEF Before
  <2> QED BY <1>1, <1>2, <1>5, <1>6, <2>1, Appended DEF Queued
<1>8. queue[v] \in Queued /\ queue[v] \notin InHand
  <2>1. Queued \subseteq Packet /\ queue[v] \in Queued
    BY <1>3, SetOf DEF Queued
  <2>2. queue[v] \in Queued /\ queue[v] \in Nat
    BY <2>1, Numbers
  <2>3. \A p \in InHand : p < queue[v]
    BY <2>2 DEF IInv, Ordered, Before
  <2> QED BY <2>2, <2>3
<1>9. Ended' = Ended /\ queue[v] \in Waiting /\ Waiting' = (Waiting \ {queue[v]}) \cup {packet}
  BY <1>1, <1>7, <1>8 DEF Waiting, InHand, Ended
<1>10. Limit' - 1 = (Limit - 1) + 1 /\ packet = (Limit - 1) + 1
  <2>1. Limit = packet /\ Limit' = next
    BY <1>1, <1>2 DEF Limit, Return
  <2> QED BY <1>2, <2>1
<1> QED BY <1>1, <1>9, <1>10, QueueSteps, SinkStep

LEMMA SenderSteps ==
  ASSUME IInv, \/ DequeuePacket \/ DequeueClosed \/ DequeueEmpty \/ SenderWaits \/ ProcessOk
               \/ ProcessFails \/ SetSenderError \/ ErrorNotifies \/ DropSink
               \/ SenderPanics
  PROVE  Lossy!Next
<1>1. Limit \in Nat
  BY LimitType DEF IInv
<1>2. CASE DequeueEmpty \/ SenderWaits \/ SetSenderError \/ ErrorNotifies
  <2>1. UNCHANGED <<queue, sending, delivered, packet, next>>
    BY <1>2 DEF DequeueEmpty, SenderWaits, SetSenderError, ErrorNotifies, shared, history
  <2>2. Ended' = Ended
    BY <1>2 DEF DequeueEmpty, SenderWaits, SetSenderError, ErrorNotifies, Taking, Ended
  <2>3. Limit' = Limit
    BY <2>1 DEF Limit
  <2> QED BY <1>1, <2>1, <2>2, <2>3, StayStep
<1>3. CASE DequeueClosed \/ ProcessFails \/ SenderPanics
  <2>1. UNCHANGED <<queue, delivered, packet, next>> /\ ~Ended /\ Ended' /\ sending' \in {sending, None}
    BY <1>3 DEF DequeueClosed, ProcessFails, SenderPanics, Taking, Ended, shared, history
  <2> QED BY <2>1, EndStep DEF InHand
<1>4. CASE DropSink
  <2>1. /\ UNCHANGED <<queue, delivered, packet, next>> /\ Ended'
        /\ sending' = IF sender = "panicked" THEN sending ELSE None
    BY <1>4 DEF DropSink, Ended, shared, history
  <2>2. CASE Ended
    <3>1. sending' = sending
      BY <2>1, <2>2 DEF IInv, Control, SenderPlace, Ended
    <3>2. Limit' = Limit /\ (Ended' <=> Ended)
      BY <2>1, <2>2 DEF Limit
    <3>3. Ended' = Ended
      BY <3>2 DEF Ended
    <3> QED BY <1>1, <2>1, <3>1, <3>2, <3>3, StayStep
  <2>3. CASE ~Ended
    BY <2>1, <2>3, EndStep DEF InHand
  <2> QED BY <2>2, <2>3
<1>5. CASE DequeuePacket
  <2>1. /\ sender = "take" /\ queue # <<>> /\ sending' = Head(queue) /\ queue' = Tail(queue)
        /\ sender' = "process" /\ UNCHANGED <<packet, next, delivered>>
    BY <1>5 DEF DequeuePacket, Taking, history
  <2>2. queue \in Seq(Packet) /\ Increasing(queue)
    BY DEF IInv, Control, TypeOK, Ordered
  <2>3. Queued = {sending'} \cup Queued' /\ sending' # None
    BY <2>1, <2>2, Beheaded, Numbers DEF Queued
  <2>4. InHand = {} /\ InHand' = {sending'}
    BY <2>1, <2>3 DEF IInv, Control, SenderPlace, InHand
  <2>5. Waiting' = Waiting /\ Limit' = Limit /\ Ended' = Ended
    BY <2>1, <2>3, <2>4 DEF Waiting, Limit, Ended
  <2> QED BY <2>1, <2>5, QueueSteps, SinkStep
<1>6. CASE ProcessOk
  <2>1. /\ sender = "process" /\ delivered' = Append(delivered, sending) /\ sending' = None
        /\ sender' = "take" /\ UNCHANGED <<queue, packet, next>>
    BY <1>6 DEF ProcessOk, shared
  <2>2. sending \in Packet /\ InHand = {sending} /\ Before({sending}, Queued)
    BY <2>1 DEF IInv, Control, SenderPlace, TypeOK, InHand, Ordered
  <2>3. sending \notin Queued /\ \A p \in Waiting : sending <= p
    <3>1. \A p \in Queued : sending < p
      BY <2>2 DEF Before
    <3>2. Queued \subseteq Nat /\ sending \in Nat
      BY <2>2, Numbers, SetOf DEF Queued, IInv, Control, TypeOK
    <3> QED BY <2>2, <3>1, <3>2 DEF Waiting
  <2>4. /\ sending \in Waiting /\ Waiting' = Waiting \ {sending} /\ Limit' = Limit
        /\ Ended = FALSE /\ Ended' = Ended
    BY <2>1, <2>2, <2>3 DEF Waiting, Queued, InHand, Limit, Ended
  <2> QED BY <2>1, <2>3, <2>4, QueueSteps, SinkStep
<1> QED BY <1>2, <1>3, <1>4, <1>5, <1>6

(* Whatever the policy, the executor and the order of the two tasks, the   *)
(* sink implements a LossyQueue.                                           *)
THEOREM SinkImplementsQueue == Spec => ImplementsQueue
<1>1. Init => Lossy!Init
  <2> SUFFICES ASSUME Init PROVE Lossy!Init
    OBVIOUS
  <2>1. packet = None /\ next = 1 /\ queue = <<>> /\ sending = None /\ delivered = <<>> /\ sender = "take"
    BY DEF Init
  <2>2. Limit - 1 = 0 /\ Waiting = {} /\ Ended = FALSE
    BY <2>1 DEF Limit, Waiting, Queued, InHand, Ended, ToSet
  <2> QED BY <2>1, <2>2, SinkRecord DEF Lossy!Init
<1>2. IInv /\ [Next]_vars => [Lossy!Next]_queueOf
  <2>1. CASE UNCHANGED vars
    BY <2>1 DEF vars, shared, notify, history, queueOf
  <2>2. ASSUME IInv, Next PROVE Lossy!Next
    BY <2>2, ProducerSteps, EnqueueFitsStep, EnqueueDropsOldestStep, SenderSteps
       DEF Next, Producing, Sending, Calling
  <2> QED BY <2>1, <2>2
<1> QED BY <1>1, <1>2, Inductive, PTL DEF Spec, ImplementsQueue, Lossy!Spec
=============================================================================
