------------------------- MODULE FanoutRouterProofs -------------------------
(***************************************************************************)
(* Proofs about the fan-out, for any number of sinks, policies, capacities *)
(* and payloads: types; each sink gets the payloads in order; a Block      *)
(* queue loses none while its actor lives; the router is one queue per     *)
(* sink.  The argument follows the line of each sink, what it has          *)
(* handled, works on and has buffered: a step leaves it as it is, appends  *)
(* the one payload that is due, or, when the actor dies, cuts it short.    *)
(***************************************************************************)
EXTENDS FanoutRouter, SequenceTheorems, TLAPS

Increasing(q) == \A i, j \in DOMAIN q : i < j => q[i] < q[j]

Works(s) == working[s] # None <=> actor[s] = "consuming"
Visited == visit # Idle => ~Dropped /\ result = "ok" /\ payload # None
Orderly(s) == Increasing(Line(s)) /\ \A i \in DOMAIN Line(s) : Line(s)[i] <= Due(s)
Lossless(s) == Policy[s] = "Block" /\ Open(s) /\ result = "ok" => ToSet(Line(s)) = 1 .. Due(s)

Base == TypeOK /\ Visited /\ \A s \in Sink : Works(s)
IInv == Base /\ \A s \in Sink : Orderly(s) /\ Lossless(s)
-----------------------------------------------------------------------------
LEMMA Numbers ==
  /\ Sink = 1 .. Len(Policy) /\ Len(Policy) \in Nat \ {0} /\ Payload \subseteq Nat
  /\ None \notin Payload /\ Idle \notin Sink /\ Payloads \in Nat
BY FanoutConstants DEF Sink, Payload, None, Idle

LEMMA AppendIncreasing ==
  ASSUME NEW q \in Seq(Payload), NEW e \in Payload, Increasing(q),
         \A i \in DOMAIN q : q[i] < e
  PROVE  /\ Increasing(Append(q, e))
         /\ \A i \in DOMAIN Append(q, e) : Append(q, e)[i] <= e
         /\ ToSet(Append(q, e)) = ToSet(q) \cup {e}
<1> DEFINE r == Append(q, e)
<1>1. /\ r \in Seq(Payload) /\ Len(r) = Len(q) + 1 /\ r[Len(q) + 1] = e
      /\ \A i \in 1 .. Len(q) : r[i] = q[i]
  BY AppendProperties
<1>2. /\ DOMAIN q = 1 .. Len(q) /\ DOMAIN r = 1 .. Len(q) + 1 /\ Len(q) \in Nat
      /\ \A i \in 1 .. Len(q) : q[i] \in Payload
  BY <1>1, LenProperties
<1> HIDE DEF r
<1>3. Increasing(r)
  <2> SUFFICES ASSUME NEW i \in DOMAIN r, NEW j \in DOMAIN r, i < j PROVE r[i] < r[j]
    BY DEF Increasing
  <2>1. i \in 1 .. Len(q)
    BY <1>2
  <2>2. CASE j \in 1 .. Len(q)
    BY <1>1, <1>2, <2>1, <2>2 DEF Increasing
  <2>3. CASE j = Len(q) + 1
    BY <1>1, <1>2, <2>1, <2>3
  <2> QED BY <1>2, <2>2, <2>3
<1>4. ASSUME NEW i \in DOMAIN r PROVE r[i] <= e
  <2>1. CASE i \in 1 .. Len(q)
    <3>1. q[i] < e /\ q[i] \in Nat /\ e \in Nat /\ r[i] = q[i]
      BY <1>1, <1>2, <2>1, Numbers
    <3> QED BY <3>1
  <2>2. CASE i = Len(q) + 1
    BY <1>1, <2>2, Numbers
  <2> QED BY <1>2, <2>1, <2>2
<1>5. ToSet(r) = ToSet(q) \cup {e}
  BY <1>1, <1>2 DEF ToSet
<1> QED BY <1>3, <1>4, <1>5 DEF r

LEMMA PrefixIncreasing ==
  ASSUME NEW q \in Seq(Payload), NEW r \in Seq(Payload), NEW n, Increasing(q \o r),
         \A i \in DOMAIN (q \o r) : (q \o r)[i] <= n
  PROVE  Increasing(q) /\ \A i \in DOMAIN q : q[i] <= n
<1>1. /\ Len(q \o r) = Len(q) + Len(r) /\ q \o r \in Seq(Payload)
      /\ \A i \in 1 .. Len(q) + Len(r) : i <= Len(q) => (q \o r)[i] = q[i]
  BY ConcatProperties
<1>2. /\ DOMAIN q = 1 .. Len(q) /\ DOMAIN (q \o r) = 1 .. Len(q) + Len(r)
      /\ Len(q) \in Nat /\ Len(r) \in Nat
  BY <1>1, LenProperties
<1>3. \A i \in DOMAIN q : i \in DOMAIN (q \o r) /\ (q \o r)[i] = q[i]
  BY <1>1, <1>2
<1> QED BY <1>3 DEF Increasing
-----------------------------------------------------------------------------
(* What the actions do to a line.                                          *)
Middle(w) == IF w = None THEN <<>> ELSE <<w>>

LEMMA LineType ==
  ASSUME TypeOK, NEW s \in Sink
  PROVE  /\ Line(s) = handled[s] \o Middle(working[s]) \o channel[s]
         /\ handled[s] \in Seq(Payload) /\ Middle(working[s]) \in Seq(Payload)
         /\ channel[s] \in Seq(Payload) /\ Line(s) \in Seq(Payload)
<1>1. handled[s] \in Seq(Payload) /\ channel[s] \in Seq(Payload)
      /\ working[s] \in Payload \cup {None}
  BY DEF TypeOK
<1>2. Middle(working[s]) \in Seq(Payload)
  BY <1>1 DEF Middle
<1>3. Line(s) = handled[s] \o Middle(working[s]) \o channel[s]
  BY DEF Line, Middle
<1> QED BY <1>1, <1>2, <1>3, ConcatProperties

LEMMA LineSplit ==
  ASSUME TypeOK, NEW s \in Sink PROVE \E rest \in Seq(Payload) : Line(s) = handled[s] \o rest
<1>1. ASSUME NEW h \in Seq(Payload), NEW m \in Seq(Payload), NEW c \in Seq(Payload)
      PROVE  \E rest \in Seq(Payload) : (h \o m) \o c = h \o rest
  <2>1. m \o c \in Seq(Payload)
    BY ConcatProperties
  <2>2. (h \o m) \o c = h \o (m \o c)
    BY ConcatAssociative
  <2> QED BY <2>1, <2>2
<1>2. /\ Line(s) = handled[s] \o Middle(working[s]) \o channel[s]
      /\ handled[s] \in Seq(Payload) /\ Middle(working[s]) \in Seq(Payload)
      /\ channel[s] \in Seq(Payload)
  BY LineType
<1>3. \E rest \in Seq(Payload) :
        (handled[s] \o Middle(working[s])) \o channel[s] = handled[s] \o rest
  BY <1>1, <1>2, Zenon
<1> QED BY <1>2, <1>3

LEMMA HeadThenTail ==
  ASSUME NEW S, NEW q \in Seq(S), q # <<>> PROVE q = <<Head(q)>> \o Tail(q)
<1>1. /\ Head(q) \in S /\ Tail(q) \in Seq(S) /\ Len(Tail(q)) = Len(q) - 1 /\ Head(q) = q[1]
      /\ \A i \in 1 .. Len(Tail(q)) : Tail(q)[i] = q[i + 1]
  BY HeadTailProperties
<1>2. /\ <<Head(q)>> \in Seq(S) /\ Len(<<Head(q)>>) = 1 /\ <<Head(q)>>[1] = q[1]
      /\ Len(q) \in Nat \ {0}
  BY <1>1, EmptySeq
<1> DEFINE r == <<Head(q)>> \o Tail(q)
<1>3. /\ r \in Seq(S) /\ Len(r) = Len(q)
      /\ \A i \in 1 .. Len(q) : r[i] = IF i <= 1 THEN <<Head(q)>>[i] ELSE Tail(q)[i - 1]
  BY <1>1, <1>2, ConcatProperties
<1> HIDE DEF r
<1>4. \A i \in 1 .. Len(q) : r[i] = q[i]
  BY <1>1, <1>2, <1>3
<1>5. q = r
  BY <1>3, <1>4, SeqEqual
<1> QED BY <1>5 DEF r

(* Appending to the channel appends to the line.                           *)
LEMMA LineAppend ==
  ASSUME NEW h \in Seq(Payload), NEW m \in Seq(Payload), NEW c \in Seq(Payload),
         NEW e \in Payload
  PROVE  h \o m \o Append(c, e) = Append(h \o m \o c, e)
<1>1. h \o m \in Seq(Payload) /\ h \o m \o c \in Seq(Payload) /\ <<e>> \in Seq(Payload)
  BY ConcatProperties
<1>2. Append(c, e) = c \o <<e>> /\ Append(h \o m \o c, e) = (h \o m \o c) \o <<e>>
  BY <1>1, AppendIsConcat
<1> QED BY <1>1, <1>2, ConcatAssociative

(* Receiving moves the head of the channel to the middle of the line.      *)
LEMMA LineReceive ==
  ASSUME NEW h \in Seq(Payload), NEW c \in Seq(Payload), c # <<>>
  PROVE  (h \o <<>>) \o c = (h \o <<Head(c)>>) \o Tail(c)
<1>1. Head(c) \in Payload /\ Tail(c) \in Seq(Payload) /\ <<Head(c)>> \in Seq(Payload)
  BY HeadTailProperties
<1>2. h \o <<>> = h /\ c = <<Head(c)>> \o Tail(c)
  BY ConcatEmptySeq, HeadThenTail
<1>3. (h \o <<Head(c)>>) \o Tail(c) = h \o (<<Head(c)>> \o Tail(c))
  BY <1>1, ConcatAssociative
<1> QED BY <1>2, <1>3

(* A sink that returns moves the middle of the line to its front.          *)
LEMMA LineReturn ==
  ASSUME NEW h \in Seq(Payload), NEW c \in Seq(Payload), NEW w \in Payload
  PROVE  (Append(h, w) \o <<>>) \o c = (h \o <<w>>) \o c
<1>1. Append(h, w) = h \o <<w>> /\ Append(h, w) \in Seq(Payload)
  BY AppendIsConcat, AppendProperties
<1> QED BY <1>1, ConcatEmptySeq
-----------------------------------------------------------------------------
(* The ways a step may treat the line of a sink.                           *)
Keeps(s) == /\ Line(s)' = Line(s) /\ Due(s) <= Due(s)'
            /\ Policy[s] = "Block" /\ Open(s)' /\ result' = "ok" =>
                 Open(s) /\ result = "ok" /\ Due(s)' = Due(s)
Appends(s) == /\ payload \in Payload /\ Due(s) = payload - 1 /\ Due(s)' = payload
              /\ Line(s)' = Append(Line(s), payload)
              /\ Open(s)' = Open(s) /\ result' = result
Cuts(s) == Line(s)' = handled[s] /\ Due(s)' = Due(s) /\ ~Open(s)'

LEMMA DueType == ASSUME TypeOK, NEW s \in Sink PROVE Due(s) \in Int
BY Numbers DEF TypeOK, Due, None

LEMMA LineInv ==
  ASSUME Base, NEW s \in Sink, Orderly(s), Lossless(s), Due(s)' \in Int,
         Keeps(s) \/ Appends(s) \/ Cuts(s)
  PROVE  Orderly(s)' /\ Lossless(s)'
<1>1. /\ Line(s) \in Seq(Payload) /\ DOMAIN Line(s) = 1 .. Len(Line(s))
      /\ \A i \in DOMAIN Line(s) : Line(s)[i] \in Nat
  BY LineType, LenProperties, Numbers DEF Base
<1>2. Due(s) \in Int
  BY DueType DEF Base
<1>3. CASE Keeps(s)
  <2>1. \A i \in DOMAIN Line(s) : Line(s)[i] <= Due(s)'
    BY <1>1, <1>2, <1>3 DEF Keeps, Orderly
  <2>2. Orderly(s)'
    BY <1>3, <2>1 DEF Orderly, Keeps
  <2>3. Lossless(s)'
    BY <1>3 DEF Lossless, Keeps
  <2> QED BY <2>2, <2>3
<1>4. CASE Appends(s)
  <2>1. payload \in Payload /\ payload \in Nat /\ Due(s) = payload - 1 /\ Due(s)' = payload
    BY <1>4, Numbers DEF Appends
  <2>2. Increasing(Line(s)) /\ \A i \in DOMAIN Line(s) : Line(s)[i] < payload
    BY <1>1, <2>1 DEF Orderly
  <2>3. /\ Increasing(Append(Line(s), payload))
        /\ \A i \in DOMAIN Append(Line(s), payload) : Append(Line(s), payload)[i] <= payload
        /\ ToSet(Append(Line(s), payload)) = ToSet(Line(s)) \cup {payload}
    BY <1>1, <2>1, <2>2, AppendIncreasing
  <2>4. Line(s)' = Append(Line(s), payload)
    BY <1>4 DEF Appends
  <2>5. Orderly(s)'
    BY <2>1, <2>3, <2>4 DEF Orderly
  <2>6. 1 .. payload = 1 .. payload - 1 \cup {payload}
    BY <2>1, Numbers DEF Payload
  <2>7. Lossless(s)'
    BY <1>4, <2>1, <2>3, <2>4, <2>6 DEF Lossless, Appends
  <2> QED BY <2>5, <2>7
<1>5. CASE Cuts(s)
  <2>1. PICK rest \in Seq(Payload) : Line(s) = handled[s] \o rest
    BY LineSplit DEF Base
  <2>2. handled[s] \in Seq(Payload)
    BY LineType DEF Base
  <2>3. Increasing(handled[s]) /\ \A i \in DOMAIN handled[s] : handled[s][i] <= Due(s)
    BY <2>1, <2>2, PrefixIncreasing DEF Orderly
  <2> QED BY <1>5, <2>3 DEF Cuts, Orderly, Lossless
<1> QED BY <1>3, <1>4, <1>5
-----------------------------------------------------------------------------
(* The steps of consume.                                                   *)
LEMMA NextVisitDue ==
  ASSUME TypeOK, NEW s \in Sink, visit = s, payload \in Payload, NextVisit, payload' = payload
  PROVE  /\ visit' \in Sink \cup {Idle} /\ Due(s) = payload - 1 /\ Due(s)' = payload
         /\ \A t \in Sink \ {s} : Due(t)' = Due(t)
<1>1. /\ s \in 1 .. Len(Policy) /\ Len(Policy) \in Nat /\ payload \in Nat
      /\ visit' = IF s = Len(Policy) THEN 0 ELSE s + 1
  BY Numbers DEF NextVisit, Idle
<1>2. visit' \in Sink \cup {Idle}
  BY <1>1, Numbers DEF Idle
<1>3. Due(s) = payload - 1 /\ Due(s)' = payload
  BY <1>1 DEF Due
<1>4. ASSUME NEW t \in Sink \ {s} PROVE Due(t)' = Due(t)
  <2>1. t \in 1 .. Len(Policy) /\ t # s
    BY Numbers
  <2>2. visit \in 1 .. t <=> visit' \in 1 .. t
    BY <1>1, <2>1
  <2> QED BY <2>2 DEF Due
<1> QED BY <1>2, <1>3, <1>4

(* What consume's task leaves alone: the actors and their sinks.           *)
LEMMA RouteBase ==
  ASSUME IInv, UNCHANGED <<actor, working, handled>>, payload' \in Payload \cup {None},
         yielded' \in BOOLEAN, visit' \in Sink \cup {Idle}, result' \in {"ok", "error"},
         channel' \in [Sink -> Seq(Payload)], \A s \in Sink : Len(channel'[s]) <= QueueLimit[s],
         Visited'
  PROVE  Base'
<1>1. TypeOK'
  BY DEF IInv, Base, TypeOK
<1>2. \A s \in Sink : Works(s)'
  BY DEF IInv, Base, Works
<1> QED BY <1>1, <1>2 DEF Base

LEMMA Finish ==
  ASSUME IInv, Base', \A s \in Sink : Keeps(s) \/ Appends(s) \/ Cuts(s)
  PROVE  IInv'
<1>1. ASSUME NEW s \in Sink PROVE Due(s)' \in Int
  BY Numbers DEF Base, TypeOK, Due, None
<1> QED BY <1>1, LineInv DEF IInv

LEMMA VisitingPayload == ASSUME IInv, NEW s \in Sink, Visiting(s)
                         PROVE visit = s /\ payload \in Payload /\ result = "ok" /\ ~Dropped
BY Numbers DEF IInv, Base, TypeOK, Visited, Visiting

LEMMA EnqueueInv == ASSUME IInv, NEW s \in Sink, Visiting(s), Room(s), Enqueue(s) PROVE IInv'
<1>1. visit = s /\ payload \in Payload /\ result = "ok" /\ ~Dropped
  BY VisitingPayload
<1>2. /\ channel' = [channel EXCEPT ![s] = Append(@, payload)] /\ yielded' = FALSE /\ NextVisit
      /\ UNCHANGED <<payload, result, actor, working, handled>>
      /\ Len(channel[s]) < QueueLimit[s]
  BY DEF Enqueue, Room
<1>3. TypeOK /\ channel \in [Sink -> Seq(Payload)] /\ QueueLimit[s] \in Nat
  BY FanoutConstants DEF IInv, Base, TypeOK
<1>4. /\ visit' \in Sink \cup {Idle} /\ Due(s) = payload - 1 /\ Due(s)' = payload
      /\ \A t \in Sink \ {s} : Due(t)' = Due(t)
  BY <1>1, <1>2, <1>3, NextVisitDue
<1>5. /\ Append(channel[s], payload) \in Seq(Payload)
      /\ Len(Append(channel[s], payload)) = Len(channel[s]) + 1
  BY <1>1, <1>3, AppendProperties
<1>6. /\ channel' \in [Sink -> Seq(Payload)] /\ channel'[s] = Append(channel[s], payload)
      /\ \A t \in Sink \ {s} : channel'[t] = channel[t]
  BY <1>2, <1>3, <1>5
<1>7. ASSUME NEW t \in Sink PROVE Len(channel'[t]) <= QueueLimit[t]
  <2>1. CASE t = s
    <3>1. Len(channel[s]) \in Nat
      BY <1>3
    <3> QED BY <1>2, <1>3, <1>5, <1>6, <2>1, <3>1
  <2>2. CASE t # s
    BY <1>3, <1>6, <2>2 DEF TypeOK
  <2> QED BY <2>1, <2>2
<1>8. Visited'
  BY <1>1, <1>2, Numbers DEF Visited, Dropped
<1>9. Base'
  BY <1>1, <1>2, <1>3, <1>4, <1>6, <1>7, <1>8, RouteBase DEF TypeOK
<1>10. ASSUME NEW t \in Sink \ {s} PROVE Keeps(t)
  <2>1. Line(t)' = Line(t)
    BY <1>2, <1>6 DEF Line
  <2>2. Due(t)' = Due(t) /\ Due(t) \in Int
    BY <1>3, <1>4, DueType
  <2> QED BY <1>2, <2>1, <2>2 DEF Keeps, Open
<1>11. Appends(s)
  <2>1. /\ Line(s) = handled[s] \o Middle(working[s]) \o channel[s]
        /\ handled[s] \in Seq(Payload) /\ Middle(working[s]) \in Seq(Payload)
        /\ channel[s] \in Seq(Payload)
    BY <1>3, LineType
  <2>2. Line(s)' = handled[s] \o Middle(working[s]) \o Append(channel[s], payload)
    BY <1>2, <1>6 DEF Line, Middle
  <2>3. Line(s)' = Append(Line(s), payload)
    <3>1. handled[s] \o Middle(working[s]) \o Append(channel[s], payload)
            = Append(handled[s] \o Middle(working[s]) \o channel[s], payload)
      BY <1>1, <2>1, LineAppend, Zenon
    <3> QED BY <2>1, <2>2, <3>1
  <2> QED BY <1>1, <1>2, <1>4, <2>3 DEF Appends, Open
<1> QED BY <1>9, <1>10, <1>11, Finish

LEMMA DiscardInv ==
  ASSUME IInv, NEW s \in Sink, Visiting(s), Policy[s] # "Block", Discard(s) PROVE IInv'
<1>1. visit = s /\ payload \in Payload /\ result = "ok" /\ ~Dropped
  BY VisitingPayload
<1>2. /\ yielded' = FALSE /\ NextVisit
      /\ UNCHANGED <<payload, result, channel, actor, working, handled>>
  BY DEF Discard
<1>3. TypeOK
  BY DEF IInv, Base
<1>4. /\ visit' \in Sink \cup {Idle} /\ Due(s) = payload - 1 /\ Due(s)' = payload
      /\ \A t \in Sink \ {s} : Due(t)' = Due(t)
  BY <1>1, <1>2, <1>3, NextVisitDue
<1>5. Visited'
  BY <1>1, <1>2, Numbers DEF Visited, Dropped
<1>6. Base'
  BY <1>1, <1>2, <1>3, <1>4, <1>5, RouteBase DEF TypeOK
<1>7. ASSUME NEW t \in Sink PROVE Keeps(t)
  <2>1. Line(t)' = Line(t)
    BY <1>2 DEF Line
  <2>2. Due(t) \in Int /\ Due(t) <= Due(t)' /\ (t # s => Due(t)' = Due(t))
    BY <1>1, <1>3, <1>4, DueType, Numbers
  <2> QED BY <1>2, <2>1, <2>2 DEF Keeps, Open
<1> QED BY <1>6, <1>7, Finish

LEMMA ConsumeInv == ASSUME IInv, Consume PROVE IInv'
<1>1. /\ visit = Idle /\ result = "ok" /\ ~Dropped /\ payload < Payloads
      /\ payload' = payload + 1 /\ visit' = 1
      /\ UNCHANGED <<yielded, result, channel, actor, working, handled>>
  BY DEF Consume
<1>2. TypeOK /\ payload \in 0 .. Payloads
  BY Numbers DEF IInv, Base, TypeOK, Payload, None
<1>3. payload' \in Payload /\ visit' \in Sink
  BY <1>1, <1>2, Numbers DEF Payload
<1>4. Visited'
  BY <1>1, <1>3, Numbers DEF Visited, Dropped
<1>5. Base'
  BY <1>1, <1>2, <1>3, <1>4, RouteBase DEF TypeOK
<1>6. ASSUME NEW s \in Sink PROVE Keeps(s)
  <2>1. Line(s)' = Line(s)
    BY <1>1 DEF Line
  <2>2. s \in Nat \ {0}
    BY Numbers
  <2>3. Due(s) = payload /\ Due(s)' = payload
    BY <1>1, <1>2, <2>2 DEF Due, Idle
  <2> QED BY <1>1, <1>2, <2>1, <2>3 DEF Keeps, Open
<1> QED BY <1>5, <1>6, Finish

LEMMA BlockFailsInv == ASSUME IInv, NEW s \in Sink, BlockFails(s) PROVE IInv'
<1>1. visit = s /\ payload \in Payload /\ result = "ok" /\ ~Dropped
  BY VisitingPayload DEF BlockFails
<1>2. /\ Policy[s] = "Block" /\ ~Open(s) /\ visit' = Idle /\ result' = "error"
      /\ UNCHANGED <<yielded, payload, channel, actor, working, handled>>
  BY DEF BlockFails
<1>3. TypeOK
  BY DEF IInv, Base
<1>4. actor[s] = "panicked"
  BY <1>1, <1>2, <1>3 DEF TypeOK, Open, Dropped
<1>5. Visited'
  BY <1>2, <1>4 DEF Visited
<1>6. Base'
  BY <1>1, <1>2, <1>3, <1>5, RouteBase DEF TypeOK
<1>7. ASSUME NEW t \in Sink PROVE Keeps(t)
  <2>1. Line(t)' = Line(t)
    BY <1>2 DEF Line
  <2>2. Due(t) <= Due(t)'
    BY <1>1, <1>2, Numbers DEF Due, Idle
  <2> QED BY <1>2, <2>1, <2>2 DEF Keeps
<1> QED BY <1>6, <1>7, Finish

LEMMA YieldInv ==
  ASSUME IInv, NEW s \in Sink, Visiting(s), yielded' = TRUE,
         UNCHANGED <<visit, payload, result, channel, actor, working, handled>>
  PROVE  IInv'
<1>1. TypeOK
  BY DEF IInv, Base
<1>2. Visited'
  BY DEF IInv, Base, Visited, Dropped
<1>3. Base'
  BY <1>1, <1>2, RouteBase DEF TypeOK
<1>4. ASSUME NEW t \in Sink PROVE Keeps(t)
  <2>1. Line(t)' = Line(t) /\ Due(t)' = Due(t)
    BY DEF Line, Due
  <2> QED BY <1>1, <2>1, DueType DEF Keeps, Open
<1> QED BY <1>3, <1>4, Finish

LEMMA RouteInv == ASSUME IInv, Route PROVE IInv'
<1>1. PICK s \in Sink : \/ BlockSends(s) \/ BlockFails(s) \/ NewestTries(s)
                        \/ OldestTries(s) \/ OldestRetries(s)
  BY DEF Route
<1>2. CASE BlockSends(s)
  BY <1>2, EnqueueInv DEF BlockSends
<1>3. CASE BlockFails(s)
  BY <1>3, BlockFailsInv
<1>4. CASE NewestTries(s)
  <2>1. Visiting(s) /\ Policy[s] # "Block" /\ ((Room(s) /\ Enqueue(s)) \/ Discard(s))
    BY <1>4 DEF NewestTries
  <2> QED BY <2>1, EnqueueInv, DiscardInv
<1>5. CASE OldestTries(s)
  <2>1. CASE Room(s)
    BY <1>5, <2>1, EnqueueInv DEF OldestTries
  <2>2. CASE ~Room(s)
    BY <1>5, <2>2, YieldInv DEF OldestTries
  <2> QED BY <2>1, <2>2
<1>6. CASE OldestRetries(s)
  <2>1. Visiting(s) /\ Policy[s] # "Block" /\ ((Room(s) /\ Enqueue(s)) \/ Discard(s))
    BY <1>6 DEF OldestRetries
  <2> QED BY <2>1, EnqueueInv, DiscardInv
<1> QED BY <1>1, <1>2, <1>3, <1>4, <1>5, <1>6
-----------------------------------------------------------------------------
(* The steps of an actor: those of the other sinks see nothing of them.    *)
LEMMA OthersKeep ==
  ASSUME IInv, NEW s \in Sink, NEW t \in Sink \ {s},
         UNCHANGED <<visit, payload, result>>, channel'[t] = channel[t],
         working'[t] = working[t], handled'[t] = handled[t], actor'[t] = actor[t]
  PROVE  Keeps(t)
<1>1. Line(t)' = Line(t) /\ Due(t)' = Due(t)
  BY DEF Line, Due
<1>2. Due(t) \in Int
  BY DueType DEF IInv, Base
<1> QED BY <1>1, <1>2 DEF Keeps, Open

LEMMA ReceiveInv == ASSUME IInv, NEW s \in Sink, Receive(s) PROVE IInv'
<1>1. /\ actor[s] = "receiving" /\ channel[s] # <<>>
      /\ working' = [working EXCEPT ![s] = Head(channel[s])]
      /\ channel' = [channel EXCEPT ![s] = Tail(@)]
      /\ actor' = [actor EXCEPT ![s] = "consuming"]
      /\ UNCHANGED <<visit, yielded, payload, result, handled>>
  BY DEF Receive
<1>2. TypeOK /\ channel[s] \in Seq(Payload) /\ handled[s] \in Seq(Payload)
  BY DEF IInv, Base, TypeOK
<1>3. /\ Head(channel[s]) \in Payload /\ Tail(channel[s]) \in Seq(Payload)
      /\ Len(Tail(channel[s])) = Len(channel[s]) - 1
  BY <1>1, <1>2, HeadTailProperties
<1>4. /\ working' \in [Sink -> Payload \cup {None}] /\ working'[s] = Head(channel[s])
      /\ channel' \in [Sink -> Seq(Payload)] /\ channel'[s] = Tail(channel[s])
      /\ actor' \in [Sink -> {"receiving", "consuming", "panicked", "aborted"}]
      /\ actor'[s] = "consuming"
      /\ \A t \in Sink \ {s} : working'[t] = working[t] /\ channel'[t] = channel[t]
                               /\ actor'[t] = actor[t]
  BY <1>1, <1>2, <1>3 DEF TypeOK
<1>5. ASSUME NEW t \in Sink PROVE Len(channel'[t]) <= QueueLimit[t]
  <2>1. CASE t = s
    <3>1. Len(channel[s]) \in Nat /\ QueueLimit[s] \in Nat /\ Len(channel[s]) <= QueueLimit[s]
      BY <1>2, FanoutConstants DEF TypeOK
    <3> QED BY <1>3, <1>4, <2>1, <3>1
  <2>2. CASE t # s
    BY <1>2, <1>4, <2>2 DEF TypeOK
  <2> QED BY <2>1, <2>2
<1>6. TypeOK'
  BY <1>1, <1>2, <1>4, <1>5 DEF TypeOK
<1>7. \A t \in Sink : Works(t)'
  BY <1>3, <1>4, Numbers DEF IInv, Base, Works
<1>8. Visited'
  BY <1>1, <1>4 DEF IInv, Base, Visited, Dropped
<1>9. Keeps(s)
  <2>1. working[s] = None
    BY <1>1 DEF IInv, Base, Works
  <2>2. /\ Line(s) = (handled[s] \o <<>>) \o channel[s]
        /\ Line(s)' = (handled[s] \o <<Head(channel[s])>>) \o Tail(channel[s])
    BY <1>1, <1>3, <1>4, <2>1, Numbers DEF Line
  <2>3. Line(s)' = Line(s)
    <3>1. (handled[s] \o <<>>) \o channel[s]
            = (handled[s] \o <<Head(channel[s])>>) \o Tail(channel[s])
      BY <1>1, <1>2, LineReceive, Zenon
    <3> QED BY <2>2, <3>1
  <2>4. Due(s)' = Due(s) /\ Due(s) \in Int
    BY <1>1, <1>2, DueType DEF Due
  <2> QED BY <1>1, <2>3, <2>4 DEF Keeps, Open
<1>10. \A t \in Sink \ {s} : Keeps(t)
  BY <1>1, <1>4, OthersKeep
<1> QED BY <1>6, <1>7, <1>8, <1>9, <1>10, Finish DEF Base

LEMMA SinkReturnsInv == ASSUME IInv, NEW s \in Sink, SinkReturns(s) PROVE IInv'
<1>1. /\ actor[s] = "consuming"
      /\ handled' = [handled EXCEPT ![s] = Append(@, working[s])]
      /\ working' = [working EXCEPT ![s] = None]
      /\ actor' = [actor EXCEPT ![s] = "receiving"]
      /\ UNCHANGED <<visit, yielded, payload, result, channel>>
  BY DEF SinkReturns
<1>2. TypeOK /\ channel[s] \in Seq(Payload) /\ handled[s] \in Seq(Payload)
  BY DEF IInv, Base, TypeOK
<1>3. working[s] # None /\ working[s] \in Payload
  BY <1>1, <1>2 DEF IInv, Base, Works, TypeOK
<1>4. Append(handled[s], working[s]) \in Seq(Payload)
  BY <1>2, <1>3, AppendProperties
<1>5. /\ working' \in [Sink -> Payload \cup {None}] /\ working'[s] = None
      /\ handled' \in [Sink -> Seq(Payload)] /\ handled'[s] = Append(handled[s], working[s])
      /\ actor' \in [Sink -> {"receiving", "consuming", "panicked", "aborted"}]
      /\ actor'[s] = "receiving"
      /\ \A t \in Sink \ {s} : working'[t] = working[t] /\ handled'[t] = handled[t]
                               /\ actor'[t] = actor[t]
  BY <1>1, <1>2, <1>4 DEF TypeOK
<1>6. TypeOK'
  BY <1>1, <1>2, <1>5 DEF TypeOK
<1>7. \A t \in Sink : Works(t)'
  BY <1>5 DEF IInv, Base, Works
<1>8. Visited'
  BY <1>1, <1>5 DEF IInv, Base, Visited, Dropped
<1>9. Keeps(s)
  <2>1. /\ Line(s) = (handled[s] \o <<working[s]>>) \o channel[s]
        /\ Line(s)' = (Append(handled[s], working[s]) \o <<>>) \o channel[s]
    BY <1>1, <1>3, <1>5 DEF Line
  <2>2. Line(s)' = Line(s)
    <3>1. (Append(handled[s], working[s]) \o <<>>) \o channel[s]
            = (handled[s] \o <<working[s]>>) \o channel[s]
      BY <1>2, <1>3, LineReturn, Zenon
    <3> QED BY <2>1, <3>1
  <2>3. Due(s)' = Due(s) /\ Due(s) \in Int
    BY <1>1, <1>2, DueType DEF Due
  <2> QED BY <1>1, <2>2, <2>3 DEF Keeps, Open
<1>10. \A t \in Sink \ {s} : Keeps(t)
  BY <1>1, <1>5, OthersKeep
<1> QED BY <1>6, <1>7, <1>8, <1>9, <1>10, Finish DEF Base

(* The line of an actor that is gone is what its sink has handled.         *)
LEMMA CutLine ==
  ASSUME IInv, NEW s \in Sink, UNCHANGED <<visit, payload>>, handled'[s] = handled[s],
         working'[s] = None, channel'[s] = <<>>, ~Open(s)'
  PROVE  Cuts(s)
<1>1. handled[s] \in Seq(Payload)
  BY DEF IInv, Base, TypeOK
<1>2. Line(s)' = (handled[s] \o <<>>) \o <<>>
  BY DEF Line
<1>3. Line(s)' = handled[s]
  BY <1>1, <1>2, ConcatEmptySeq
<1> QED BY <1>3 DEF Cuts, Due

LEMMA SinkPanicsInv == ASSUME IInv, NEW s \in Sink, SinkPanics(s) PROVE IInv'
<1>1. /\ actor[s] = "consuming" /\ actor' = [actor EXCEPT ![s] = "panicked"]
      /\ channel' = [channel EXCEPT ![s] = <<>>] /\ working' = [working EXCEPT ![s] = None]
      /\ UNCHANGED <<visit, yielded, payload, result, handled>>
  BY DEF SinkPanics
<1>2. TypeOK
  BY DEF IInv, Base
<1>3. /\ working' \in [Sink -> Payload \cup {None}] /\ working'[s] = None
      /\ channel' \in [Sink -> Seq(Payload)] /\ channel'[s] = <<>>
      /\ actor' \in [Sink -> {"receiving", "consuming", "panicked", "aborted"}]
      /\ actor'[s] = "panicked"
      /\ \A t \in Sink \ {s} : working'[t] = working[t] /\ channel'[t] = channel[t]
                               /\ actor'[t] = actor[t]
  BY <1>1, <1>2 DEF TypeOK
<1>4. \A t \in Sink : Len(channel'[t]) <= QueueLimit[t]
  <2>1. QueueLimit[s] \in Nat
    BY FanoutConstants
  <2>2. Len(channel'[s]) <= QueueLimit[s]
    BY <1>3, <2>1
  <2>3. \A t \in Sink \ {s} : Len(channel'[t]) <= QueueLimit[t]
    BY <1>2, <1>3 DEF TypeOK
  <2> QED BY <2>2, <2>3
<1>5. TypeOK'
  BY <1>1, <1>2, <1>3, <1>4 DEF TypeOK
<1>6. \A t \in Sink : Works(t)'
  BY <1>3 DEF IInv, Base, Works
<1>7. Visited'
  BY <1>1, <1>3 DEF IInv, Base, Visited, Dropped
<1>8. Cuts(s)
  BY <1>1, <1>3, CutLine DEF Open
<1>9. \A t \in Sink \ {s} : Keeps(t)
  BY <1>1, <1>3, OthersKeep
<1> QED BY <1>5, <1>6, <1>7, <1>8, <1>9, Finish DEF Base

LEMMA DropRouterInv == ASSUME IInv, DropRouter PROVE IInv'
<1>1. /\ visit = Idle
      /\ actor' = [s \in Sink |-> IF Open(s) THEN "aborted" ELSE actor[s]]
      /\ channel' = [s \in Sink |-> <<>>] /\ working' = [s \in Sink |-> None]
      /\ UNCHANGED <<visit, yielded, payload, result, handled>>
  BY DEF DropRouter
<1>2. TypeOK
  BY DEF IInv, Base
<1>3. /\ actor' \in [Sink -> {"receiving", "consuming", "panicked", "aborted"}]
      /\ \A s \in Sink : actor'[s] \in {"panicked", "aborted"}
                         /\ (actor[s] = "panicked" => actor'[s] = "panicked")
  BY <1>1, <1>2 DEF TypeOK, Open
<1>4. /\ \A s \in Sink : Len(channel'[s]) <= QueueLimit[s]
      /\ channel' \in [Sink -> Seq(Payload)]
  BY <1>1, FanoutConstants
<1>5. TypeOK'
  BY <1>1, <1>2, <1>3, <1>4 DEF TypeOK
<1>6. \A s \in Sink : Works(s)'
  BY <1>1, <1>3 DEF Works
<1>7. Visited'
  BY <1>1, <1>3 DEF IInv, Base, Visited
<1>8. \A s \in Sink : Cuts(s)
  BY <1>1, <1>3, CutLine DEF Open
<1> QED BY <1>5, <1>6, <1>7, <1>8, Finish DEF Base
-----------------------------------------------------------------------------
LEMMA InitInv == Init => IInv
<1> SUFFICES ASSUME Init PROVE IInv
  OBVIOUS
<1>1. /\ visit = Idle /\ yielded = FALSE /\ payload = None /\ result = "ok"
      /\ channel = [s \in Sink |-> <<>>] /\ actor = [s \in Sink |-> "receiving"]
      /\ working = [s \in Sink |-> None] /\ handled = [s \in Sink |-> <<>>]
  BY DEF Init
<1>2. \A s \in Sink : Len(channel[s]) <= QueueLimit[s]
  BY <1>1, FanoutConstants
<1>3. TypeOK
  <2>1. channel \in [Sink -> Seq(Payload)] /\ handled \in [Sink -> Seq(Payload)]
    BY <1>1
  <2>2. /\ working \in [Sink -> Payload \cup {None}]
        /\ actor \in [Sink -> {"receiving", "consuming", "panicked", "aborted"}]
    BY <1>1
  <2> QED BY <1>1, <1>2, <2>1, <2>2 DEF TypeOK
<1>4. Base
  BY <1>1, <1>3 DEF Base, Visited, Works
<1>5. ASSUME NEW s \in Sink PROVE Orderly(s) /\ Lossless(s)
  <2>1. Line(s) = (<<>> \o <<>>) \o <<>>
    BY <1>1 DEF Line
  <2>2. Line(s) = <<>>
    BY <2>1
  <2>3. Due(s) = 0
    BY <1>1, Numbers DEF Due, Idle, None
  <2>4. DOMAIN Line(s) = {} /\ ToSet(Line(s)) = {} /\ 1 .. Due(s) = {}
    BY <2>2, <2>3 DEF ToSet
  <2> QED BY <2>4 DEF Orderly, Lossless, Increasing
<1> QED BY <1>4, <1>5 DEF IInv

LEMMA NextInv == IInv /\ [Next]_vars => IInv'
<1> SUFFICES ASSUME IInv, [Next]_vars PROVE IInv'
  OBVIOUS
<1>1. CASE Consume
  BY <1>1, ConsumeInv
<1>2. CASE Route
  BY <1>2, RouteInv
<1>3. CASE DropRouter
  BY <1>3, DropRouterInv
<1>4. CASE \E s \in Sink : Act(s) \/ SinkPanics(s)
  BY <1>4, ReceiveInv, SinkReturnsInv, SinkPanicsInv DEF Act
<1>5. CASE UNCHANGED vars
  BY <1>5, ZenonT(30) DEF vars, IInv, Base, TypeOK, Visited, Works, Orderly, Lossless,
              Line, Due, Open, Dropped, Increasing
<1> QED BY <1>1, <1>2, <1>3, <1>4, <1>5 DEF Next

(* Every variable keeps its type; no queue outgrows its limit.             *)
THEOREM TypeCorrect == Spec => []TypeOK
<1>1. IInv => TypeOK
  BY DEF IInv, Base
<1> QED BY <1>1, InitInv, NextInv, PTL DEF Spec

(* Whatever the policies and the panics, every sink gets the payloads in   *)
(* the order of the source, and none of them twice.                        *)
THEOREM SinksGetOrder == Spec => []InOrder
<1>1. IInv => InOrder
  BY DEF IInv, Orderly, Increasing, InOrder
<1> QED BY <1>1, InitInv, NextInv, PTL DEF Spec

(* A sink behind a Block queue gets every payload while its actor lives.   *)
THEOREM BlockIsLossless == Spec => []BlockLosesNothing
<1>1. IInv => BlockLosesNothing
  BY DEF IInv, Lossless, BlockLosesNothing, Due
<1> QED BY <1>1, InitInv, NextInv, PTL DEF Spec
-----------------------------------------------------------------------------
(* The router seen as one LossyQueue per sink.                             *)
Waiting(s) == IF Open(s) THEN ToSet(channel[s]) \cup ({working[s]} \ {None}) ELSE {}
Seen(s) == Queues!Queue(Due(s), Waiting(s), handled[s], ~Open(s))
Moves(s) == Seen(s)' \in Queues!Steps(Seen(s))

LEMMA RouterStep == ASSUME \A s \in Sink : Moves(s) PROVE Queues!Next
<1>1. queueOf = [s \in Sink |-> Seen(s)]
  BY DEF queueOf, Seen, Waiting, Queues!Queue
<1>2. queueOf' = [s \in Sink |-> Seen(s)']
  BY DEF queueOf, Seen, Waiting, Queues!Queue
<1>3. /\ queueOf' = [s \in Sink |-> queueOf'[s]]
      /\ \A s \in Sink : queueOf'[s] \in Queues!Steps(queueOf[s])
  BY <1>1, <1>2 DEF Moves
<1> QED BY <1>3 DEF Queues!Next

(* The steps of a LossyQueue, written out.                                 *)
LEMMA QueueSteps ==
  ASSUME NEW n, NEW w, NEW p, NEW e
  PROVE  /\ Queues!Queue(n, w, p, e) \in Queues!Steps(Queues!Queue(n, w, p, e))
         /\ Queues!Queue(n + 1, w, p, e) \in Queues!Steps(Queues!Queue(n, w, p, e))
         /\ Queues!Queue(n + 1, w \cup {n + 1}, p, e) \in Queues!Steps(Queues!Queue(n, w, p, e))
         /\ \A x \in w :
              Queues!Queue(n + 1, (w \ {x}) \cup {n + 1}, p, e)
                \in Queues!Steps(Queues!Queue(n, w, p, e))
         /\ \A x \in w : e = FALSE /\ (\A y \in w : x <= y) =>
              Queues!Queue(n, w \ {x}, Append(p, x), e) \in Queues!Steps(Queues!Queue(n, w, p, e))
         /\ \A v \in SUBSET w : e = FALSE =>
              Queues!Queue(n, v, p, TRUE) \in Queues!Steps(Queues!Queue(n, w, p, e))
<1> DEFINE q == Queues!Queue(n, w, p, e)
<1>1. q.newest = n /\ q.waiting = w /\ q.passed = p /\ q.ended = e
  BY DEF Queues!Queue
<1> HIDE DEF q
<1>2. \A v \in Queues!Room(q, n + 1) : Queues!Queue(n + 1, v, p, e) \in Queues!Offers(q)
  BY <1>1 DEF Queues!Offers
<1>3. /\ w \in Queues!Room(q, n + 1) /\ w \cup {n + 1} \in Queues!Room(q, n + 1)
      /\ \A x \in w : (w \ {x}) \cup {n + 1} \in Queues!Room(q, n + 1)
  BY <1>1 DEF Queues!Room
<1>4. ASSUME NEW x \in w, e = FALSE, \A y \in w : x <= y
      PROVE  Queues!Queue(n, w \ {x}, Append(p, x), e) \in Queues!Passes(q)
  <2>1. x \in Queues!Oldest(q)
    BY <1>1, <1>4 DEF Queues!Oldest
  <2> QED BY <1>1, <1>4, <2>1 DEF Queues!Passes
<1>5. ASSUME NEW v \in SUBSET w, e = FALSE PROVE Queues!Queue(n, v, p, TRUE) \in Queues!Ends(q)
  BY <1>1, <1>5 DEF Queues!Ends
<1>6. /\ q \in Queues!Steps(q)
      /\ Queues!Offers(q) \cup Queues!Passes(q) \cup Queues!Ends(q) \subseteq Queues!Steps(q)
  BY DEF Queues!Steps
<1>7. q = Queues!Queue(n, w, p, e)
  BY DEF q
<1> QED BY <1>2, <1>3, <1>4, <1>5, <1>6, <1>7

LEMMA StayMoves ==
  ASSUME NEW s \in Sink, channel'[s] = channel[s], working'[s] = working[s], actor'[s] = actor[s],
         handled'[s] = handled[s], Due(s)' \in {Due(s), Due(s) + 1}
  PROVE  Moves(s)
<1>1. Waiting(s)' = Waiting(s) /\ Open(s)' = Open(s)
  BY DEF Waiting, Open
<1> QED BY <1>1, QueueSteps DEF Moves, Seen

(* An actor dies and takes along what waited for it.                       *)
LEMMA DeathMoves ==
  ASSUME NEW s \in Sink, handled'[s] = handled[s], Due(s)' = Due(s), ~Open(s)' PROVE Moves(s)
<1>1. Waiting(s)' = {} /\ Open(s)' = FALSE
  BY DEF Waiting, Open
<1>2. CASE Open(s)
  <2>1. Open(s) = TRUE /\ {} \in SUBSET Waiting(s)
    BY <1>2 DEF Open
  <2> QED BY <1>1, <2>1, QueueSteps DEF Moves, Seen
<1>3. CASE ~Open(s)
  <2>1. Waiting(s)' = Waiting(s) /\ Open(s)' = Open(s)
    BY <1>1, <1>3 DEF Waiting, Open
  <2> QED BY <2>1, QueueSteps DEF Moves, Seen
<1> QED BY <1>2, <1>3

(* Consume, and what a visit does to the queues of the other sinks.        *)
LEMMA QuietMoves ==
  ASSUME IInv, UNCHANGED <<channel, actor, working, handled>>,
         \A s \in Sink : Due(s)' \in {Due(s), Due(s) + 1}
  PROVE  Queues!Next
BY StayMoves, RouterStep

LEMMA ToSetAppend ==
  ASSUME NEW q \in Seq(Payload), NEW e \in Payload PROVE ToSet(Append(q, e)) = ToSet(q) \cup {e}
<1> DEFINE r == Append(q, e)
<1>1. /\ r \in Seq(Payload) /\ Len(r) = Len(q) + 1 /\ r[Len(q) + 1] = e
      /\ \A i \in 1 .. Len(q) : r[i] = q[i]
  BY AppendProperties
<1> HIDE DEF r
<1>2. DOMAIN q = 1 .. Len(q) /\ DOMAIN r = 1 .. Len(q) + 1 /\ Len(q) \in Nat
  BY <1>1, LenProperties
<1>3. ToSet(r) = ToSet(q) \cup {e}
  BY <1>1, <1>2 DEF ToSet
<1> QED BY <1>3 DEF r

LEMMA ToSetHead ==
  ASSUME NEW q \in Seq(Payload), q # <<>> PROVE ToSet(q) = {Head(q)} \cup ToSet(Tail(q))
<1> DEFINE t == Tail(q)
<1>1. /\ t \in Seq(Payload) /\ Len(t) = Len(q) - 1 /\ Head(q) = q[1]
      /\ \A i \in 1 .. Len(t) : t[i] = q[i + 1]
  BY HeadTailProperties
<1> HIDE DEF t
<1>2. /\ DOMAIN q = 1 .. Len(q) /\ DOMAIN t = 1 .. Len(t) /\ Len(q) \in Nat \ {0}
  BY <1>1, LenProperties, EmptySeq
<1>3. /\ \A i \in 1 .. Len(t) : i + 1 \in 1 .. Len(q) /\ t[i] = q[i + 1]
      /\ \A i \in 1 .. Len(q) : i # 1 => i - 1 \in 1 .. Len(t) /\ t[i - 1] = q[i]
      /\ 1 \in 1 .. Len(q)
  BY <1>1, <1>2
<1>4. ToSet(q) = {q[i] : i \in 1 .. Len(q)} /\ ToSet(t) = {t[i] : i \in 1 .. Len(t)}
  BY <1>2 DEF ToSet
<1>5. ToSet(q) \subseteq {q[1]} \cup ToSet(t)
  BY <1>3, <1>4
<1>6. {q[1]} \cup ToSet(t) \subseteq ToSet(q)
  BY <1>3, <1>4
<1> QED BY <1>1, <1>5, <1>6 DEF t

(* What the sink works on is older than what is in its channel.            *)
LEMMA FrontIsLeast ==
  ASSUME NEW h \in Seq(Payload), NEW w \in Payload, NEW c \in Seq(Payload),
         Increasing((h \o <<w>>) \o c)
  PROVE  ToSet(c) \subseteq Nat /\ w \in Nat /\ \A x \in ToSet(c) : w < x
<1>1. PICK q \in Seq(Payload) : /\ q = h \o <<w>> /\ Len(q) = Len(h) + 1 /\ q[Len(q)] = w
                                /\ Len(h) \in Nat
  <2>1. Append(h, w) = h \o <<w>>
    BY AppendIsConcat
  <2>2. Append(h, w) \in Seq(Payload) /\ Len(Append(h, w)) = Len(h) + 1
        /\ Append(h, w)[Len(h) + 1] = w
    BY AppendProperties
  <2> QED BY <2>1, <2>2, LenProperties
<1> DEFINE l == q \o c
<1>2. /\ l \in Seq(Payload) /\ Len(l) = Len(q) + Len(c) /\ Increasing(l)
      /\ \A i \in 1 .. Len(q) + Len(c) : l[i] = IF i <= Len(q) THEN q[i] ELSE c[i - Len(q)]
  BY <1>1, ConcatProperties
<1> HIDE DEF l
<1>3. /\ DOMAIN l = 1 .. Len(l) /\ DOMAIN c = 1 .. Len(c) /\ Len(c) \in Nat
      /\ \A i \in 1 .. Len(c) : c[i] \in Payload
  BY <1>2, LenProperties
<1>4. ASSUME NEW i \in 1 .. Len(c) PROVE w < c[i]
  <2>1. /\ Len(q) \in 1 .. Len(l) /\ Len(q) + i \in 1 .. Len(l) /\ Len(q) < Len(q) + i
        /\ ~(Len(q) + i <= Len(q)) /\ (Len(q) + i) - Len(q) = i
    BY <1>1, <1>2, <1>3
  <2>2. l[Len(q)] = w /\ l[Len(q) + i] = c[i]
    BY <1>1, <1>2, <2>1
  <2>3. l[Len(q)] < l[Len(q) + i]
    BY <1>1, <1>2, <1>3, <2>1 DEF Increasing
  <2> QED BY <2>2, <2>3
<1>5. ToSet(c) = {c[i] : i \in 1 .. Len(c)}
  BY <1>3 DEF ToSet
<1> QED BY <1>3, <1>4, <1>5, Numbers

LEMMA EnqueueMoves == ASSUME IInv, NEW s \in Sink, Visiting(s), Room(s), Enqueue(s) PROVE Queues!Next
<1>1. visit = s /\ payload \in Payload /\ payload \in Nat /\ Open(s)
  BY VisitingPayload, Numbers DEF Room
<1>2. /\ channel' = [channel EXCEPT ![s] = Append(@, payload)] /\ NextVisit
      /\ UNCHANGED <<payload, result, actor, working, handled>>
  BY DEF Enqueue
<1>3. TypeOK /\ channel \in [Sink -> Seq(Payload)]
  BY DEF IInv, Base, TypeOK
<1>4. Due(s) = payload - 1 /\ Due(s)' = payload /\ \A t \in Sink \ {s} : Due(t)' = Due(t)
  BY <1>1, <1>2, <1>3, NextVisitDue
<1>5. channel'[s] = Append(channel[s], payload) /\ \A t \in Sink \ {s} : channel'[t] = channel[t]
  BY <1>2, <1>3
<1>6. Moves(s)
  <2>1. ToSet(channel'[s]) = ToSet(channel[s]) \cup {payload}
    BY <1>1, <1>3, <1>5, ToSetAppend
  <2>2. Waiting(s)' = Waiting(s) \cup {payload} /\ Open(s)' = Open(s)
    BY <1>1, <1>2, <2>1 DEF Waiting, Open
  <2>3. payload = Due(s) + 1 /\ Due(s)' = Due(s) + 1
    BY <1>1, <1>4
  <2> QED BY <1>2, <2>2, <2>3, QueueSteps DEF Moves, Seen
<1>7. \A t \in Sink \ {s} : Moves(t)
  BY <1>2, <1>4, <1>5, StayMoves
<1> QED BY <1>6, <1>7, RouterStep

LEMMA DiscardMoves == ASSUME IInv, NEW s \in Sink, Visiting(s), Discard(s) PROVE Queues!Next
<1>1. visit = s /\ payload \in Payload /\ payload \in Nat
  BY VisitingPayload, Numbers
<1>2. NextVisit /\ UNCHANGED <<payload, channel, actor, working, handled>>
  BY DEF Discard
<1>3. Due(s) = payload - 1 /\ Due(s)' = payload /\ \A t \in Sink \ {s} : Due(t)' = Due(t)
  BY <1>1, <1>2, NextVisitDue DEF IInv, Base
<1>4. \A t \in Sink : Due(t)' \in {Due(t), Due(t) + 1}
  BY <1>1, <1>3
<1> QED BY <1>2, <1>4, QuietMoves

LEMMA RouteMoves == ASSUME IInv, Route PROVE Queues!Next
<1>1. PICK s \in Sink : \/ BlockSends(s) \/ BlockFails(s) \/ NewestTries(s)
                        \/ OldestTries(s) \/ OldestRetries(s)
  BY DEF Route
<1>2. CASE BlockFails(s)
  <2>1. /\ payload \in Nat /\ visit' = Idle
        /\ UNCHANGED <<payload, channel, actor, working, handled>>
    BY <1>2, VisitingPayload, Numbers DEF BlockFails
  <2>2. \A t \in Sink : Due(t)' \in {Due(t), Due(t) + 1}
    BY <2>1 DEF Due, Idle
  <2> QED BY <2>1, <2>2, QuietMoves
<1>3. CASE OldestTries(s) /\ ~Room(s)
  <2>1. UNCHANGED <<visit, payload, channel, actor, working, handled>>
    BY <1>3 DEF OldestTries
  <2> QED BY <2>1, QuietMoves DEF Due
<1>4. CASE BlockSends(s) \/ NewestTries(s) \/ (OldestTries(s) /\ Room(s)) \/ OldestRetries(s)
  <2>1. Visiting(s) /\ ((Room(s) /\ Enqueue(s)) \/ Discard(s))
    BY <1>4 DEF BlockSends, NewestTries, OldestTries, OldestRetries
  <2> QED BY <2>1, EnqueueMoves, DiscardMoves
<1> QED BY <1>1, <1>2, <1>3, <1>4

LEMMA ReceiveMoves == ASSUME IInv, NEW s \in Sink, Receive(s) PROVE Queues!Next
<1>1. /\ actor[s] = "receiving" /\ channel[s] # <<>>
      /\ working' = [working EXCEPT ![s] = Head(channel[s])]
      /\ channel' = [channel EXCEPT ![s] = Tail(@)]
      /\ actor' = [actor EXCEPT ![s] = "consuming"]
      /\ UNCHANGED <<visit, payload, handled>>
  BY DEF Receive
<1>2. /\ channel \in [Sink -> Seq(Payload)] /\ working \in [Sink -> Payload \cup {None}]
      /\ actor \in [Sink -> {"receiving", "consuming", "panicked", "aborted"}]
      /\ working[s] = None
  BY <1>1 DEF IInv, Base, TypeOK, Works
<1>3. /\ working'[s] = Head(channel[s]) /\ channel'[s] = Tail(channel[s]) /\ actor'[s] = "consuming"
      /\ \A t \in Sink \ {s} : working'[t] = working[t] /\ channel'[t] = channel[t]
                               /\ actor'[t] = actor[t]
  BY <1>1, <1>2
<1>4. \A t \in Sink : Due(t)' = Due(t)
  BY <1>1 DEF Due
<1>5. Moves(s)
  <2>1. Head(channel[s]) # None
    BY <1>1, <1>2, HeadTailProperties, Numbers
  <2>2. ToSet(channel[s]) = {Head(channel[s])} \cup ToSet(Tail(channel[s]))
    BY <1>1, <1>2, ToSetHead
  <2>3. Waiting(s)' = Waiting(s) /\ Open(s)' = Open(s)
    BY <1>1, <1>2, <1>3, <2>1, <2>2 DEF Waiting, Open
  <2> QED BY <1>1, <1>4, <2>3, QueueSteps DEF Moves, Seen
<1>6. \A t \in Sink \ {s} : Moves(t)
  BY <1>1, <1>3, <1>4, StayMoves
<1> QED BY <1>5, <1>6, RouterStep

LEMMA SinkReturnsMoves == ASSUME IInv, NEW s \in Sink, SinkReturns(s) PROVE Queues!Next
<1>1. /\ actor[s] = "consuming"
      /\ handled' = [handled EXCEPT ![s] = Append(@, working[s])]
      /\ working' = [working EXCEPT ![s] = None]
      /\ actor' = [actor EXCEPT ![s] = "receiving"]
      /\ UNCHANGED <<visit, payload, channel>>
  BY DEF SinkReturns
<1>2. /\ channel[s] \in Seq(Payload) /\ handled[s] \in Seq(Payload) /\ working[s] \in Payload
      /\ working[s] # None
  BY <1>1 DEF IInv, Base, TypeOK, Works
<1>3. /\ working'[s] = None /\ handled'[s] = Append(handled[s], working[s])
      /\ actor'[s] = "receiving"
      /\ \A t \in Sink \ {s} : working'[t] = working[t] /\ handled'[t] = handled[t]
                               /\ actor'[t] = actor[t]
  BY <1>1 DEF IInv, Base, TypeOK
<1>4. \A t \in Sink : Due(t)' = Due(t)
  BY <1>1 DEF Due
<1>5. Moves(s)
  <2>1. Increasing((handled[s] \o <<working[s]>>) \o channel[s])
    BY <1>2 DEF IInv, Orderly, Line
  <2>2. ToSet(channel[s]) \subseteq Nat /\ working[s] \in Nat /\ \A x \in ToSet(channel[s]) : working[s] < x
    BY <1>2, <2>1, FrontIsLeast, Numbers
  <2>3. /\ working[s] \in Waiting(s) /\ \A x \in Waiting(s) : working[s] <= x
        /\ Waiting(s)' = Waiting(s) \ {working[s]} /\ Open(s) = TRUE /\ Open(s)' = TRUE
    BY <1>1, <1>2, <1>3, <2>2 DEF Waiting, Open
  <2> QED BY <1>3, <1>4, <2>3, QueueSteps DEF Moves, Seen
<1>6. \A t \in Sink \ {s} : Moves(t)
  BY <1>1, <1>3, <1>4, StayMoves
<1> QED BY <1>5, <1>6, RouterStep

LEMMA SinkPanicsMoves == ASSUME IInv, NEW s \in Sink, SinkPanics(s) PROVE Queues!Next
<1>1. /\ actor' = [actor EXCEPT ![s] = "panicked"] /\ channel' = [channel EXCEPT ![s] = <<>>]
      /\ working' = [working EXCEPT ![s] = None] /\ UNCHANGED <<visit, payload, handled>>
  BY DEF SinkPanics
<1>2. /\ actor'[s] = "panicked"
      /\ \A t \in Sink \ {s} : working'[t] = working[t] /\ channel'[t] = channel[t]
                               /\ actor'[t] = actor[t]
  BY <1>1 DEF IInv, Base, TypeOK
<1>3. \A t \in Sink : Due(t)' = Due(t)
  BY <1>1 DEF Due
<1>4. Moves(s)
  BY <1>1, <1>2, <1>3, DeathMoves DEF Open
<1>5. \A t \in Sink \ {s} : Moves(t)
  BY <1>1, <1>2, <1>3, StayMoves
<1> QED BY <1>4, <1>5, RouterStep

LEMMA DropRouterMoves == ASSUME IInv, DropRouter PROVE Queues!Next
<1>1. /\ actor' = [s \in Sink |-> IF Open(s) THEN "aborted" ELSE actor[s]]
      /\ UNCHANGED <<visit, payload, handled>>
  BY DEF DropRouter
<1>2. \A s \in Sink : ~Open(s)' /\ Due(s)' = Due(s)
  BY <1>1 DEF Open, Due
<1> QED BY <1>1, <1>2, DeathMoves, RouterStep

(* Whatever the policies, the sinks, their errors and their panics, the    *)
(* router implements one LossyQueue per sink.                              *)
THEOREM RouterImplementsQueues == Spec => ImplementsQueues
<1>1. Init => Queues!Init
  <2> SUFFICES ASSUME Init PROVE Queues!Init
    OBVIOUS
  <2>1. /\ visit = Idle /\ payload = None
        /\ channel = [s \in Sink |-> <<>>] /\ actor = [s \in Sink |-> "receiving"]
        /\ working = [s \in Sink |-> None] /\ handled = [s \in Sink |-> <<>>]
    BY DEF Init
  <2>2. ASSUME NEW s \in Sink
        PROVE  Due(s) = 0 /\ Waiting(s) = {} /\ handled[s] = <<>> /\ Open(s) = TRUE
    BY <2>1, Numbers DEF Due, Waiting, Open, Idle, None, ToSet
  <2>3. queueOf = [s \in Sink |-> Queues!Queue(Due(s), Waiting(s), handled[s], ~Open(s))]
    BY DEF queueOf, Waiting, Queues!Queue
  <2>4. queueOf = [s \in Sink |-> Queues!Queue(0, {}, <<>>, FALSE)]
    BY <2>2, <2>3
  <2> QED BY <2>4 DEF Queues!Init
<1>2. IInv /\ [Next]_vars => [Queues!Next]_queueOf
  <2>1. CASE UNCHANGED vars
    BY <2>1 DEF vars, queueOf, Due, Open
  <2>2. ASSUME IInv, Consume PROVE Queues!Next
    <3>1. /\ visit = Idle /\ visit' = 1 /\ payload' = payload + 1 /\ payload \in Nat
          /\ UNCHANGED <<channel, actor, working, handled>>
      BY <2>2, Numbers DEF Consume, IInv, Base, TypeOK, None
    <3>2. ASSUME NEW s \in Sink PROVE Due(s)' = Due(s)
      <4>1. s \in Nat \ {0}
        BY Numbers
      <4> QED BY <3>1, <4>1 DEF Due, Idle
    <3> QED BY <2>2, <3>1, <3>2, QuietMoves
  <2>3. ASSUME IInv, Next PROVE Queues!Next
    BY <2>2, <2>3, RouteMoves, DropRouterMoves, ReceiveMoves, SinkReturnsMoves, SinkPanicsMoves
       DEF Next, Act
  <2> QED BY <2>1, <2>3
<1>3. Spec => []IInv
  BY InitInv, NextInv, PTL DEF Spec
<1> QED BY <1>1, <1>2, <1>3, PTL DEF Spec, ImplementsQueues, Queues!Spec
=============================================================================
