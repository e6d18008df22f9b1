---------------------------- MODULE IngestProofs ----------------------------
(***************************************************************************)
(* Proofs about Ingest, for any manifests, hosts and streams, any number   *)
(* of packets and any delay of libav's stages:                             *)
(*   - no stage of an attempt is ever offered more than it takes, and what *)
(*     is sent is in order and complete (IInv, LInv: the stages, back to   *)
(*     front, are one line of frames);                                     *)
(*   - a graph that runs was compiled for this host, has what it uses and  *)
(*     fits its limit (FInv: what a builder carries and what an engine has *)
(*     started have been vetted by the compiler on the way they came).     *)
(***************************************************************************)
EXTENDS Ingest, SequenceTheorems, WellFoundedInduction, TLAPS

Places == {"idle", "read", "packet", "decode", "filter", "encode", "done", "failed"}

(* How full a stage may be where the attempt stands.                       *)
Roomy(stage) == Len(stage) <= Delay
Bounded(stage) == Len(stage) <= Delay + 1

Drained ==
  /\ decoder \in Seq(Nat) /\ filter \in Seq(Nat) /\ encoder \in Seq(Nat)
  /\ read \in Nat /\ pc \in Places
  /\ Bounded(decoder) /\ Bounded(encoder)
  /\ pc \in {"idle", "read", "packet"} => Roomy(decoder)
  /\ pc \notin {"encode", "failed"} => Roomy(encoder)

IInv == Drained /\ NeverRefused

LEMMA Limits == Delay \in Nat
BY AttemptConstants

LEMMA InitInv == Init => IInv
<1> SUFFICES ASSUME Init PROVE IInv
  OBVIOUS
<1>1. /\ pc = "idle" /\ failure = "none" /\ read = 0
      /\ decoder = <<>> /\ filter = <<>> /\ encoder = <<>>
  BY DEF Init, AttemptInit
<1>2. <<>> \in Seq(Nat) /\ Len(<<>>) = 0 /\ 0 <= Delay /\ 0 <= Delay + 1
  BY Limits
<1> QED BY <1>1, <1>2 DEF IInv, Drained, Places, Roomy, Bounded, NeverRefused

LEMMA Fed == ASSUME NEW q \in Seq(Nat), NEW e \in Nat
             PROVE  Append(q, e) \in Seq(Nat) /\ Len(Append(q, e)) = Len(q) + 1 /\ Len(q) \in Nat
BY AppendProperties, LenProperties

LEMMA Taken == ASSUME NEW q \in Seq(Nat), q # <<>>
               PROVE  /\ Head(q) \in Nat /\ Tail(q) \in Seq(Nat)
                      /\ Len(Tail(q)) = Len(q) - 1 /\ Len(q) \in Nat
BY HeadTailProperties, LenProperties

(* Steps that leave the stages alone.                                      *)
LEMMA QuietInv ==
  ASSUME IInv, UNCHANGED <<decoder, filter, encoder>>, read' \in Nat, pc' \in Places,
         failure' # "refused",
         pc' \in {"idle", "read", "packet"} => Roomy(decoder),
         pc' \notin {"encode", "failed"} => Roomy(encoder)
  PROVE  IInv'
BY DEF IInv, Drained, NeverRefused, Roomy, Bounded

LEMMA ControlInv ==
  ASSUME IInv,
         \/ TakePacket \/ EndInput \/ MediaFails \/ Cancel \/ DropReceiver
         \/ \E p \in stream.payloads : DemuxPacket(p)
  PROVE  IInv'
<1>0. read \in Nat /\ pc \in Places /\ failure # "refused"
  BY DEF IInv, Drained, NeverRefused
<1>1. CASE TakePacket
  <2>1. /\ pc = "read" /\ pc' = "packet" /\ failure' = failure
        /\ UNCHANGED <<decoder, filter, encoder, read>>
    BY <1>1 DEF TakePacket, Goto, stages
  <2> QED BY <1>0, <2>1, QuietInv DEF IInv, Drained, Places
<1>2. CASE EndInput
  <2>1. /\ pc = "read" /\ pc' \in {"done", "decode"} /\ failure' = failure
        /\ UNCHANGED <<decoder, filter, encoder, read>>
    BY <1>2 DEF EndInput, Goto, stages
  <2> QED BY <1>0, <2>1, QuietInv DEF IInv, Drained, Places
<1>3. CASE MediaFails
  <2>1. /\ pc' = "failed" /\ failure' = "media" /\ UNCHANGED <<decoder, filter, encoder, read>>
    BY <1>3 DEF MediaFails, Fail, stages
  <2> QED BY <1>0, <2>1, QuietInv DEF Places
<1>4. CASE Cancel \/ DropReceiver
  <2>1. UNCHANGED <<pc, failure, decoder, filter, encoder, read>>
    BY <1>4 DEF Cancel, DropReceiver, stages
  <2> QED BY <1>0, <2>1, QuietInv DEF IInv, Drained
<1>5. ASSUME NEW p \in stream.payloads, DemuxPacket(p) PROVE IInv'
  <2>1. /\ pc = "packet" /\ UNCHANGED <<decoder, filter, encoder>>
        /\ read' = read \/ read' = read + 1
        /\ \/ pc' = "failed" /\ failure' = "payload"
           \/ pc' \in {"read", "done"} /\ failure' = failure
    BY <1>5 DEF DemuxPacket, Fail, Goto, stages
  <2> QED BY <1>0, <2>1, QuietInv DEF IInv, Drained, Places
<1> QED BY <1>1, <1>2, <1>3, <1>4, <1>5

(* The decoder is fed after it was drained, or was just relieved of a      *)
(* frame that could not be decoded.                                        *)
LEMMA DecoderInv ==
  ASSUME IInv, SendPacket \/ ReceiveDecoded \/ DecoderDry \/ DecodeError PROVE IInv'
<1>0. /\ read \in Nat /\ pc \in Places /\ failure # "refused"
      /\ decoder \in Seq(Nat) /\ filter \in Seq(Nat) /\ encoder \in Seq(Nat)
      /\ Len(decoder) <= Delay + 1 /\ Len(encoder) <= Delay + 1 /\ Len(decoder) \in Nat
      /\ pc \notin {"encode", "failed"} => Len(encoder) <= Delay
  BY LenProperties DEF IInv, Drained, NeverRefused, Bounded, Roomy
<1>1. CASE SendPacket
  <2>1. pc = "packet" /\ Len(decoder) <= Delay /\ ~Refuses(decoder)
    BY <1>0, <1>1, Limits DEF SendPacket, IInv, Drained, Roomy, Refuses
  <2>2. /\ pc' = "decode" /\ failure' = failure /\ read' = read + 1 /\ encoder' = encoder
        /\ decoder' = Append(decoder, read') /\ filter' = filter
    BY <1>1, <2>1 DEF SendPacket, Goto
  <2>3. read' \in Nat
    BY <1>0, <2>2
  <2>4. decoder' \in Seq(Nat) /\ Len(decoder') = Len(decoder) + 1
    BY <1>0, <2>2, <2>3, Fed
  <2>5. Len(decoder') <= Delay + 1
    BY <1>0, <2>1, <2>4, Limits
  <2> QED BY <1>0, <2>1, <2>2, <2>3, <2>4, <2>5 DEF IInv, Drained, NeverRefused, Bounded, Roomy, Places
<1>2. CASE ReceiveDecoded
  <2>1. /\ pc = "decode" /\ decoder # <<>> /\ decoder' = Tail(decoder)
        /\ filter' = Append(filter, Head(decoder)) /\ pc' = "filter"
        /\ UNCHANGED <<failure, read, encoder>>
    BY <1>2 DEF ReceiveDecoded, Goto
  <2>2. /\ decoder' \in Seq(Nat) /\ Len(decoder') = Len(decoder) - 1 /\ filter' \in Seq(Nat)
    BY <1>0, <2>1, Taken, Fed
  <2>3. Len(decoder') <= Delay + 1
    BY <1>0, <2>2, Limits
  <2> QED BY <1>0, <2>1, <2>2, <2>3 DEF IInv, Drained, NeverRefused, Bounded, Roomy, Places
<1>3. ASSUME DecodedAll, pc = "decode", UNCHANGED <<filter, encoder, read>>, decoder' \in Seq(Nat),
             Len(decoder') <= Delay + 1, phase = "input" => Len(decoder') <= Delay
      PROVE  IInv'
  <2>1. /\ failure' = failure /\ pc' \in {"read", "filter"} /\ (pc' = "read" => phase = "input")
    BY <1>3 DEF DecodedAll, Goto
  <2> QED BY <1>0, <1>3, <2>1 DEF IInv, Drained, NeverRefused, Bounded, Roomy, Places
<1>4. CASE DecoderDry
  <2>1. /\ pc = "decode" /\ DecodedAll /\ UNCHANGED <<decoder, filter, encoder, read>>
        /\ phase = "input" => Len(decoder) <= Delay
    BY <1>4 DEF DecoderDry, Dry, DecoderEnded, stages
  <2> QED BY <1>0, <1>3, <2>1
<1>5. CASE DecodeError
  <2>1. /\ pc = "decode" /\ DecodedAll /\ UNCHANGED <<filter, encoder, read>> /\ decoder # <<>>
        /\ decoder' = IF DecoderEnded THEN <<>> ELSE Tail(decoder)
    BY <1>5 DEF DecodeError, LeftByError
  <2>2. CASE DecoderEnded
    <3>1. <<>> \in Seq(Nat) /\ Len(<<>>) = 0 /\ phase # "input" /\ decoder' = <<>>
      BY <2>1, <2>2 DEF DecoderEnded
    <3>2. Len(decoder') <= Delay + 1
      BY <3>1, Limits
    <3> QED BY <1>3, <2>1, <3>1, <3>2
  <2>3. CASE ~DecoderEnded
    <3>1. decoder' \in Seq(Nat) /\ Len(decoder') = Len(decoder) - 1
      BY <1>0, <2>1, <2>3, Taken
    <3>2. Len(decoder') <= Delay + 1 /\ Len(decoder') <= Delay
      BY <1>0, <3>1, Limits
    <3> QED BY <1>3, <2>1, <3>1, <3>2
  <2> QED BY <2>2, <2>3
<1> QED BY <1>1, <1>2, <1>4, <1>5

(* The encoder is fed between two drains, and a drain that an error or a   *)
(* packet nobody receives cuts short has taken that packet out.            *)
LEMMA EncoderInv ==
  ASSUME IInv,
         \/ ReceiveFiltered \/ FilterDry \/ FilterError
         \/ ReceiveEncoded \/ EncoderDry \/ EncoderError
  PROVE  IInv'
<1>0. /\ read \in Nat /\ pc \in Places /\ failure # "refused"
      /\ decoder \in Seq(Nat) /\ filter \in Seq(Nat) /\ encoder \in Seq(Nat)
      /\ Len(decoder) <= Delay + 1 /\ Len(encoder) <= Delay + 1 /\ Len(encoder) \in Nat
      /\ pc \notin {"encode", "failed"} => Len(encoder) <= Delay
  BY LenProperties DEF IInv, Drained, NeverRefused, Bounded, Roomy
<1>1. CASE ReceiveFiltered
  <2>1. pc = "filter" /\ filter # <<>> /\ Len(encoder) <= Delay /\ ~Refuses(encoder)
    BY <1>0, <1>1, Limits DEF ReceiveFiltered, Refuses
  <2>2. /\ filter' = Tail(filter) /\ encoder' = Append(encoder, Head(filter)) /\ pc' = "encode"
        /\ UNCHANGED <<failure, read, decoder>>
    BY <1>1, <2>1 DEF ReceiveFiltered, Goto
  <2>3. /\ filter' \in Seq(Nat) /\ encoder' \in Seq(Nat) /\ Len(encoder') = Len(encoder) + 1
    BY <1>0, <2>1, <2>2, Taken, Fed
  <2>4. Len(encoder') <= Delay + 1
    BY <1>0, <2>1, <2>3, Limits
  <2> QED BY <1>0, <2>2, <2>3, <2>4 DEF IInv, Drained, NeverRefused, Bounded, Roomy, Places
<1>2. CASE FilterDry
  <2>1. /\ pc = "filter" /\ pc' \in {"encode", "decode"} /\ failure' = failure
        /\ UNCHANGED <<read, decoder, filter, encoder>>
    BY <1>2 DEF FilterDry, FilteredAll, Goto, stages
  <2> QED BY <1>0, <2>1, QuietInv DEF IInv, Drained, Places
<1>3. CASE ReceiveEncoded
  <2>1. /\ encoder # <<>> /\ encoder' = Tail(encoder)
        /\ pc' \in {"encode", "done", "filter"} /\ UNCHANGED <<failure, read, decoder, filter>>
    BY <1>3 DEF ReceiveEncoded, EncodedAll, Goto
  <2>2. encoder' \in Seq(Nat) /\ Len(encoder') = Len(encoder) - 1
    BY <1>0, <2>1, Taken
  <2>3. Len(encoder') <= Delay /\ Len(encoder') <= Delay + 1
    BY <1>0, <2>2, Limits
  <2> QED BY <1>0, <2>1, <2>2, <2>3 DEF IInv, Drained, NeverRefused, Bounded, Roomy, Places
<1>4. CASE EncoderDry
  <2>1. /\ pc = "encode" /\ pc' \in {"done", "filter"}
        /\ UNCHANGED <<failure, read, decoder, filter, encoder>>
        /\ Len(encoder) <= Delay \/ encoder = <<>>
    BY <1>4 DEF EncoderDry, EncodedAll, Dry, Goto, stages
  <2>2. Len(encoder) <= Delay
    BY <2>1, Limits
  <2> QED BY <1>0, <2>1, <2>2, QuietInv DEF Roomy, Places
<1>5. ASSUME NEW q \in Seq(Nat), q # <<>>, NEW ended
      PROVE  /\ LeftByError(q, ended) \in Seq(Nat)
             /\ Len(q) <= Delay + 1 => Len(LeftByError(q, ended)) <= Delay
  <2>1. CASE ended
    BY <2>1, EmptySeq, Limits DEF LeftByError
  <2>2. CASE ~ended
    BY <1>5, <2>2, Taken, Limits DEF LeftByError
  <2> QED BY <2>1, <2>2
<1>6. CASE FilterError
  <2>1. /\ pc = "filter" /\ pc' \in {"encode", "decode"} /\ failure' = failure
        /\ filter' \in Seq(Nat) /\ UNCHANGED <<read, decoder, encoder>>
    BY <1>0, <1>5, <1>6 DEF FilterError, FilteredAll, Goto
  <2> QED BY <1>0, <2>1 DEF IInv, Drained, NeverRefused, Bounded, Roomy, Places
<1>7. CASE EncoderError
  <2>1. /\ pc' \in {"done", "filter"} /\ failure' = failure
        /\ encoder' \in Seq(Nat) /\ Len(encoder') <= Delay /\ UNCHANGED <<read, decoder, filter>>
    BY <1>0, <1>5, <1>7 DEF EncoderError, EncodedAll, Goto
  <2>2. Len(encoder') <= Delay + 1
    BY <2>1, Limits, LenProperties
  <2> QED BY <1>0, <2>1, <2>2 DEF IInv, Drained, NeverRefused, Bounded, Roomy, Places
<1> QED BY <1>1, <1>2, <1>3, <1>4, <1>6, <1>7

(* The program before a worker is followed leaves the stages alone, and an *)
(* input that opens or does not leaves them empty or as they were.         *)
LEMMA OpenInv ==
  ASSUME IInv, NEW i \in DOMAIN built, StartAttempt(i) PROVE IInv'
<1>1. pc = "idle" /\ OpenInput(engine[1].graph.pipelines[i])
  BY DEF StartAttempt
<1>2. /\ UNCHANGED <<decoder, filter, encoder, read>>
      /\ pc' \in {"read", "failed"} /\ failure' # "refused"
  BY <1>1 DEF OpenInput, OpenDemux, OpenTranscode, Fail, Goto, stages, IInv, NeverRefused
<1> QED BY <1>1, <1>2, QuietInv DEF IInv, Drained, Places

LEMMA NextInv == ASSUME IInv, [Next]_vars PROVE IInv'
<1>1. CASE UNCHANGED attemptVars
  <2>1. UNCHANGED <<pc, failure, decoder, filter, encoder, read>>
    BY <1>1 DEF attemptVars, stages
  <2> QED BY <2>1, QuietInv DEF IInv, Drained, NeverRefused
<1>2. CASE \E i \in DOMAIN built : StartAttempt(i)
  BY <1>2, OpenInv
<1>3. CASE AttemptNext
  BY <1>3, ControlInv, DecoderInv, EncoderInv DEF AttemptNext
<1> QED BY <1>1, <1>2, <1>3 DEF Next, vars

LEMMA Inductive == Spec => []IInv
BY InitInv, NextInv, PTL DEF Spec

(* No stage of libav ever refuses what transcode_packets and its three     *)
(* draining loops feed it, whatever fails to decode and whenever the       *)
(* source goes away.                                                       *)
THEOREM NothingIsRefused == Spec => []NeverRefused
<1>1. IInv => NeverRefused
  BY DEF IInv
<1> QED BY <1>1, Inductive, PTL
-----------------------------------------------------------------------------
(* What is sent and what waits in the stages, as one line of frames.       *)

Before(A, B) == \A a \in A, b \in B : a < b

(* The frames sent and the stages back to front are one line: each in      *)
(* order, each before the next, together all that was read and not lost.   *)
Line(s, e, f, d, n, l) ==
  /\ s \in Seq(Nat) /\ e \in Seq(Nat) /\ f \in Seq(Nat) /\ d \in Seq(Nat)
  /\ n \in Nat /\ l \subseteq 1 .. n
  /\ Increasing(s) /\ Increasing(e) /\ Increasing(f) /\ Increasing(d)
  /\ Before(ToSet(s), ToSet(e)) /\ Before(ToSet(s), ToSet(f)) /\ Before(ToSet(s), ToSet(d))
  /\ Before(ToSet(e), ToSet(f)) /\ Before(ToSet(e), ToSet(d)) /\ Before(ToSet(f), ToSet(d))
  /\ ToSet(s) \cup ToSet(e) \cup ToSet(f) \cup ToSet(d) = (1 .. n) \ l

LEMMA SetOf == ASSUME NEW q \in Seq(Nat)
               PROVE  /\ ToSet(q) = {q[i] : i \in 1 .. Len(q)} /\ ToSet(q) \subseteq Nat
                      /\ DOMAIN q = 1 .. Len(q) /\ Len(q) \in Nat /\ (Len(q) = 0 <=> q = <<>>)
BY LenProperties, EmptySeq DEF ToSet

LEMMA NoFrames == /\ <<>> \in Seq(Nat) /\ Len(<<>>) = 0 /\ ToSet(<<>>) = {} /\ Increasing(<<>>)
<1>1. <<>> \in Seq(Nat) /\ Len(<<>>) = 0
  BY EmptySeq
<1>2. DOMAIN <<>> = 1 .. 0
  BY <1>1, LenProperties
<1>3. DOMAIN <<>> = {}
  BY <1>2
<1> QED BY <1>1, <1>3 DEF Increasing, ToSet

LEMMA Appended ==
  ASSUME NEW q \in Seq(Nat), NEW x \in Nat, Increasing(q), Before(ToSet(q), {x})
  PROVE  /\ Append(q, x) \in Seq(Nat) /\ ToSet(Append(q, x)) = ToSet(q) \cup {x}
         /\ Increasing(Append(q, x))
<1> DEFINE r == Append(q, x)
<1>1. /\ r \in Seq(Nat) /\ Len(r) = Len(q) + 1 /\ r[Len(q) + 1] = x /\ Len(q) \in Nat
      /\ \A i \in 1 .. Len(q) : r[i] = q[i]
  BY AppendProperties, LenProperties
<1> HIDE DEF r
<1>2. /\ ToSet(r) = {r[i] : i \in 1 .. Len(r)} /\ ToSet(q) = {q[i] : i \in 1 .. Len(q)}
      /\ DOMAIN r = 1 .. Len(r) /\ DOMAIN q = 1 .. Len(q)
  BY <1>1, SetOf
<1>3. 1 .. Len(r) = (1 .. Len(q)) \cup {Len(q) + 1}
  BY <1>1
<1>4. ToSet(r) = ToSet(q) \cup {x}
  BY <1>1, <1>2, <1>3
<1>5. ASSUME NEW i \in 1 .. Len(r), NEW j \in 1 .. Len(r), i < j PROVE r[i] < r[j]
  <2>1. i \in 1 .. Len(q)
    BY <1>1, <1>3, <1>5
  <2>2. CASE j \in 1 .. Len(q)
    BY <1>1, <1>2, <1>5, <2>1, <2>2 DEF Increasing
  <2>3. CASE j = Len(q) + 1
    <3>1. q[i] \in ToSet(q)
      BY <1>2, <2>1
    <3> QED BY <1>1, <2>1, <2>3, <3>1 DEF Before
  <2> QED BY <1>3, <2>2, <2>3
<1>6. Increasing(r)
  BY <1>2, <1>5 DEF Increasing
<1> QED BY <1>1, <1>4, <1>6 DEF r

LEMMA Beheaded ==
  ASSUME NEW q \in Seq(Nat), q # <<>>, Increasing(q)
  PROVE  /\ Head(q) \in Nat /\ Tail(q) \in Seq(Nat) /\ Increasing(Tail(q))
         /\ ToSet(q) = {Head(q)} \cup ToSet(Tail(q)) /\ Before({Head(q)}, ToSet(Tail(q)))
<1>1. /\ Head(q) \in Nat /\ Tail(q) \in Seq(Nat) /\ Len(Tail(q)) = Len(q) - 1
      /\ \A i \in 1 .. Len(Tail(q)) : Tail(q)[i] = q[i + 1]
  BY HeadTailProperties
<1>2. Head(q) = q[1] /\ Len(q) \in Nat \ {0} /\ DOMAIN q = 1 .. Len(q)
  BY SetOf
<1>3. PICK t \in Seq(Nat) : t = Tail(q)
  BY <1>1
<1>4. /\ ToSet(t) = {t[i] : i \in 1 .. Len(t)} /\ ToSet(q) = {q[i] : i \in 1 .. Len(q)}
      /\ DOMAIN t = 1 .. Len(t)
  BY SetOf
<1>5. /\ Len(t) = Len(q) - 1 /\ \A i \in 1 .. Len(t) : t[i] = q[i + 1] /\ i + 1 \in 1 .. Len(q)
      /\ \A i \in 1 .. Len(q) : i # 1 => i - 1 \in 1 .. Len(t) /\ t[i - 1] = q[i]
      /\ 1 \in 1 .. Len(q)
  BY <1>1, <1>2, <1>3
<1>6. ToSet(q) = {q[1]} \cup ToSet(t)
  <2>1. ASSUME NEW x \in ToSet(q) PROVE x = q[1] \/ x \in ToSet(t)
    <3>1. PICK i \in 1 .. Len(q) : x = q[i]
      BY <1>4
    <3>2. i # 1 => i - 1 \in 1 .. Len(t) /\ t[i - 1] = x
      BY <1>5, <3>1
    <3> QED BY <1>4, <3>1, <3>2
  <2>2. ASSUME NEW x \in ToSet(t) PROVE x \in ToSet(q)
    <3>1. PICK i \in 1 .. Len(t) : x = t[i]
      BY <1>4
    <3>2. x = q[i + 1] /\ i + 1 \in 1 .. Len(q)
      BY <1>5, <3>1
    <3> QED BY <1>4, <3>2
  <2>3. q[1] \in ToSet(q)
    BY <1>4, <1>5
  <2> QED BY <2>1, <2>2, <2>3
<1>7. \A i, j \in 1 .. Len(q) : i < j => q[i] < q[j]
  BY <1>2 DEF Increasing
<1>8. Increasing(t) /\ \A i \in 1 .. Len(t) : q[1] < t[i]
  <2>1. ASSUME NEW i \in 1 .. Len(t), NEW j \in 1 .. Len(t), i < j PROVE t[i] < t[j]
    <3>1. i + 1 \in 1 .. Len(q) /\ j + 1 \in 1 .. Len(q) /\ i + 1 < j + 1
      BY <1>5, <2>1
    <3>2. q[i + 1] < q[j + 1]
      BY <1>7, <3>1
    <3> QED BY <1>5, <3>2
  <2>2. ASSUME NEW i \in 1 .. Len(t) PROVE q[1] < t[i]
    <3>1. i + 1 \in 1 .. Len(q) /\ 1 < i + 1
      BY <1>5
    <3> QED BY <1>5, <1>7, <3>1
  <2> QED BY <1>4, <2>1, <2>2 DEF Increasing
<1>9. Before({q[1]}, ToSet(t))
  BY <1>4, <1>8 DEF Before
<1> QED BY <1>1, <1>2, <1>3, <1>6, <1>8, <1>9

(* A frame goes from one stage to the end of the next.                     *)
LEMMA Passed ==
  ASSUME NEW a \in Seq(Nat), NEW b \in Seq(Nat), b # <<>>, Increasing(a), Increasing(b),
         Before(ToSet(a), ToSet(b))
  PROVE  /\ Append(a, Head(b)) \in Seq(Nat) /\ Tail(b) \in Seq(Nat)
         /\ Increasing(Append(a, Head(b))) /\ Increasing(Tail(b))
         /\ Before(ToSet(Append(a, Head(b))), ToSet(Tail(b)))
         /\ ToSet(Append(a, Head(b))) = ToSet(a) \cup {Head(b)}
         /\ ToSet(b) = {Head(b)} \cup ToSet(Tail(b)) /\ Head(b) \in ToSet(b)
<1>1. /\ Head(b) \in Nat /\ Tail(b) \in Seq(Nat) /\ Increasing(Tail(b))
      /\ ToSet(b) = {Head(b)} \cup ToSet(Tail(b)) /\ Before({Head(b)}, ToSet(Tail(b)))
  BY Beheaded
<1>2. Before(ToSet(a), {Head(b)}) /\ Before(ToSet(a), ToSet(Tail(b)))
  BY <1>1 DEF Before
<1>3. /\ Append(a, Head(b)) \in Seq(Nat) /\ ToSet(Append(a, Head(b))) = ToSet(a) \cup {Head(b)}
      /\ Increasing(Append(a, Head(b)))
  BY <1>1, <1>2, Appended
<1>4. Before(ToSet(a) \cup {Head(b)}, ToSet(Tail(b)))
  BY <1>1, <1>2 DEF Before
<1> QED BY <1>1, <1>3, <1>4

LEMMA LineMoves ==
  ASSUME NEW s, NEW e, NEW f, NEW d, NEW n, NEW l, Line(s, e, f, d, n, l)
  PROVE  /\ e # <<>> => Line(Append(s, Head(e)), Tail(e), f, d, n, l)
         /\ f # <<>> => Line(s, Append(e, Head(f)), Tail(f), d, n, l)
         /\ d # <<>> => Line(s, e, Append(f, Head(d)), Tail(d), n, l)
<1>1. /\ s \in Seq(Nat) /\ e \in Seq(Nat) /\ f \in Seq(Nat) /\ d \in Seq(Nat)
      /\ n \in Nat /\ l \subseteq 1 .. n
      /\ Increasing(s) /\ Increasing(e) /\ Increasing(f) /\ Increasing(d)
      /\ Before(ToSet(s), ToSet(e)) /\ Before(ToSet(s), ToSet(f)) /\ Before(ToSet(s), ToSet(d))
      /\ Before(ToSet(e), ToSet(f)) /\ Before(ToSet(e), ToSet(d)) /\ Before(ToSet(f), ToSet(d))
      /\ ToSet(s) \cup ToSet(e) \cup ToSet(f) \cup ToSet(d) = (1 .. n) \ l
  BY DEF Line
<1>2. ASSUME e # <<>> PROVE Line(Append(s, Head(e)), Tail(e), f, d, n, l)
  <2> DEFINE a == Append(s, Head(e))
             b == Tail(e)
             x == Head(e)
  <2>1. /\ a \in Seq(Nat) /\ b \in Seq(Nat) /\ Increasing(a) /\ Increasing(b)
        /\ Before(ToSet(a), ToSet(b)) /\ ToSet(a) = ToSet(s) \cup {x}
        /\ ToSet(e) = {x} \cup ToSet(b)
    BY <1>1, <1>2, Passed
  <2> HIDE DEF a, b, x
  <2>2. /\ Before(ToSet(a), ToSet(f)) /\ Before(ToSet(a), ToSet(d))
        /\ Before(ToSet(b), ToSet(f)) /\ Before(ToSet(b), ToSet(d))
    BY <1>1, <2>1 DEF Before
  <2>3. ToSet(a) \cup ToSet(b) \cup ToSet(f) \cup ToSet(d) = (1 .. n) \ l
    BY <1>1, <2>1
  <2>4. Line(a, b, f, d, n, l)
    BY <1>1, <2>1, <2>2, <2>3 DEF Line
  <2> QED BY <2>4 DEF a, b
<1>3. ASSUME f # <<>> PROVE Line(s, Append(e, Head(f)), Tail(f), d, n, l)
  <2> DEFINE a == Append(e, Head(f))
             b == Tail(f)
             x == Head(f)
  <2>1. /\ a \in Seq(Nat) /\ b \in Seq(Nat) /\ Increasing(a) /\ Increasing(b)
        /\ Before(ToSet(a), ToSet(b)) /\ ToSet(a) = ToSet(e) \cup {x}
        /\ ToSet(f) = {x} \cup ToSet(b)
    BY <1>1, <1>3, Passed
  <2> HIDE DEF a, b, x
  <2>2. /\ Before(ToSet(s), ToSet(a)) /\ Before(ToSet(s), ToSet(b))
        /\ Before(ToSet(a), ToSet(d)) /\ Before(ToSet(b), ToSet(d))
    BY <1>1, <2>1 DEF Before
  <2>3. ToSet(s) \cup ToSet(a) \cup ToSet(b) \cup ToSet(d) = (1 .. n) \ l
    BY <1>1, <2>1
  <2>4. Line(s, a, b, d, n, l)
    BY <1>1, <2>1, <2>2, <2>3 DEF Line
  <2> QED BY <2>4 DEF a, b
<1>4. ASSUME d # <<>> PROVE Line(s, e, Append(f, Head(d)), Tail(d), n, l)
  <2> DEFINE a == Append(f, Head(d))
             b == Tail(d)
             x == Head(d)
  <2>1. /\ a \in Seq(Nat) /\ b \in Seq(Nat) /\ Increasing(a) /\ Increasing(b)
        /\ Before(ToSet(a), ToSet(b)) /\ ToSet(a) = ToSet(f) \cup {x}
        /\ ToSet(d) = {x} \cup ToSet(b)
    BY <1>1, <1>4, Passed
  <2> HIDE DEF a, b, x
  <2>2. /\ Before(ToSet(s), ToSet(a)) /\ Before(ToSet(s), ToSet(b))
        /\ Before(ToSet(e), ToSet(a)) /\ Before(ToSet(e), ToSet(b))
    BY <1>1, <2>1 DEF Before
  <2>3. ToSet(s) \cup ToSet(e) \cup ToSet(a) \cup ToSet(b) = (1 .. n) \ l
    BY <1>1, <2>1
  <2>4. Line(s, e, a, b, n, l)
    BY <1>1, <2>1, <2>2, <2>3 DEF Line
  <2> QED BY <2>4 DEF a, b
<1> QED BY <1>2, <1>3, <1>4

(* The next packet joins the line at its end: at the decoder, or, where    *)
(* there are no stages, by being sent.                                     *)
LEMMA LineGrows ==
  ASSUME NEW s, NEW e, NEW f, NEW d, NEW n, NEW l, Line(s, e, f, d, n, l)
  PROVE  /\ Line(s, e, f, Append(d, n + 1), n + 1, l)
         /\ e = <<>> /\ f = <<>> /\ d = <<>> => Line(Append(s, n + 1), e, f, d, n + 1, l)
<1>1. /\ s \in Seq(Nat) /\ e \in Seq(Nat) /\ f \in Seq(Nat) /\ d \in Seq(Nat)
      /\ n \in Nat /\ l \subseteq 1 .. n
      /\ Increasing(s) /\ Increasing(e) /\ Increasing(f) /\ Increasing(d)
      /\ Before(ToSet(s), ToSet(e)) /\ Before(ToSet(s), ToSet(f)) /\ Before(ToSet(s), ToSet(d))
      /\ Before(ToSet(e), ToSet(f)) /\ Before(ToSet(e), ToSet(d)) /\ Before(ToSet(f), ToSet(d))
      /\ ToSet(s) \cup ToSet(e) \cup ToSet(f) \cup ToSet(d) = (1 .. n) \ l
  BY DEF Line
<1>2. /\ \A x \in (1 .. n) \ l : x < n + 1
      /\ n + 1 \in Nat /\ l \subseteq 1 .. n + 1 /\ (1 .. n + 1) \ l = ((1 .. n) \ l) \cup {n + 1}
  <2>1. n \in Nat /\ l \subseteq 1 .. n
    BY <1>1
  <2>2. /\ n + 1 \in Nat /\ 1 .. n + 1 = (1 .. n) \cup {n + 1} /\ n + 1 \notin 1 .. n
        /\ \A x \in 1 .. n : x < n + 1
    BY <2>1
  <2> QED BY <2>1, <2>2
<1>3. /\ Before(ToSet(s), {n + 1}) /\ Before(ToSet(e), {n + 1})
      /\ Before(ToSet(f), {n + 1}) /\ Before(ToSet(d), {n + 1})
  BY <1>1, <1>2 DEF Before
<1>4. Line(s, e, f, Append(d, n + 1), n + 1, l)
  <2> DEFINE a == Append(d, n + 1)
  <2>1. a \in Seq(Nat) /\ ToSet(a) = ToSet(d) \cup {n + 1} /\ Increasing(a)
    BY <1>1, <1>2, <1>3, Appended
  <2> HIDE DEF a
  <2>2. Before(ToSet(s), ToSet(a)) /\ Before(ToSet(e), ToSet(a)) /\ Before(ToSet(f), ToSet(a))
    BY <1>1, <1>3, <2>1 DEF Before
  <2>3. ToSet(s) \cup ToSet(e) \cup ToSet(f) \cup ToSet(a) = (1 .. n + 1) \ l
    BY <1>1, <1>2, <2>1
  <2>4. Line(s, e, f, a, n + 1, l)
    BY <1>1, <1>2, <2>1, <2>2, <2>3 DEF Line
  <2> QED BY <2>4 DEF a
<1>5. ASSUME e = <<>>, f = <<>>, d = <<>> PROVE Line(Append(s, n + 1), e, f, d, n + 1, l)
  <2> DEFINE a == Append(s, n + 1)
  <2>1. a \in Seq(Nat) /\ ToSet(a) = ToSet(s) \cup {n + 1} /\ Increasing(a)
    BY <1>1, <1>2, <1>3, Appended
  <2> HIDE DEF a
  <2>2. ToSet(e) = {} /\ ToSet(f) = {} /\ ToSet(d) = {}
    BY <1>5, NoFrames
  <2>3. Before(ToSet(a), ToSet(e)) /\ Before(ToSet(a), ToSet(f)) /\ Before(ToSet(a), ToSet(d))
    BY <2>2 DEF Before
  <2>4. ToSet(a) \cup ToSet(e) \cup ToSet(f) \cup ToSet(d) = (1 .. n + 1) \ l
    BY <1>1, <1>2, <2>1
  <2>5. Line(a, e, f, d, n + 1, l)
    BY <1>1, <1>2, <2>1, <2>3, <2>4 DEF Line
  <2> QED BY <2>5 DEF a
<1> QED BY <1>4, <1>5

(* A stage that reports an error loses a frame, or all it holds.           *)
LEMMA LineLoses ==
  ASSUME NEW s, NEW e, NEW f, NEW d, NEW n, NEW l, Line(s, e, f, d, n, l), NEW ended
  PROVE  /\ e # <<>> => Line(s, LeftByError(e, ended), f, d, n,
                            l \cup (ToSet(e) \ ToSet(LeftByError(e, ended))))
         /\ f # <<>> => Line(s, e, LeftByError(f, ended), d, n,
                            l \cup (ToSet(f) \ ToSet(LeftByError(f, ended))))
         /\ d # <<>> => Line(s, e, f, LeftByError(d, ended), n,
                            l \cup (ToSet(d) \ ToSet(LeftByError(d, ended))))
<1>1. /\ s \in Seq(Nat) /\ e \in Seq(Nat) /\ f \in Seq(Nat) /\ d \in Seq(Nat)
      /\ n \in Nat /\ l \subseteq 1 .. n
      /\ Increasing(s) /\ Increasing(e) /\ Increasing(f) /\ Increasing(d)
      /\ Before(ToSet(s), ToSet(e)) /\ Before(ToSet(s), ToSet(f)) /\ Before(ToSet(s), ToSet(d))
      /\ Before(ToSet(e), ToSet(f)) /\ Before(ToSet(e), ToSet(d)) /\ Before(ToSet(f), ToSet(d))
      /\ ToSet(s) \cup ToSet(e) \cup ToSet(f) \cup ToSet(d) = (1 .. n) \ l
  BY DEF Line
<1>2. ASSUME NEW q \in Seq(Nat), q # <<>>, Increasing(q)
      PROVE  /\ LeftByError(q, ended) \in Seq(Nat) /\ Increasing(LeftByError(q, ended))
             /\ ToSet(LeftByError(q, ended)) \subseteq ToSet(q)
  BY <1>2, NoFrames, Beheaded DEF LeftByError
<1>3. \A A, B \in SUBSET Nat : Before(A, B) => A \cap B = {}
  BY DEF Before
<1>4. /\ ToSet(s) \subseteq Nat /\ ToSet(e) \subseteq Nat
      /\ ToSet(f) \subseteq Nat /\ ToSet(d) \subseteq Nat
  BY <1>1, SetOf
<1>5. /\ ToSet(s) \cap ToSet(e) = {} /\ ToSet(s) \cap ToSet(f) = {} /\ ToSet(s) \cap ToSet(d) = {}
      /\ ToSet(e) \cap ToSet(f) = {} /\ ToSet(e) \cap ToSet(d) = {} /\ ToSet(f) \cap ToSet(d) = {}
  BY <1>1, <1>3, <1>4
<1>6. ASSUME e # <<>>, NEW r, r = LeftByError(e, ended), NEW m, m = l \cup (ToSet(e) \ ToSet(r))
      PROVE  Line(s, r, f, d, n, m)
  <2>1. r \in Seq(Nat) /\ Increasing(r) /\ ToSet(r) \subseteq ToSet(e)
    BY <1>1, <1>2, <1>6
  <2>2. Before(ToSet(s), ToSet(r)) /\ Before(ToSet(r), ToSet(f)) /\ Before(ToSet(r), ToSet(d))
    BY <1>1, <2>1 DEF Before
  <2>3. m \subseteq 1 .. n /\ ToSet(s) \cup ToSet(r) \cup ToSet(f) \cup ToSet(d) = (1 .. n) \ m
    BY <1>1, <1>5, <1>6, <2>1
  <2> QED BY <1>1, <2>1, <2>2, <2>3 DEF Line
<1>7. ASSUME f # <<>>, NEW r, r = LeftByError(f, ended), NEW m, m = l \cup (ToSet(f) \ ToSet(r))
      PROVE  Line(s, e, r, d, n, m)
  <2>1. r \in Seq(Nat) /\ Increasing(r) /\ ToSet(r) \subseteq ToSet(f)
    BY <1>1, <1>2, <1>7
  <2>2. Before(ToSet(s), ToSet(r)) /\ Before(ToSet(e), ToSet(r)) /\ Before(ToSet(r), ToSet(d))
    BY <1>1, <2>1 DEF Before
  <2>3. m \subseteq 1 .. n /\ ToSet(s) \cup ToSet(e) \cup ToSet(r) \cup ToSet(d) = (1 .. n) \ m
    BY <1>1, <1>5, <1>7, <2>1
  <2> QED BY <1>1, <2>1, <2>2, <2>3 DEF Line
<1>8. ASSUME d # <<>>, NEW r, r = LeftByError(d, ended), NEW m, m = l \cup (ToSet(d) \ ToSet(r))
      PROVE  Line(s, e, f, r, n, m)
  <2>1. r \in Seq(Nat) /\ Increasing(r) /\ ToSet(r) \subseteq ToSet(d)
    BY <1>1, <1>2, <1>8
  <2>2. Before(ToSet(s), ToSet(r)) /\ Before(ToSet(e), ToSet(r)) /\ Before(ToSet(f), ToSet(r))
    BY <1>1, <2>1 DEF Before
  <2>3. m \subseteq 1 .. n /\ ToSet(s) \cup ToSet(e) \cup ToSet(f) \cup ToSet(r) = (1 .. n) \ m
    BY <1>1, <1>5, <1>8, <2>1
  <2> QED BY <1>1, <2>1, <2>2, <2>3 DEF Line
<1> QED BY <1>6, <1>7, <1>8

LEMMA Joined ==
  ASSUME NEW a \in Seq(Nat), NEW b \in Seq(Nat), Increasing(a), Increasing(b),
         Before(ToSet(a), ToSet(b))
  PROVE  a \o b \in Seq(Nat) /\ ToSet(a \o b) = ToSet(a) \cup ToSet(b) /\ Increasing(a \o b)
<1> DEFINE r == a \o b
           m == Len(a)
           k == Len(b)
<1>1. /\ r \in Seq(Nat) /\ Len(r) = m + k /\ m \in Nat /\ k \in Nat
      /\ \A i \in 1 .. m + k : r[i] = IF i <= m THEN a[i] ELSE b[i - m]
  BY ConcatProperties, LenProperties
<1>2. /\ ToSet(a) = {a[i] : i \in 1 .. m} /\ DOMAIN a = 1 .. m
      /\ ToSet(b) = {b[i] : i \in 1 .. k} /\ DOMAIN b = 1 .. k
  BY SetOf
<1>3. ToSet(r) = {r[i] : i \in 1 .. m + k} /\ DOMAIN r = 1 .. m + k
  BY <1>1, SetOf
<1> HIDE DEF r, m, k
<1>4. /\ \A i \in 1 .. m : i \in 1 .. m + k /\ r[i] = a[i]
      /\ \A i \in 1 .. k : m + i \in 1 .. m + k /\ r[m + i] = b[i]
      /\ \A i \in 1 .. m + k : i \in 1 .. m \/ (i - m \in 1 .. k /\ r[i] = b[i - m] /\ i > m)
  <2>1. ASSUME NEW i \in 1 .. k PROVE m + i \in 1 .. m + k /\ r[m + i] = b[i]
    <3>1. m + i \in 1 .. m + k /\ ~(m + i <= m) /\ (m + i) - m = i
      BY <1>1
    <3> QED BY <1>1, <3>1
  <2> QED BY <1>1, <2>1
<1>5. ASSUME NEW x \in ToSet(r) PROVE x \in ToSet(a) \cup ToSet(b)
  BY <1>2, <1>3, <1>4, <1>5
<1>6. ASSUME NEW x \in ToSet(a) \cup ToSet(b) PROVE x \in ToSet(r)
  BY <1>2, <1>3, <1>4, <1>6
<1>7. ASSUME NEW i \in 1 .. m + k, NEW j \in 1 .. m + k, i < j PROVE r[i] < r[j]
  <2>1. CASE j \in 1 .. m
    <3>1. i \in 1 .. m
      BY <1>1, <1>7, <2>1
    <3> QED BY <1>2, <1>4, <1>7, <2>1, <3>1 DEF Increasing
  <2>2. CASE i \in 1 .. m /\ j > m
    <3>1. r[i] = a[i] /\ r[j] = b[j - m] /\ j - m \in 1 .. k
      BY <1>1, <1>4, <2>2
    <3>2. a[i] \in ToSet(a) /\ b[j - m] \in ToSet(b)
      BY <1>2, <2>2, <3>1
    <3> QED BY <3>1, <3>2 DEF Before
  <2>3. CASE i > m
    <3>1. /\ i - m \in 1 .. k /\ j - m \in 1 .. k /\ i - m < j - m
          /\ r[i] = b[i - m] /\ r[j] = b[j - m]
      BY <1>1, <1>4, <1>7, <2>3
    <3> QED BY <1>2, <3>1 DEF Increasing
  <2> QED BY <1>1, <2>1, <2>2, <2>3
<1>8. Increasing(r)
  BY <1>3, <1>7 DEF Increasing
<1> QED BY <1>1, <1>5, <1>6, <1>8 DEF r

LEMMA LineInOrder ==
  ASSUME NEW s, NEW e, NEW f, NEW d, NEW n, NEW l, Line(s, e, f, d, n, l)
  PROVE  ToSet(s \o e \o f \o d) = (1 .. n) \ l /\ Increasing(s \o e \o f \o d)
<1>1. /\ s \in Seq(Nat) /\ e \in Seq(Nat) /\ f \in Seq(Nat) /\ d \in Seq(Nat)
      /\ Increasing(s) /\ Increasing(e) /\ Increasing(f) /\ Increasing(d)
      /\ Before(ToSet(s), ToSet(e)) /\ Before(ToSet(s), ToSet(f)) /\ Before(ToSet(s), ToSet(d))
      /\ Before(ToSet(e), ToSet(f)) /\ Before(ToSet(e), ToSet(d)) /\ Before(ToSet(f), ToSet(d))
      /\ ToSet(s) \cup ToSet(e) \cup ToSet(f) \cup ToSet(d) = (1 .. n) \ l
  BY DEF Line
<1> DEFINE a == s \o e
           b == a \o f
           c == b \o d
<1>2. a \in Seq(Nat) /\ ToSet(a) = ToSet(s) \cup ToSet(e) /\ Increasing(a)
  BY <1>1, Joined
<1> HIDE DEF a
<1>3. Before(ToSet(a), ToSet(f)) /\ Before(ToSet(a), ToSet(d))
  BY <1>1, <1>2 DEF Before
<1>4. b \in Seq(Nat) /\ ToSet(b) = ToSet(a) \cup ToSet(f) /\ Increasing(b)
  BY <1>1, <1>2, <1>3, Joined
<1> HIDE DEF b
<1>5. Before(ToSet(b), ToSet(d))
  BY <1>1, <1>3, <1>4 DEF Before
<1>6. c \in Seq(Nat) /\ ToSet(c) = ToSet(b) \cup ToSet(d) /\ Increasing(c)
  BY <1>1, <1>4, <1>5, Joined
<1> HIDE DEF c
<1>7. ToSet(c) = (1 .. n) \ l
  BY <1>1, <1>2, <1>4, <1>6
<1> QED BY <1>6, <1>7 DEF a, b, c
-----------------------------------------------------------------------------
(* Where an attempt stands, and what it has told of the input's end so far *)
(* say which stages are empty.                                             *)
Phased ==
  /\ pc \in Places /\ mode \in {"none", "demux", "transcode"}
  /\ phase \in {"input", "decoder", "filter", "encoder"}
  /\ pc = "idle" => mode = "none"
  /\ mode = "none" => pc \in {"idle", "failed"}
  /\ mode = "demux" => pc \in {"read", "packet", "done", "failed"}
  /\ phase = "decoder" => pc \in {"decode", "filter", "encode", "failed"}
  /\ phase = "filter" => pc \in {"filter", "encode", "failed"}
  /\ phase = "encoder" => pc \in {"encode", "done", "failed"}

Emptied ==
  /\ mode # "transcode" => phase = "input" /\ decoder = <<>> /\ filter = <<>> /\ encoder = <<>>
  /\ phase \in {"filter", "encoder"} => decoder = <<>>
  /\ phase = "encoder" => filter = <<>>
  /\ pc = "done" /\ mode = "transcode" => phase = "encoder"
  /\ pc = "done" /\ receiver => encoder = <<>>

Lined == receiver => Line(sent, encoder, filter, decoder, read, lost)

LInv == Phased /\ Emptied /\ Lined

LEMMA InitLInv == Init => LInv
<1> SUFFICES ASSUME Init PROVE LInv
  OBVIOUS
<1>1. /\ pc = "idle" /\ mode = "none" /\ phase = "input" /\ read = 0 /\ lost = {} /\ sent = <<>>
      /\ decoder = <<>> /\ filter = <<>> /\ encoder = <<>>
  BY DEF Init, AttemptInit
<1>2. Line(<<>>, <<>>, <<>>, <<>>, 0, {})
  <2>1. Before({}, {}) /\ {} \subseteq 1 .. 0 /\ (1 .. 0) \ {} = {} /\ 0 \in Nat
    BY DEF Before
  <2> QED BY <2>1, NoFrames DEF Line
<1> QED BY <1>1, <1>2 DEF LInv, Phased, Emptied, Lined, Places

(* Steps that move no frame.                                               *)
LEMMA QuietLine ==
  ASSUME Lined, UNCHANGED <<sent, encoder, filter, decoder, read, lost>>, receiver' => receiver
  PROVE  Lined'
BY DEF Lined

LEMMA ControlLInv ==
  ASSUME LInv, TakePacket \/ EndInput \/ MediaFails \/ Cancel \/ DropReceiver PROVE LInv'
<1>0. Phased /\ Emptied /\ Lined
  BY DEF LInv
<1>1. CASE TakePacket
  <2>1. /\ pc = "read" /\ pc' = "packet"
        /\ UNCHANGED <<sent, encoder, filter, decoder, read, lost, receiver, mode, phase>>
    BY <1>1 DEF TakePacket, Goto, stages
  <2> QED BY <1>0, <2>1, QuietLine DEF LInv, Phased, Emptied, Places
<1>2. CASE EndInput
  <2>1. /\ pc = "read" /\ UNCHANGED <<sent, encoder, filter, decoder, read, lost, receiver, mode>>
        /\ \/ mode = "demux" /\ pc' = "done" /\ phase' = phase
           \/ mode # "demux" /\ pc' = "decode" /\ phase' = "decoder"
    BY <1>2 DEF EndInput, Goto, stages
  <2> QED BY <1>0, <2>1, QuietLine DEF LInv, Phased, Emptied, Places
<1>3. CASE MediaFails
  <2>1. /\ pc \in {"read", "packet", "decode", "filter", "encode"} /\ pc' = "failed"
        /\ UNCHANGED <<sent, encoder, filter, decoder, read, lost, receiver, mode, phase>>
    BY <1>3 DEF MediaFails, Fail, stages
  <2> QED BY <1>0, <2>1, QuietLine DEF LInv, Phased, Emptied, Places
<1>4. CASE Cancel \/ DropReceiver
  <2>1. /\ pc' = pc /\ UNCHANGED <<sent, encoder, filter, decoder, read, lost, mode, phase>>
        /\ receiver' => receiver
    BY <1>4 DEF Cancel, DropReceiver, stages
  <2>2. Lined'
    BY <1>0, <2>1, QuietLine
  <2>3. Phased' /\ Emptied'
    BY <1>0, <2>1 DEF Phased, Emptied
  <2> QED BY <2>2, <2>3 DEF LInv
<1> QED BY <1>1, <1>2, <1>3, <1>4

(* A packet joins the line.                                                *)
LEMMA PacketLInv ==
  ASSUME LInv, SendPacket \/ \E p \in stream.payloads : DemuxPacket(p) PROVE LInv'
<1>0. Phased /\ Emptied /\ Lined
  BY DEF LInv
<1>1. CASE SendPacket
  <2>1. /\ mode = "transcode" /\ pc = "packet"
        /\ UNCHANGED <<sent, encoder, filter, lost, receiver, mode, phase>>
        /\ \/ pc' = "failed" /\ UNCHANGED <<read, decoder>>
           \/ pc' = "decode" /\ read' = read + 1 /\ decoder' = Append(decoder, read + 1)
    BY <1>1 DEF SendPacket, Goto, Fail
  <2>2. phase = "input"
    BY <1>0, <2>1 DEF Phased
  <2>3. Lined'
    <3>1. CASE UNCHANGED <<read, decoder>>
      BY <1>0, <2>1, <3>1, QuietLine
    <3>2. CASE read' = read + 1 /\ decoder' = Append(decoder, read + 1)
      BY <1>0, <2>1, <3>2, LineGrows DEF Lined
    <3> QED BY <2>1, <3>1, <3>2
  <2> QED BY <1>0, <2>1, <2>2, <2>3 DEF LInv, Phased, Emptied, Places
<1>2. ASSUME NEW p \in stream.payloads, DemuxPacket(p) PROVE LInv'
  <2>1. /\ mode = "demux" /\ pc = "packet"
        /\ UNCHANGED <<encoder, filter, decoder, lost, receiver, mode, phase>>
        /\ \/ pc' = "failed" /\ UNCHANGED <<read, sent>>
           \/ receiver /\ pc' = "read" /\ read' = read + 1 /\ sent' = Append(sent, read + 1)
           \/ ~receiver /\ pc' = "done"
    BY <1>2 DEF DemuxPacket, Goto, Fail, stages
  <2>2. decoder = <<>> /\ filter = <<>> /\ encoder = <<>>
    BY <1>0, <2>1 DEF Emptied
  <2>3. Lined'
    <3>1. CASE UNCHANGED <<read, sent>>
      BY <1>0, <2>1, <3>1, QuietLine
    <3>2. CASE receiver /\ read' = read + 1 /\ sent' = Append(sent, read + 1)
      BY <1>0, <2>1, <2>2, <3>2, LineGrows DEF Lined
    <3>3. CASE ~receiver
      BY <2>1, <3>3 DEF Lined
    <3> QED BY <2>1, <3>1, <3>2, <3>3
  <2> QED BY <1>0, <2>1, <2>2, <2>3 DEF LInv, Phased, Emptied, Places
<1> QED BY <1>1, <1>2

(* The decoder gives a frame, or loses it, or is dry.                      *)
LEMMA DecoderLInv ==
  ASSUME LInv, ReceiveDecoded \/ DecoderDry \/ DecodeError PROVE LInv'
<1>0. Phased /\ Emptied /\ Lined
  BY DEF LInv
<1>1. CASE ReceiveDecoded
  <2>1. /\ pc = "decode" /\ decoder # <<>> /\ decoder' = Tail(decoder)
        /\ filter' = Append(filter, Head(decoder)) /\ pc' = "filter"
        /\ UNCHANGED <<sent, encoder, read, lost, receiver, mode, phase>>
    BY <1>1 DEF ReceiveDecoded, Goto
  <2>2. mode = "transcode" /\ phase \in {"input", "decoder"}
    BY <1>0, <2>1 DEF Phased
  <2>3. Lined'
    BY <1>0, <2>1, LineMoves DEF Lined
  <2> QED BY <1>0, <2>1, <2>2, <2>3 DEF LInv, Phased, Emptied, Places
<1>2. ASSUME DecodedAll, pc = "decode", UNCHANGED <<filter, encoder, receiver, mode>>, Lined',
             phase # "input" => decoder' = <<>>
      PROVE  LInv'
  <2>1. \/ phase = "input" /\ pc' = "read" /\ phase' = phase
        \/ phase # "input" /\ pc' = "filter" /\ phase' = "filter"
    BY <1>2 DEF DecodedAll, Goto
  <2>2. mode = "transcode" /\ phase \in {"input", "decoder"}
    BY <1>0, <1>2 DEF Phased
  <2> QED BY <1>0, <1>2, <2>1, <2>2 DEF LInv, Phased, Emptied, Places
<1>3. CASE DecoderDry
  <2>1. /\ pc = "decode" /\ DecodedAll /\ (phase # "input" => decoder = <<>>)
        /\ UNCHANGED <<sent, encoder, filter, decoder, read, lost, receiver, mode>>
    BY <1>3 DEF DecoderDry, Dry, DecoderEnded, stages
  <2>2. Lined'
    BY <1>0, <2>1, QuietLine
  <2> QED BY <1>2, <2>1, <2>2
<1>4. CASE DecodeError
  <2>1. /\ pc = "decode" /\ DecodedAll /\ decoder # <<>>
        /\ decoder' = LeftByError(decoder, DecoderEnded)
        /\ lost' = lost \cup (ToSet(decoder) \ ToSet(decoder'))
        /\ UNCHANGED <<sent, encoder, filter, read, receiver, mode>>
    BY <1>4 DEF DecodeError
  <2>2. phase # "input" => decoder' = <<>>
    BY <2>1 DEF DecoderEnded, LeftByError
  <2>3. Lined'
    BY <1>0, <2>1, LineLoses DEF Lined
  <2> QED BY <1>2, <2>1, <2>2, <2>3
<1> QED BY <1>1, <1>3, <1>4

(* The filter and the encoder give a frame each, or lose it, or are dry.   *)
LEMMA EncoderLInv ==
  ASSUME LInv,
         \/ ReceiveFiltered \/ FilterDry \/ FilterError
         \/ ReceiveEncoded \/ EncoderDry \/ EncoderError
  PROVE  LInv'
<1>0. Phased /\ Emptied /\ Lined
  BY DEF LInv
<1>1. CASE ReceiveFiltered
  <2>1. /\ pc = "filter" /\ filter # <<>>
        /\ UNCHANGED <<sent, decoder, read, lost, receiver, mode, phase>>
        /\ \/ pc' = "failed" /\ UNCHANGED <<filter, encoder>>
           \/ pc' = "encode" /\ filter' = Tail(filter) /\ encoder' = Append(encoder, Head(filter))
    BY <1>1 DEF ReceiveFiltered, Goto, Fail
  <2>2. mode = "transcode" /\ phase \in {"input", "decoder", "filter"}
    BY <1>0, <2>1 DEF Phased
  <2>3. Lined'
    <3>1. CASE UNCHANGED <<filter, encoder>>
      BY <1>0, <2>1, <3>1, QuietLine
    <3>2. CASE filter' = Tail(filter) /\ encoder' = Append(encoder, Head(filter))
      BY <1>0, <2>1, <3>2, LineMoves DEF Lined
    <3> QED BY <2>1, <3>1, <3>2
  <2> QED BY <1>0, <2>1, <2>2, <2>3 DEF LInv, Phased, Emptied, Places
<1>2. CASE FilterDry
  <2>1. /\ pc = "filter" /\ UNCHANGED <<sent, encoder, filter, decoder, read, lost, receiver, mode>>
        /\ \/ phase = "filter" /\ filter = <<>> /\ pc' = "encode" /\ phase' = "encoder"
           \/ phase # "filter" /\ pc' = "decode" /\ phase' = phase
    BY <1>2 DEF FilterDry, FilteredAll, Dry, FilterEnded, Goto, stages
  <2>2. mode = "transcode" /\ phase \in {"input", "decoder", "filter"}
    BY <1>0, <2>1 DEF Phased
  <2> QED BY <1>0, <2>1, <2>2, QuietLine DEF LInv, Phased, Emptied, Places
<1>3. CASE ReceiveEncoded
  <2>1. /\ pc = "encode" /\ encoder # <<>> /\ encoder' = Tail(encoder)
        /\ UNCHANGED <<filter, decoder, read, lost, receiver, mode, phase>>
        /\ \/ receiver /\ sent' = Append(sent, Head(encoder)) /\ pc' = "encode"
           \/ ~receiver /\ phase = "encoder" /\ pc' = "done"
           \/ ~receiver /\ phase # "encoder" /\ pc' = "filter"
    BY <1>3 DEF ReceiveEncoded, EncodedAll, EncoderEnded, Goto
  <2>2. mode = "transcode"
    BY <1>0, <2>1 DEF Phased
  <2>3. Lined'
    <3>1. CASE receiver
      BY <1>0, <2>1, <3>1, LineMoves DEF Lined
    <3>2. CASE ~receiver
      BY <2>1, <3>2 DEF Lined
    <3> QED BY <3>1, <3>2
  <2> QED BY <1>0, <2>1, <2>2, <2>3 DEF LInv, Phased, Emptied, Places
<1>4. CASE EncoderDry
  <2>1. /\ pc = "encode"
        /\ UNCHANGED <<sent, encoder, filter, decoder, read, lost, receiver, mode, phase>>
        /\ \/ phase = "encoder" /\ encoder = <<>> /\ pc' = "done"
           \/ phase # "encoder" /\ pc' = "filter"
    BY <1>4 DEF EncoderDry, EncodedAll, Dry, EncoderEnded, Goto, stages
  <2>2. mode = "transcode"
    BY <1>0, <2>1 DEF Phased
  <2> QED BY <1>0, <2>1, <2>2, QuietLine DEF LInv, Phased, Emptied, Places
<1>5. CASE FilterError
  <2>1. /\ pc = "filter" /\ filter # <<>> /\ filter' = LeftByError(filter, FilterEnded)
        /\ lost' = lost \cup (ToSet(filter) \ ToSet(filter'))
        /\ UNCHANGED <<sent, encoder, decoder, read, receiver, mode>>
        /\ \/ phase = "filter" /\ filter' = <<>> /\ pc' = "encode" /\ phase' = "encoder"
           \/ phase # "filter" /\ pc' = "decode" /\ phase' = phase
    BY <1>5 DEF FilterError, FilteredAll, FilterEnded, LeftByError, Goto
  <2>2. mode = "transcode" /\ phase \in {"input", "decoder", "filter"}
    BY <1>0, <2>1 DEF Phased
  <2>3. Lined'
    BY <1>0, <2>1, LineLoses DEF Lined
  <2> QED BY <1>0, <2>1, <2>2, <2>3 DEF LInv, Phased, Emptied, Places
<1>6. CASE EncoderError
  <2>1. /\ pc = "encode" /\ encoder # <<>> /\ encoder' = LeftByError(encoder, EncoderEnded)
        /\ lost' = lost \cup (ToSet(encoder) \ ToSet(encoder'))
        /\ UNCHANGED <<sent, filter, decoder, read, receiver, mode, phase>>
        /\ \/ phase = "encoder" /\ encoder' = <<>> /\ pc' = "done"
           \/ phase # "encoder" /\ pc' = "filter"
    BY <1>6 DEF EncoderError, EncodedAll, EncoderEnded, LeftByError, Goto
  <2>2. mode = "transcode"
    BY <1>0, <2>1 DEF Phased
  <2>3. Lined'
    BY <1>0, <2>1, LineLoses DEF Lined
  <2> QED BY <1>0, <2>1, <2>2, <2>3 DEF LInv, Phased, Emptied, Places
<1> QED BY <1>1, <1>2, <1>3, <1>4, <1>5, <1>6

LEMMA OpenLInv == ASSUME LInv, NEW i \in DOMAIN built, StartAttempt(i) PROVE LInv'
<1>0. Phased /\ Emptied /\ Lined
  BY DEF LInv
<1>1. pc = "idle" /\ OpenInput(engine[1].graph.pipelines[i])
  BY DEF StartAttempt
<1>2. /\ UNCHANGED <<sent, encoder, filter, decoder, read, lost, receiver, phase>>
      /\ pc' \in {"read", "failed"} /\ mode' \in {mode, "demux", "transcode"}
      /\ mode' = mode => pc' = "failed"
  <2>1. mode = "none"
    BY <1>0, <1>1 DEF Phased
  <2> QED BY <1>1, <2>1 DEF OpenInput, OpenDemux, OpenTranscode, Fail, Goto, stages
<1> QED BY <1>0, <1>1, <1>2, QuietLine DEF LInv, Phased, Emptied, Places

LEMMA NextLInv == ASSUME LInv, [Next]_vars PROVE LInv'
<1>1. CASE UNCHANGED attemptVars
  <2>1. UNCHANGED <<pc, mode, phase, sent, encoder, filter, decoder, read, lost, receiver>>
    BY <1>1 DEF attemptVars, stages
  <2> QED BY <2>1, QuietLine DEF LInv, Phased, Emptied
<1>2. CASE \E i \in DOMAIN built : StartAttempt(i)
  BY <1>2, OpenLInv
<1>3. CASE AttemptNext
  BY <1>3, ControlLInv, PacketLInv, DecoderLInv, EncoderLInv DEF AttemptNext
<1> QED BY <1>1, <1>2, <1>3 DEF Next, vars

LEMMA LineInductive == Spec => []LInv
BY InitLInv, NextLInv, PTL DEF Spec

(* As long as the source receives, the packets sent and the frames in the  *)
(* three stages are, in order and each once, all that demux_packets or     *)
(* transcode_packets has read, but for the frames that errors have cost.   *)
THEOREM LineIsKept == Spec => []InOrder
<1>1. LInv => InOrder
  BY LineInOrder DEF LInv, Lined, InOrder, Delivers
<1> QED BY <1>1, LineInductive, PTL

(* An attempt that ends well for a source still there, at the end of its   *)
(* input or cancelled, leaves nothing in its stages: it has sent all it    *)
(* has read but the frames that errors of libav have cost.                 *)
THEOREM FlushIsComplete == Spec => []FlushedAll
<1>1. LInv => FlushedAll
  <2> SUFFICES ASSUME LInv, pc = "done", receiver PROVE Delivers(sent)
    BY DEF FlushedAll
  <2>1. Line(sent, encoder, filter, decoder, read, lost)
    BY DEF LInv, Lined
  <2>2. decoder = <<>> /\ filter = <<>> /\ encoder = <<>>
    BY DEF LInv, Phased, Emptied
  <2>3. ToSet(decoder) = {} /\ ToSet(filter) = {} /\ ToSet(encoder) = {}
    BY <2>2, NoFrames
  <2> QED BY <2>1, <2>3 DEF Line, Delivers
<1> QED BY <1>1, LineInductive, PTL
-----------------------------------------------------------------------------
(* What the compiler has let pass, and what the facade has done with it.   *)

Manifests == UNION {s.manifests : s \in Scenarios}

(* What the compiler has seen of a graph it has let pass, by the route it  *)
(* came.                                                                   *)
Probed(m, h) ==
  LET caps == FeatureProbe(h, m.target) IN
  /\ caps # <<>> /\ ~HostMismatch(m, caps[1])
  /\ \A i \in DOMAIN m.pipelines : ~Unsupported(m, m.pipelines[i], caps[1])
Vouched(m, probes) ==
  \E probe \in probes : probe[m.target] # <<>> /\ ~HostMismatch(m, probe[m.target][1])
Vetted(graph, route, h, probes) ==
  \E m \in Manifests :
    /\ graph = Plan(m) /\ ~(graph.pool > graph.limit)
    /\ \A i \in DOMAIN m.pipelines : ~Misconfigured(m.pipelines[i])
    /\ route \in {"unchecked", "generic", "features", "caller"}
    /\ route = "generic" => m.target = "generic"
    /\ route = "features" => Probed(m, h)
    /\ route = "caller" => Vouched(m, probes)

(* What CamlPipelineBuilder::start has made sure of.                       *)
Equipped(graph, adapters, h) ==
  /\ adapters.ffmpeg = ("ffmpeg" \in h.features)
  /\ \A i \in DOMAIN graph.pipelines :
       LET c == graph.pipelines[i] IN
       /\ (\E o \in DOMAIN c.outputs : c.outputs[o].kind = "webrtc") =>
            "webrtc" \in h.features /\ c.id \in adapters.tracks
       /\ c.backend = "LibcameraDevice" => "pi" \in h.features /\ adapters.provider

BuilderFields == {"kind", "manifest", "compiled", "probe", "provider", "native", "tracks",
                  "variables", "factory"}
FeatureProbes(h) == [t \in HardwareTarget |-> FeatureProbe(h, t)]
HasProbe(b, h, probes) ==
  b.probe # <<>> =>
    \/ b.probe[1].by = "features" /\ b.probe[1].caps = FeatureProbes(h)
    \/ b.probe[1].by = "caller" /\ b.probe[1].caps \in probes
Drafted ==
  /\ host \in Host /\ caller.manifests \subseteq Manifests
  /\ caller.probes \subseteq CapabilityProbe /\ HasProbe(builder, host, caller.probes)
  /\ DOMAIN builder = BuilderFields
  /\ builder.manifest # <<>> => builder.manifest[1] \in Manifests
  /\ builder.kind = "pipeline" => builder.manifest # <<>>
  /\ builder.compiled # <<>> => 
       Vetted(builder.compiled[1].graph, builder.compiled[1].route, host, caller.probes)

Launched ==
  engine # <<>> =>
    /\ Vetted(engine[1].graph, engine[1].route, host, caller.probes)
    /\ engine[1].by = "pipeline" => Equipped(engine[1].graph, engine[1].adapters, host)
    /\ DOMAIN built = DOMAIN engine[1].graph.pipelines
    /\ \A i \in DOMAIN built :
         built[i] \in {"pending", BuildPipeline(engine[1].graph.pipelines[i], engine[1].adapters, host)}

FInv == Drafted /\ Launched
-----------------------------------------------------------------------------
(* Of the places where something holds there is a first.                   *)
LEMMA LeastPlace == ASSUME NEW T, T \subseteq Nat, T # {} PROVE \E i \in T : \A j \in T : i <= j
<1>1. PICK x \in T : \A y \in T : ~ (<<y, x>> \in OpToRel(<, Nat))
  BY WFMin, NatLessThanWellFounded
<1>2. \A y \in T : ~(y < x)
  BY <1>1 DEF OpToRel
<1> QED BY <1>2

LEMMA ManifestTypes ==
  /\ Manifests \subseteq CamlManifest
  /\ \A m \in Manifests : m.target \in {"pi4", "pi5", "generic"} /\ m.pipelines \in Seq(PipelineNode)
BY FacadeConstants DEF Manifests, CamlManifest

LEMMA ManifestPlaces ==
  ASSUME NEW m \in Manifests
  PROVE  /\ DOMAIN m.pipelines = 1 .. Len(m.pipelines) /\ Len(m.pipelines) \in Nat
         /\ \A i \in DOMAIN m.pipelines : m.pipelines[i] \in PipelineNode
BY ManifestTypes, LenProperties, ElementOfSeq

(* What compile_internal has checked of a manifest whose graph it returns. *)
LEMMA Checked ==
  ASSUME NEW m \in Manifests, NEW caps, NEW variables,
         CompileInternal(m, caps, variables).error = "ok"
  PROVE  /\ CompileInternal(m, caps, variables).graph = <<Plan(m)>>
         /\ ~(Plan(m).pool > Limit(m))
         /\ \A i \in DOMAIN m.pipelines : ~Misconfigured(m.pipelines[i])
         /\ caps # <<>> => /\ ~HostMismatch(m, caps[1])
                           /\ \A i \in DOMAIN m.pipelines : ~Unsupported(m, m.pipelines[i], caps[1])
<1> DEFINE refused == {i \in DOMAIN m.pipelines : NodeVerdict(m, i, caps, variables) # "ok"}
           first == CHOOSE i \in refused : \A j \in refused : i <= j
<1>1. CompileInternal(m, caps, variables) =
        IF caps # <<>> /\ HostMismatch(m, caps[1])
        THEN [error |-> "UnsupportedCapability", graph |-> <<>>]
        ELSE IF refused # {}
        THEN [error |-> NodeVerdict(m, first, caps, variables), graph |-> <<>>]
        ELSE IF Plan(m).pool > Limit(m)
        THEN [error |-> "ResourceLimitExceeded", graph |-> <<>>]
        ELSE [error |-> "ok", graph |-> <<Plan(m)>>]
  BY DEF CompileInternal
<1>2. refused # {} => NodeVerdict(m, first, caps, variables) # "ok"
  <2> SUFFICES ASSUME refused # {} PROVE first \in refused
    OBVIOUS
  <2>1. \E i \in refused : \A j \in refused : i <= j
    <3>1. refused \subseteq Nat
      BY ManifestPlaces
    <3> HIDE DEF refused
    <3> QED BY <3>1, LeastPlace
  <2> QED BY <2>1
<1>3. \A i \in DOMAIN m.pipelines : i \notin refused => NodeVerdict(m, i, caps, variables) = "ok"
  OBVIOUS
<1> HIDE DEF refused, first
<1>4. ~(caps # <<>> /\ HostMismatch(m, caps[1])) /\ refused = {} /\ ~(Plan(m).pool > Limit(m))
  BY <1>1, <1>2
<1>5. CompileInternal(m, caps, variables).graph = <<Plan(m)>>
  BY <1>1, <1>4
<1>6. ASSUME NEW i \in DOMAIN m.pipelines
      PROVE  /\ ~Misconfigured(m.pipelines[i])
             /\ caps # <<>> => ~Unsupported(m, m.pipelines[i], caps[1])
  <2>1. NodeVerdict(m, i, caps, variables) = "ok"
    BY <1>3, <1>4
  <2> QED BY <2>1 DEF NodeVerdict
<1> QED BY <1>4, <1>5, <1>6

LEMMA PlanFields ==
  ASSUME NEW m
  PROVE  /\ Plan(m).limit = Limit(m) /\ Plan(m).target = m.target
         /\ Plan(m).pipelines = [i \in DOMAIN m.pipelines |-> CompilePipeline(m.pipelines[i])]
BY DEF Plan

(* Each way to a graph.                                                    *)
LEMMA VettedBy ==
  ASSUME NEW m \in Manifests, NEW h, NEW probes,
         NEW route \in {"unchecked", "generic", "features", "caller"},
         ~(Plan(m).pool > Limit(m)), \A i \in DOMAIN m.pipelines : ~Misconfigured(m.pipelines[i]),
         route = "generic" => m.target = "generic", route = "features" => Probed(m, h),
         route = "caller" => Vouched(m, probes)
  PROVE  Vetted(Plan(m), route, h, probes)
<1> DEFINE graph == Plan(m)
<1>1. graph.limit = Limit(m) /\ ~(graph.pool > Limit(m)) /\ graph = Plan(m)
  BY PlanFields
<1> HIDE DEF graph
<1>2. ~(graph.pool > graph.limit)
  BY <1>1
<1> QED BY <1>1, <1>2 DEF Vetted

LEMMA UncheckedVetted ==
  ASSUME NEW m \in Manifests, NEW h, NEW probes, CompileInternal(m, <<>>, {}).error = "ok"
  PROVE  Vetted(CompileInternal(m, <<>>, {}).graph[1], "unchecked", h, probes)
<1>1. /\ CompileInternal(m, <<>>, {}).graph = <<Plan(m)>> /\ ~(Plan(m).pool > Limit(m))
      /\ \A i \in DOMAIN m.pipelines : ~Misconfigured(m.pipelines[i])
  BY Checked
<1>2. Vetted(Plan(m), "unchecked", h, probes)
  BY <1>1, VettedBy
<1> QED BY <1>1, <1>2

LEMMA CompilesVetted ==
  ASSUME NEW b, b.manifest[1] \in Manifests, Compiles(b).verdict.error = "ok",
         HasProbe(b, host, caller.probes)
  PROVE  /\ Vetted(Compiles(b).verdict.graph[1], Compiles(b).route, host, caller.probes)
         /\ Compiles(b).verdict.graph = <<Plan(b.manifest[1])>>
<1> DEFINE m == b.manifest[1]
<1>1. CASE b.probe # <<>>
  <2> DEFINE probe == b.probe[1].caps
             caps == probe[m.target]
             by == b.probe[1].by
  <2>1. Compiles(b).verdict = CompileWithProbe(m, probe, b.variables) /\ Compiles(b).route = by
    BY <1>1 DEF Compiles, Route
  <2>2. caps # <<>> /\ Compiles(b).verdict = CompileInternal(m, caps, b.variables)
    BY <2>1 DEF CompileWithProbe
  <2>3. m.target \in HardwareTarget
    BY ManifestTypes DEF HardwareTarget
  <2>4. \/ by = "features" /\ caps = FeatureProbe(host, m.target)
        \/ by = "caller" /\ probe \in caller.probes
    BY <1>1, <2>3 DEF HasProbe, FeatureProbes
  <2>5. caps = probe[m.target]
    OBVIOUS
  <2> HIDE DEF m, caps, probe, by
  <2>6. m \in Manifests /\ CompileInternal(m, caps, b.variables).error = "ok"
    BY <2>2 DEF m
  <2>7. /\ Compiles(b).verdict.graph = <<Plan(m)>> /\ ~(Plan(m).pool > Limit(m))
        /\ \A i \in DOMAIN m.pipelines : ~Misconfigured(m.pipelines[i])
        /\ ~HostMismatch(m, caps[1])
        /\ \A i \in DOMAIN m.pipelines : ~Unsupported(m, m.pipelines[i], caps[1])
    BY <2>2, <2>6, Checked
  <2>8. by = "features" => Probed(m, host)
    BY <2>2, <2>4, <2>7 DEF Probed
  <2>9. by = "caller" => Vouched(m, caller.probes)
    BY <2>2, <2>4, <2>5, <2>7 DEF Vouched
  <2>10. Vetted(Plan(m), by, host, caller.probes)
    BY <2>4, <2>6, <2>7, <2>8, <2>9, VettedBy
  <2> QED BY <2>1, <2>7, <2>10 DEF m
<1>2. CASE b.probe = <<>>
  <2>1. Compiles(b).verdict = Compile(m, b.variables) /\ Compiles(b).route = "generic"
    BY <1>2 DEF Compiles, Route
  <2>2. m.target = "generic" /\ Compiles(b).verdict = CompileInternal(m, <<>>, b.variables)
    BY <2>1 DEF Compile
  <2> HIDE DEF m
  <2>3. m \in Manifests /\ CompileInternal(m, <<>>, b.variables).error = "ok"
    BY <2>2 DEF m
  <2>4. /\ Compiles(b).verdict.graph = <<Plan(m)>> /\ ~(Plan(m).pool > Limit(m))
        /\ \A i \in DOMAIN m.pipelines : ~Misconfigured(m.pipelines[i])
    BY <2>2, <2>3, Checked
  <2>5. Vetted(Plan(m), "generic", host, caller.probes)
    BY <2>2, <2>3, <2>4, VettedBy
  <2> QED BY <2>1, <2>4, <2>5 DEF m
<1> QED BY <1>1, <1>2
-----------------------------------------------------------------------------
(* Of the verdicts on the pipelines the first that is not ok decides.      *)
LEMMA FirstDecides ==
  ASSUME NEW v, DOMAIN v \subseteq Nat
  PROVE  /\ FirstOf(v) = "ok" => \A i \in DOMAIN v : v[i] = "ok"
         /\ FirstOf(v) # "ok" =>
              \E i \in DOMAIN v : v[i] = FirstOf(v) /\ \A j \in DOMAIN v : j < i => v[j] = "ok"
<1> DEFINE bad == {i \in DOMAIN v : v[i] # "ok"}
           first == CHOOSE i \in bad : \A j \in bad : i <= j
<1>1. FirstOf(v) = IF bad = {} THEN "ok" ELSE v[first]
  BY DEF FirstOf
<1>2. CASE bad = {}
  BY <1>1, <1>2
<1>3. CASE bad # {}
  <2>1. \E i \in bad : \A j \in bad : i <= j
    <3>1. bad \subseteq Nat
      OBVIOUS
    <3> HIDE DEF bad
    <3> QED BY <1>3, <3>1, LeastPlace
  <2>2. first \in bad /\ \A j \in bad : first <= j
    BY <2>1
  <2>3. FirstOf(v) = v[first] /\ first \in DOMAIN v /\ v[first] # "ok"
    BY <1>1, <1>3, <2>2
  <2>4. ASSUME NEW j \in DOMAIN v, j < first PROVE v[j] = "ok"
    <3>1. j \in Nat /\ first \in Nat /\ ~(first <= j)
      BY <2>3, <2>4
    <3> QED BY <2>2, <3>1
  <2> QED BY <2>3, <2>4
<1> QED BY <1>2, <1>3

(* A step that only works on the builder.                                  *)
LEMMA DraftInv ==
  ASSUME FInv, UNCHANGED <<host, caller, engine, built>>, DOMAIN builder' = BuilderFields,
         builder'.manifest # <<>> => builder'.manifest[1] \in Manifests,
         builder'.kind = "pipeline" => builder'.manifest # <<>>,
         HasProbe(builder', host, caller.probes),
         builder'.compiled # <<>> =>
           Vetted(builder'.compiled[1].graph, builder'.compiled[1].route, host, caller.probes)
  PROVE  FInv'
BY DEF FInv, Drafted, Launched

LEMMA Retouched ==
  ASSUME FInv, UNCHANGED <<host, caller, engine, built>>,
         NEW field \in BuilderFields \ {"kind", "manifest", "compiled"}, NEW value,
         field = "probe" => HasProbe([probe |-> value], host, caller.probes),
         builder' = [builder EXCEPT ![field] = value]
  PROVE  FInv'
<1>1. DOMAIN builder = BuilderFields
  BY DEF FInv, Drafted
<1>2. /\ DOMAIN builder' = BuilderFields /\ builder'.manifest = builder.manifest
      /\ builder'.kind = builder.kind /\ builder'.compiled = builder.compiled
      /\ builder'.probe = IF field = "probe" THEN value ELSE builder.probe
  BY <1>1 DEF BuilderFields
<1>3. HasProbe(builder', host, caller.probes)
  <2>1. CASE field = "probe"
    BY <1>2, <2>1 DEF HasProbe
  <2>2. CASE field # "probe"
    BY <1>2, <2>2 DEF HasProbe, FInv, Drafted
  <2> QED BY <2>1, <2>2
<1> QED BY <1>2, <1>3, DraftInv DEF FInv, Drafted

LEMMA EmptyBuilder ==
  /\ DOMAIN NoBuilder = BuilderFields /\ NoBuilder.manifest = <<>> /\ NoBuilder.compiled = <<>>
  /\ NoBuilder.kind = "none" /\ NoBuilder.probe = <<>>
BY DEF NoBuilder, BuilderFields

LEMMA ConsumedInv ==
  ASSUME FInv, UNCHANGED <<host, caller, engine, built>>, builder' = NoBuilder PROVE FInv'
BY EmptyBuilder, DraftInv DEF HasProbe

LEMMA InitFInv == Init => FInv
<1> SUFFICES ASSUME Init PROVE FInv
  OBVIOUS
<1>1. PICK s \in Scenarios : host = s.host
                            /\ caller = [api |-> s.api, manifests |-> s.manifests, probes |-> s.probes]
  BY DEF Init, FacadeInit
<1>2. /\ host \in Host /\ caller.manifests \subseteq Manifests
      /\ caller.probes \subseteq CapabilityProbe
  BY <1>1, FacadeConstants DEF Manifests
<1>3. builder = NoBuilder /\ engine = <<>>
  BY DEF Init, FacadeInit
<1> QED BY <1>2, <1>3, EmptyBuilder DEF FInv, Drafted, HasProbe, Launched

LEMMA SetUpInv ==
  ASSUME FInv, NEW m \in caller.manifests,
         FromManifestStr(m) \/ WithManifest(m) \/ WithCompiledGraph(m)
  PROVE  FInv'
<1>0. m \in Manifests /\ DOMAIN builder = BuilderFields
  BY DEF FInv, Drafted
<1>1. CASE FromManifestStr(m)
  <2>1. UNCHANGED <<host, caller, engine, built>>
    BY <1>1 DEF FromManifestStr
  <2>2. CASE Valid(m)
    <3>1. builder' = [NoBuilder EXCEPT !.kind = "pipeline", !.manifest = <<m>>]
      BY <1>1, <2>2 DEF FromManifestStr
    <3>2. /\ DOMAIN builder' = BuilderFields /\ builder'.manifest = <<m>>
          /\ builder'.compiled = <<>> /\ builder'.kind = "pipeline" /\ builder'.probe = <<>>
      BY <3>1 DEF NoBuilder, BuilderFields
    <3> QED BY <1>0, <2>1, <3>2, DraftInv DEF HasProbe
  <2>3. CASE ~Valid(m)
    <3>1. builder' = builder
      BY <1>1, <2>3 DEF FromManifestStr
    <3> QED BY <2>1, <3>1, DraftInv DEF FInv, Drafted
  <2> QED BY <2>2, <2>3
<1>2. CASE WithManifest(m)
  <2>1. /\ UNCHANGED <<host, caller, engine, built>> /\ builder' = [builder EXCEPT !.manifest = <<m>>]
    BY <1>2 DEF WithManifest, Sets
  <2>2. /\ DOMAIN builder' = BuilderFields /\ builder'.manifest = <<m>>
        /\ builder'.compiled = builder.compiled /\ builder'.probe = builder.probe
    BY <1>0, <2>1 DEF BuilderFields
  <2> QED BY <1>0, <2>1, <2>2, DraftInv DEF FInv, Drafted, HasProbe
<1>3. CASE WithCompiledGraph(m)
  <2> DEFINE graph == CompileInternal(m, <<>>, {}).graph[1]
             c == [graph |-> graph, route |-> "unchecked"]
  <2>1. /\ UNCHANGED <<host, caller, engine, built>> /\ builder' = [builder EXCEPT !.compiled = <<c>>]
        /\ CompileInternal(m, <<>>, {}).error = "ok"
    BY <1>3 DEF WithCompiledGraph, Sets
  <2>2. Vetted(graph, "unchecked", host, caller.probes)
    BY <1>0, <2>1, UncheckedVetted
  <2> HIDE DEF graph
  <2>3. /\ DOMAIN builder' = BuilderFields /\ builder'.manifest = builder.manifest
        /\ builder'.kind = builder.kind /\ builder'.compiled = <<c>>
        /\ builder'.probe = builder.probe
    BY <1>0, <2>1 DEF BuilderFields
  <2> QED BY <2>1, <2>2, <2>3, DraftInv DEF FInv, Drafted, HasProbe
<1> QED BY <1>1, <1>2, <1>3

LEMMA OptionsInv ==
  ASSUME FInv,
         \/ \E probe \in caller.probes : WithCapabilityProbe(probe)
         \/ NewRuntimeBuilder \/ WithFeatureCapabilityProbe \/ WithLibcameraProviderFactory
         \/ \E id \in Id : WithWebRtcTrack(id)
         \/ \E v \in Variable : WithOverlayVariable(v)
         \/ WithNativeAdapters \/ WithFeatureMediaAdapters
  PROVE  FInv'
<1>1. UNCHANGED <<host, caller, engine, built>>
  BY DEF NewRuntimeBuilder, WithCapabilityProbe, WithFeatureCapabilityProbe,
         WithLibcameraProviderFactory, WithWebRtcTrack, WithOverlayVariable, WithNativeAdapters,
         WithFeatureMediaAdapters, Sets
<1>2. CASE NewRuntimeBuilder
  <2>1. builder' = [NoBuilder EXCEPT !.kind = "runtime"]
    BY <1>2 DEF NewRuntimeBuilder, Sets
  <2>2. /\ DOMAIN builder' = BuilderFields /\ builder'.manifest = <<>>
        /\ builder'.compiled = <<>> /\ builder'.kind = "runtime" /\ builder'.probe = <<>>
    BY <2>1 DEF NoBuilder, BuilderFields
  <2> QED BY <1>1, <2>2, DraftInv DEF HasProbe
<1>3. ASSUME NEW probe \in caller.probes, WithCapabilityProbe(probe) PROVE FInv'
  <2> DEFINE value == <<[by |-> "caller", caps |-> probe]>>
  <2>1. builder' = [builder EXCEPT !["probe"] = value] /\ "probe" \in BuilderFields
    BY <1>3 DEF WithCapabilityProbe, Sets, BuilderFields
  <2>2. HasProbe([probe |-> value], host, caller.probes)
    BY DEF HasProbe
  <2> HIDE DEF value
  <2> QED BY <1>1, <2>1, <2>2, Retouched
<1>4. CASE WithFeatureCapabilityProbe
  <2> DEFINE value == <<[by |-> "features", caps |-> FeatureProbes(host)]>>
  <2>1. builder' = [builder EXCEPT !["probe"] = value] /\ "probe" \in BuilderFields
    BY <1>4 DEF WithFeatureCapabilityProbe, Sets, BuilderFields, FeatureProbes
  <2>2. HasProbe([probe |-> value], host, caller.probes)
    BY DEF HasProbe
  <2> HIDE DEF value
  <2> QED BY <1>1, <2>1, <2>2, Retouched
<1>5. CASE \/ WithLibcameraProviderFactory
           \/ \E id \in Id : WithWebRtcTrack(id)
           \/ \E v \in Variable : WithOverlayVariable(v)
           \/ WithNativeAdapters \/ WithFeatureMediaAdapters
  <2>1. \E field \in BuilderFields \ {"kind", "manifest", "compiled", "probe"} : \E value :
          builder' = [builder EXCEPT ![field] = value]
    BY <1>5 DEF WithLibcameraProviderFactory, WithWebRtcTrack,
         WithOverlayVariable, WithNativeAdapters, WithFeatureMediaAdapters, Sets, BuilderFields
  <2> QED BY <1>1, <2>1, Retouched
<1> QED BY <1>2, <1>3, <1>4, <1>5

LEMMA RuntimeCompileInv == ASSUME FInv, RuntimeCompile PROVE FInv'
<1>0. UNCHANGED <<host, caller, engine, built>> /\ DOMAIN builder = BuilderFields
  BY DEF RuntimeCompile, FInv, Drafted
<1> DEFINE c == Compiles(builder)
<1>1. \/ builder' = NoBuilder
      \/ /\ builder.manifest # <<>> /\ c.verdict.error = "ok"
         /\ builder' = [builder EXCEPT !.compiled = <<[graph |-> c.verdict.graph[1], route |-> c.route]>>]
  BY DEF RuntimeCompile
<1>2. CASE builder' = NoBuilder
  BY <1>0, <1>2, ConsumedInv
<1>3. CASE /\ builder.manifest # <<>> /\ c.verdict.error = "ok"
           /\ builder' = [builder EXCEPT !.compiled = <<[graph |-> c.verdict.graph[1], route |-> c.route]>>]
  <2> DEFINE graph == c.verdict.graph[1]
             route == c.route
  <2>1. Vetted(graph, route, host, caller.probes)
    BY <1>3, CompilesVetted DEF FInv, Drafted
  <2> HIDE DEF c
  <2>2. builder' = [builder EXCEPT !.compiled = <<[graph |-> graph, route |-> route]>>]
    BY <1>3
  <2> HIDE DEF graph, route
  <2>3. /\ DOMAIN builder' = BuilderFields /\ builder'.manifest = builder.manifest
        /\ builder'.kind = builder.kind /\ builder'.compiled = <<[graph |-> graph, route |-> route]>>
        /\ builder'.probe = builder.probe
    BY <1>0, <2>2 DEF BuilderFields
  <2> QED BY <1>0, <2>1, <2>3, DraftInv DEF FInv, Drafted, HasProbe
<1> QED BY <1>1, <1>2, <1>3

(* What an engine that starts has to be given.                             *)
LEMMA StartedInv ==
  ASSUME FInv, NEW compiled, NEW adapters, Started(compiled, adapters), builder' = NoBuilder,
         UNCHANGED <<host, caller>>, Vetted(compiled.graph, compiled.route, host, caller.probes),
         builder.kind = "pipeline" => Equipped(compiled.graph, adapters, host)
  PROVE  FInv'
<1>1. /\ engine' = <<[graph |-> compiled.graph, route |-> compiled.route, adapters |-> adapters,
                      by |-> builder.kind]>>
      /\ built' = [i \in DOMAIN compiled.graph.pipelines |-> "pending"]
  BY DEF Started
<1>2. /\ engine'[1].graph = compiled.graph /\ engine'[1].route = compiled.route
      /\ engine'[1].adapters = adapters /\ engine'[1].by = builder.kind
  BY <1>1
<1>3. Drafted'
  BY EmptyBuilder DEF FInv, Drafted, HasProbe
<1>4. Launched'
  BY <1>1, <1>2 DEF Launched
<1> QED BY <1>3, <1>4 DEF FInv

LEMMA RefusedInv ==
  ASSUME FInv, NEW error, Refused(error), builder' = NoBuilder, UNCHANGED <<host, caller>> PROVE FInv'
BY ConsumedInv DEF Refused

LEMMA RuntimeStartInv == ASSUME FInv, RuntimeStart PROVE FInv'
<1> DEFINE c == Compiles(builder)
           compiled == IF builder.compiled # <<>> THEN builder.compiled[1]
                       ELSE [graph |-> c.verdict.graph[1], route |-> c.route]
<1>1. /\ builder' = NoBuilder /\ UNCHANGED <<host, caller>> /\ builder.kind = "runtime"
  BY DEF RuntimeStart, Holds
<1>2. \/ \E error : Refused(error)
      \/ /\ Started(compiled, builder.factory[1])
         /\ builder.compiled = <<>> => builder.manifest # <<>> /\ c.verdict.error = "ok"
  BY DEF RuntimeStart
<1>3. CASE \E error : Refused(error)
  BY <1>1, <1>3, RefusedInv
<1>4. CASE /\ Started(compiled, builder.factory[1])
           /\ builder.compiled = <<>> => builder.manifest # <<>> /\ c.verdict.error = "ok"
  <2>1. Vetted(compiled.graph, compiled.route, host, caller.probes)
    <3>1. CASE builder.compiled # <<>>
      BY <3>1 DEF FInv, Drafted
    <3>2. CASE builder.compiled = <<>>
      <4>1. Vetted(c.verdict.graph[1], c.route, host, caller.probes)
        BY <1>4, <3>2, CompilesVetted DEF FInv, Drafted
      <4> HIDE DEF c
      <4> QED BY <3>2, <4>1
    <3> QED BY <3>1, <3>2
  <2> HIDE DEF compiled, c
  <2> QED BY <1>1, <1>4, <2>1, StartedInv
<1> QED BY <1>2, <1>3, <1>4

LEMMA MissingNothing ==
  ASSUME NEW c, Missing(c) = "ok"
  PROVE  /\ (\E o \in DOMAIN c.outputs : c.outputs[o].kind = "webrtc") =>
              Has("webrtc") /\ c.id \in builder.tracks
         /\ c.backend = "LibcameraDevice" => Has("pi") /\ builder.provider
BY DEF Missing, Check

LEMMA PipelineStartInv == ASSUME FInv, PipelineStart PROVE FInv'
<1> DEFINE c == Compiles(builder)
           graph == c.verdict.graph[1]
           verdicts == [i \in DOMAIN graph.pipelines |-> Missing(graph.pipelines[i])]
           compiled == [graph |-> graph, route |-> c.route]
<1>1. /\ builder' = NoBuilder /\ UNCHANGED <<host, caller>> /\ builder.kind = "pipeline"
  BY DEF PipelineStart, Holds
<1>2. \/ \E error : Refused(error)
      \/ /\ Started(compiled, FeatureAdapters(builder))
         /\ c.verdict.error = "ok" /\ FirstOf(verdicts) = "ok"
  BY DEF PipelineStart
<1>3. CASE \E error : Refused(error)
  BY <1>1, <1>3, RefusedInv
<1>4. CASE /\ Started(compiled, FeatureAdapters(builder))
           /\ c.verdict.error = "ok" /\ FirstOf(verdicts) = "ok"
  <2>1. builder.manifest[1] \in Manifests /\ HasProbe(builder, host, caller.probes)
    BY <1>1 DEF FInv, Drafted
  <2>2. Vetted(graph, c.route, host, caller.probes) /\ graph = Plan(builder.manifest[1])
    BY <1>4, <2>1, CompilesVetted
  <2>3. DOMAIN graph.pipelines \subseteq Nat
    <3>1. PICK m \in Manifests : graph = Plan(m)
      BY <2>1, <2>2
    <3> HIDE DEF graph
    <3>2. graph.pipelines = [i \in DOMAIN m.pipelines |-> CompilePipeline(m.pipelines[i])]
      BY <3>1, PlanFields
    <3>3. DOMAIN graph.pipelines = DOMAIN m.pipelines
      BY <3>2
    <3> QED BY <3>3, ManifestPlaces
  <2>4. \A i \in DOMAIN graph.pipelines : Missing(graph.pipelines[i]) = "ok"
    <3>1. DOMAIN verdicts = DOMAIN graph.pipelines
      OBVIOUS
    <3>2. \A i \in DOMAIN verdicts : verdicts[i] = "ok"
      <4> HIDE DEF verdicts
      <4> QED BY <1>4, <2>3, <3>1, FirstDecides
    <3> HIDE DEF graph
    <3> QED BY <3>1, <3>2
  <2> HIDE DEF graph
  <2>5. Equipped(graph, FeatureAdapters(builder), host)
    <3>1. /\ FeatureAdapters(builder).ffmpeg = Has("ffmpeg")
          /\ FeatureAdapters(builder).provider = (Has("pi") /\ builder.provider)
          /\ FeatureAdapters(builder).tracks = builder.tracks
      BY DEF FeatureAdapters
    <3> QED BY <2>4, <3>1, MissingNothing DEF Equipped, Has
  <2>6. compiled.graph = graph /\ compiled.route = c.route
    OBVIOUS
  <2> HIDE DEF compiled, c
  <2> QED BY <1>1, <1>4, <2>2, <2>5, <2>6, StartedInv
<1> QED BY <1>2, <1>3, <1>4

LEMMA BuildInv == ASSUME FInv, NEW i \in DOMAIN built, Build(i) PROVE FInv'
<1> DEFINE verdict == BuildPipeline(engine[1].graph.pipelines[i], engine[1].adapters, host)
<1>1. /\ engine # <<>> /\ UNCHANGED <<host, caller, builder, engine>>
      /\ built' = [built EXCEPT ![i] = verdict]
  BY DEF Build
<1>2. Drafted'
  BY <1>1 DEF FInv, Drafted
<1>3. DOMAIN built' = DOMAIN built /\ \A j \in DOMAIN built : built'[j] = IF j = i THEN verdict ELSE built[j]
  <2> HIDE DEF verdict
  <2> QED BY <1>1
<1>4. Launched'
  BY <1>1, <1>3 DEF FInv, Launched
<1> QED BY <1>2, <1>4 DEF FInv

LEMMA FollowInv == ASSUME FInv, NEW i \in DOMAIN built, StartAttempt(i) PROVE FInv'
<1>1. host' = NoHost /\ caller' = NoCaller /\ builder' = NoBuilder /\ engine' = <<>>
  BY DEF StartAttempt
<1>2. NoHost \in Host
  <2>1. <<"none", "none">> \in [1 .. 2 -> Model]
    BY DEF Model
  <2> QED BY <2>1 DEF NoHost, Host
<1>3. NoCaller.manifests \subseteq Manifests /\ NoCaller.probes \subseteq CapabilityProbe
  BY DEF NoCaller
<1> QED BY <1>1, <1>2, <1>3, EmptyBuilder DEF FInv, Drafted, HasProbe, Launched

LEMMA NextFInv == ASSUME FInv, [Next]_vars PROVE FInv'
<1>1. CASE UNCHANGED facadeVars
  BY <1>1 DEF facadeVars, FInv, Drafted, HasProbe, Launched
<1>2. CASE \E i \in DOMAIN built : StartAttempt(i)
  BY <1>2, FollowInv
<1>3. CASE FacadeNext
  <2>1. CASE \E m \in caller.manifests : FromManifestStr(m) \/ WithManifest(m) \/ WithCompiledGraph(m)
    BY <2>1, SetUpInv
  <2>2. CASE \E i \in DOMAIN built : Build(i)
    BY <2>2, BuildInv
  <2> QED BY <1>3, <2>1, <2>2, OptionsInv, RuntimeCompileInv, RuntimeStartInv, PipelineStartInv
       DEF FacadeNext
<1> QED BY <1>1, <1>2, <1>3 DEF Next, vars

LEMMA FacadeInductive == Spec => []FInv
BY InitFInv, NextFInv, PTL DEF Spec
-----------------------------------------------------------------------------
(* The model a probe detects.                                              *)
LEMMA ModelOf == ASSUME NEW h \in Host PROVE DetectModel(h) \in Model
<1>1. h.models[1] \in Model /\ h.models[2] \in Model
  BY DEF Host
<1> QED BY <1>1 DEF DetectModel

(* What the composite of the features' probes says: no two of them ever    *)
(* disagree, and the Linux probe alone names the model.                    *)
ProbedHas(h, target) ==
  (IF "ffmpeg" \in h.features THEN FfmpegProbe(h).has ELSE {})
  \cup (IF "webrtc" \in h.features THEN {"rtp"} ELSE {})
  \cup (IF "pi" \in h.features THEN LinuxProbe(h, target).has ELSE {})
ProbedModel(h) == IF "pi" \in h.features THEN DetectModel(h) ELSE "none"

LEMMA Merged ==
  ASSUME NEW has, NEW caps
  PROVE  Composite(<<[pi |-> "none", has |-> has]>>, caps) = <<[pi |-> caps.pi, has |-> has \cup caps.has]>>
BY DEF Composite, Disagree, Merge

LEMMA ProbeSays ==
  ASSUME NEW h \in Host, NEW target
  PROVE  /\ FeatureProbe(h, target) # <<>>
         /\ FeatureProbe(h, target)[1].pi = ProbedModel(h)
         /\ FeatureProbe(h, target)[1].has = ProbedHas(h, target)
<1> DEFINE Push(merged, feature, caps) ==
             IF feature \in h.features THEN Composite(merged, caps) ELSE merged
           A == IF "ffmpeg" \in h.features THEN FfmpegProbe(h).has ELSE {}
           B == IF "webrtc" \in h.features THEN {"rtp"} ELSE {}
           C == IF "pi" \in h.features THEN LinuxProbe(h, target).has ELSE {}
<1>1. Push(<<[pi |-> "none", has |-> {}]>>, "ffmpeg", FfmpegProbe(h)) = <<[pi |-> "none", has |-> A]>>
  <2>1. FfmpegProbe(h).pi = "none"
    BY DEF FfmpegProbe
  <2>2. {} \cup FfmpegProbe(h).has = FfmpegProbe(h).has
    OBVIOUS
  <2> QED BY <2>1, <2>2, Merged
<1>2. Push(<<[pi |-> "none", has |-> A]>>, "webrtc", WebRtcProbe) = <<[pi |-> "none", has |-> A \cup B]>>
  <2>1. WebRtcProbe.pi = "none" /\ WebRtcProbe.has = {"rtp"}
    BY DEF WebRtcProbe
  <2> HIDE DEF A
  <2>2. A \cup {} = A
    OBVIOUS
  <2> QED BY <2>1, <2>2, Merged
<1>3. Push(<<[pi |-> "none", has |-> A \cup B]>>, "pi", LinuxProbe(h, target))
        = <<[pi |-> ProbedModel(h), has |-> A \cup B \cup C]>>
  <2>1. LinuxProbe(h, target).pi = DetectModel(h)
    BY DEF LinuxProbe
  <2> HIDE DEF A, B
  <2>2. A \cup B \cup {} = A \cup B
    OBVIOUS
  <2> QED BY <2>1, <2>2, Merged DEF ProbedModel
<1>4. FeatureProbe(h, target) = <<[pi |-> ProbedModel(h), has |-> A \cup B \cup C]>>
  <2>1. FeatureProbe(h, target) =
          Push(Push(Push(<<[pi |-> "none", has |-> {}]>>, "ffmpeg", FfmpegProbe(h)), "webrtc", WebRtcProbe),
               "pi", LinuxProbe(h, target))
    BY DEF FeatureProbe
  <2> HIDE DEF A, B, C, Push
  <2> QED BY <1>1, <1>2, <1>3, <2>1
<1>5. ProbedHas(h, target) = A \cup B \cup C
  BY DEF ProbedHas
<1> HIDE DEF A, B, C
<1> QED BY <1>4, <1>5

(* No graph for a Raspberry Pi runs unless the probe asked last, be it the *)
(* features' or the caller's, has not named the other model, or the caller *)
(* handed in a graph of its own, in whatever order the builder's calls     *)
(* came.                                                                   *)
THEOREM TargetIsGuarded == Spec => []TargetGuarded
<1>1. FInv => TargetGuarded
  <2> SUFFICES ASSUME FInv, engine # <<>>, engine[1].graph.target # "generic",
                      engine[1].route # "unchecked"
               PROVE  \/ /\ engine[1].route = "features"
                         /\ Has("pi") => DetectModel(host) \in {"none", engine[1].graph.target}
                      \/ /\ engine[1].route = "caller"
                         /\ \E probe \in caller.probes :
                              /\ probe[engine[1].graph.target] # <<>>
                              /\ probe[engine[1].graph.target][1].pi
                                   \in {"none", engine[1].graph.target}
    BY DEF TargetGuarded, Running, Graph
  <2>1. PICK m \in Manifests :
          /\ engine[1].graph = Plan(m)
          /\ engine[1].route \in {"unchecked", "generic", "features", "caller"}
          /\ engine[1].route = "generic" => m.target = "generic"
          /\ engine[1].route = "features" => Probed(m, host)
          /\ engine[1].route = "caller" => Vouched(m, caller.probes)
    BY DEF FInv, Launched, Vetted
  <2>2. engine[1].graph.target = m.target /\ engine[1].route \in {"features", "caller"}
    BY <2>1, PlanFields
  <2>3. host \in Host /\ caller.probes \subseteq CapabilityProbe
    BY DEF FInv, Drafted
  <2>4. m.target \in {"pi4", "pi5"} /\ DetectModel(host) \in {"none", "pi4", "pi5"}
    BY <2>2, <2>3, ManifestTypes, ModelOf DEF Model
  <2>5. CASE engine[1].route = "features"
    <3>1. {m.target, ProbedModel(host)} # {"pi4", "pi5"}
      BY <2>1, <2>3, <2>5, ProbeSays DEF Probed, HostMismatch
    <3>2. CASE Has("pi")
      <4>1. ProbedModel(host) = DetectModel(host)
        BY <3>2 DEF ProbedModel, Has
      <4> QED BY <2>2, <2>4, <2>5, <3>1, <4>1
    <3> QED BY <2>5, <3>2
  <2>6. CASE engine[1].route = "caller"
    <3>1. PICK probe \in caller.probes :
            probe[m.target] # <<>> /\ ~HostMismatch(m, probe[m.target][1])
      BY <2>1, <2>6 DEF Vouched
    <3>2. probe[m.target] \in [1 .. 1 -> HostCapabilities]
      BY <2>3, <2>4, <3>1 DEF CapabilityProbe, HardwareTarget
    <3>3. probe[m.target][1] \in HostCapabilities
      BY <3>2
    <3>4. probe[m.target][1].pi \in {"none", "pi4", "pi5"}
      BY <3>3 DEF HostCapabilities, Model
    <3>5. probe[m.target][1].pi \in {"none", m.target}
      BY <2>4, <3>1, <3>4 DEF HostMismatch
    <3> QED BY <2>2, <2>6, <3>1, <3>5
  <2> QED BY <2>2, <2>5, <2>6
<1> QED BY <1>1, FacadeInductive, PTL
-----------------------------------------------------------------------------
(* The compiler copies a pipeline's fields, or derives them.               *)
LEMMA CompiledFields ==
  ASSUME NEW p
  PROVE  LET c == CompilePipeline(p) IN
         /\ c.id = p.id /\ c.input = p.input /\ c.type = p.type /\ c.strategy = p.strategy
         /\ c.network = p.network /\ c.processing = p.processing /\ c.overlay = p.overlay
         /\ c.outputs = p.outputs /\ c.backend = ResolveBackend(p) /\ c.codec_path = CodecPath(p)
         /\ c.requirements = Requirements(p)
BY DEF CompilePipeline

LEMMA NodeTypes ==
  ASSUME NEW p \in PipelineNode
  PROVE  /\ p.type \in InputType /\ p.strategy \in Strategy /\ Backend(p) \in InputBackend
         /\ p.outputs \in Seq(OutputProfile)
<1>1. p.backend = <<>> \/ p.backend \in [1 .. 1 -> InputBackend]
  BY DEF PipelineNode, Option
<1>2. p.backend # <<>> => p.backend[1] \in InputBackend
  BY <1>1
<1>3. Backend(p) \in InputBackend
  BY <1>2 DEF Backend, InputBackend
<1> QED BY <1>3 DEF PipelineNode

LEMMA BackendOf ==
  ASSUME NEW p \in PipelineNode
  PROVE  /\ ResolveBackend(p) = "FfmpegRtsp" <=> p.type = "rtsp"
         /\ ResolveBackend(p) = "AutoDevice" <=> p.type = "device" /\ Backend(p) \in {"auto", "ffmpeg"}
         /\ ResolveBackend(p) = "V4l2Device" <=> p.type = "device" /\ Backend(p) = "v4l2"
         /\ ResolveBackend(p) = "LibcameraDevice" <=> p.type = "device" /\ Backend(p) = "libcamera"
         /\ ResolveBackend(p) \in {"FfmpegRtsp", "AutoDevice", "V4l2Device", "LibcameraDevice"}
BY NodeTypes DEF ResolveBackend, InputType, InputBackend

LEMMA PathOf ==
  ASSUME NEW p \in PipelineNode
  PROVE  /\ CodecPath(p) = "Passthrough" <=> p.strategy = "passthrough"
         /\ CodecPath(p) = "HardwareDecode" <=> p.strategy = "hardware_decode"
         /\ CodecPath(p) \in {"Passthrough", "HardwareDecode", "HardwareTranscode", "SoftwareTranscode"}
BY NodeTypes DEF CodecPath, Strategy

LEMMA FirstIsOneOf == ASSUME NEW S, "ok" \in S, NEW v \in Seq(S) PROVE FirstOf(v) \in S
<1>1. DOMAIN v = 1 .. Len(v) /\ Len(v) \in Nat /\ \A i \in DOMAIN v : v[i] \in S
  BY LenProperties, ElementOfSeq
<1>2. DOMAIN v \subseteq Nat
  BY <1>1
<1> QED BY <1>1, <1>2, FirstDecides

LEMMA FirstIsHead ==
  ASSUME NEW v, DOMAIN v \subseteq Nat \ {0}, 1 \in DOMAIN v, v[1] # "ok" PROVE FirstOf(v) = v[1]
<1>1. DOMAIN v \subseteq Nat
  OBVIOUS
<1>2. PICK i \in DOMAIN v : v[i] = FirstOf(v) /\ \A j \in DOMAIN v : j < i => v[j] = "ok"
  BY <1>1, FirstDecides
<1>3. i = 1
  BY <1>2
<1> QED BY <1>2, <1>3

(* What building the stages of a pipeline may come to, once start has      *)
(* looked for its adapters.                                                *)
Expected(h) ==
  {"ok", "profile", "host", "panic"} \cup (IF "ffmpeg" \in h.features THEN {} ELSE {"unbuilt"})

LEMMA TranscodeExpected ==
  ASSUME NEW c, c.codec_path # "Passthrough" PROVE ValidateTranscodeSupport(c) \in {"ok", "profile"}
<1> DEFINE v == <<Check(c.codec_path # "Passthrough", "mismatch"),
                  Check(c.processing[1].encoder \in EncodersOf(c.codec_path), "profile"),
                  Check(c.processing[1].codec = "h264", "profile"),
                  Check(c.processing[1].rate > 0, "profile"),
                  Check(c.processing[1].rotation = <<>> \/ c.processing[1].rotation[1] \in Rotations,
                        "profile")>>
<1>1. /\ Check(c.codec_path # "Passthrough", "mismatch") = "ok"
      /\ \A b \in BOOLEAN : Check(b, "profile") \in {"ok", "profile"}
  BY DEF Check
<1>2. v \in Seq({"ok", "profile"})
  BY <1>1 DEF Check
<1>3. ValidateTranscodeSupport(c) = FirstOf(v)
  BY DEF ValidateTranscodeSupport
<1> HIDE DEF v
<1> QED BY <1>2, <1>3, FirstIsOneOf

LEMMA WorkerExpected ==
  ASSUME NEW p \in PipelineNode, ~Misconfigured(p), NEW h, ResolveBackend(p) # "LibcameraDevice"
  PROVE  WorkerVerdict(CompilePipeline(p), h) \in {"ok", "profile", "host"}
<1> DEFINE c == CompilePipeline(p)
           t == ValidateTranscodeSupport(c)
           o == ValidateOverlayRuntime(c, h)
<1>1. /\ c.type = p.type /\ c.backend = ResolveBackend(p) /\ c.strategy = p.strategy
      /\ c.processing = p.processing /\ c.codec_path = CodecPath(p)
  BY CompiledFields
<1>2. o \in {"ok", "host"}
  BY DEF ValidateOverlayRuntime, Check
<1> HIDE DEF c, o
<1>3. CASE p.strategy = "passthrough"
  <2>1. ~(c.type = "device" /\ c.backend \notin {"AutoDevice", "V4l2Device"})
    BY <1>1, BackendOf
  <2> QED BY <1>1, <1>3, <2>1 DEF WorkerVerdict, c
<1>4. CASE p.strategy # "passthrough"
  <2>1. ~(c.type = "device" /\ c.backend \notin {"AutoDevice", "V4l2Device"}) /\ c.processing # <<>>
    BY <1>1, <1>4, BackendOf DEF Misconfigured
  <2>2. t \in {"ok", "profile"}
    BY <1>1, <1>4, PathOf, TranscodeExpected
  <2>3. WorkerVerdict(c, h) = FirstOf(<<t, o>>)
    BY <1>1, <1>4, <2>1 DEF WorkerVerdict, o
  <2> HIDE DEF t
  <2>4. <<t, o>> \in Seq({"ok", "profile", "host"})
    BY <1>2, <2>2
  <2>5. FirstOf(<<t, o>>) \in {"ok", "profile", "host"}
    BY <2>4, FirstIsOneOf
  <2> QED BY <2>3, <2>5 DEF c
<1> QED BY <1>3, <1>4

LEMMA SourceExpected ==
  ASSUME NEW p \in PipelineNode, ~Misconfigured(p), NEW h, NEW adapters,
         adapters.ffmpeg = ("ffmpeg" \in h.features),
         ResolveBackend(p) = "LibcameraDevice" => "pi" \in h.features /\ adapters.provider
  PROVE  SourceVerdict(CompilePipeline(p), adapters, h) \in Expected(h)
<1> DEFINE c == CompilePipeline(p)
<1>1. c.type = p.type /\ c.backend = ResolveBackend(p)
  BY CompiledFields
<1>2. CASE ResolveBackend(p) = "LibcameraDevice"
  <2> DEFINE v == <<Check("pi" \in h.features, "unbuilt"), Check(adapters.provider, "no_adapter"),
                    LibcameraVerdict(c)>>
  <2>1. SourceVerdict(c, adapters, h) = FirstOf(v)
    BY <1>1, <1>2 DEF SourceVerdict
  <2>2. LibcameraVerdict(c) = "ok"
    BY <1>1, <1>2, BackendOf DEF LibcameraVerdict, Check
  <2> HIDE DEF c
  <2>3. v \in Seq({"ok"})
    BY <1>2, <2>2 DEF Check
  <2> HIDE DEF v
  <2>4. FirstOf(v) \in {"ok"}
    BY <2>3, FirstIsOneOf
  <2> QED BY <2>1, <2>4 DEF Expected, c
<1>3. CASE ResolveBackend(p) # "LibcameraDevice"
  <2> DEFINE v == <<Check("ffmpeg" \in h.features, "unbuilt"), Check(adapters.ffmpeg, "no_adapter"),
                    FfmpegVerdict(c, h)>>
  <2>1. SourceVerdict(c, adapters, h) = FirstOf(v)
    BY <1>1, <1>3 DEF SourceVerdict
  <2>2. FfmpegVerdict(c, h) \in {"ok", "profile", "host"}
    BY <1>3, WorkerExpected DEF FfmpegVerdict
  <2> HIDE DEF c
  <2>3. CASE "ffmpeg" \in h.features
    <3>0. Check("ffmpeg" \in h.features, "unbuilt") = "ok" /\ Check(adapters.ffmpeg, "no_adapter") = "ok"
      BY <2>3 DEF Check
    <3>1. v \in Seq({"ok", "profile", "host"})
      BY <2>2, <3>0
    <3> HIDE DEF v
    <3>2. FirstOf(v) \in {"ok", "profile", "host"}
      BY <3>1, FirstIsOneOf
    <3> QED BY <2>1, <3>2 DEF Expected, c
  <2>4. CASE "ffmpeg" \notin h.features
    <3>1. v[1] = "unbuilt" /\ DOMAIN v = 1 .. 3
      BY <2>4 DEF Check
    <3> HIDE DEF v
    <3>2. FirstOf(v) = "unbuilt"
      BY <3>1, FirstIsHead
    <3> QED BY <2>1, <2>4, <3>2 DEF Expected, c
  <2> QED BY <2>3, <2>4
<1> QED BY <1>2, <1>3

LEMMA SinkExpected ==
  ASSUME NEW c, NEW i \in DOMAIN c.outputs, NEW h, NEW adapters,
         (\E o \in DOMAIN c.outputs : c.outputs[o].kind = "webrtc") =>
            "webrtc" \in h.features /\ c.id \in adapters.tracks,
         c.outputs[i].kind \in {"webrtc", "recording"}
  PROVE  SinkVerdict(c, i, adapters, h) \in {"ok", "profile"}
<1>1. CASE c.outputs[i].kind = "recording"
  BY <1>1 DEF SinkVerdict
<1>2. CASE c.outputs[i].kind = "webrtc"
  <2> DEFINE v == <<Check("webrtc" \in h.features, "unbuilt"), Check(c.id \in adapters.tracks, "no_adapter"),
                    WebRtcSinkVerdict(c)>>
  <2>1. SinkVerdict(c, i, adapters, h) = FirstOf(v)
    BY <1>2 DEF SinkVerdict
  <2>2. WebRtcSinkVerdict(c) \in {"ok", "profile"}
    BY DEF WebRtcSinkVerdict, Check
  <2>3. v \in Seq({"ok", "profile"})
    BY <1>2, <2>2 DEF Check
  <2> HIDE DEF v
  <2> QED BY <2>1, <2>3, FirstIsOneOf
<1> QED BY <1>1, <1>2

LEMMA BuildExpected ==
  ASSUME NEW p \in PipelineNode, ~Misconfigured(p), NEW h, NEW adapters,
         adapters.ffmpeg = ("ffmpeg" \in h.features),
         (\E o \in DOMAIN p.outputs : p.outputs[o].kind = "webrtc") =>
            "webrtc" \in h.features /\ p.id \in adapters.tracks,
         ResolveBackend(p) = "LibcameraDevice" => "pi" \in h.features /\ adapters.provider
  PROVE  BuildPipeline(CompilePipeline(p), adapters, h) \in Expected(h)
<1> DEFINE c == CompilePipeline(p)
           source == SourceVerdict(c, adapters, h)
           router == RouterVerdict(c)
           sinks == [i \in DOMAIN c.outputs |-> SinkVerdict(c, i, adapters, h)]
           S == Expected(h)
<1>1. c.outputs = p.outputs /\ c.id = p.id
  BY CompiledFields
<1>2. source \in S
  BY SourceExpected
<1>3. router \in {"ok", "panic"}
  BY DEF RouterVerdict, Check
<1>4. BuildPipeline(c, adapters, h) = FirstOf(<<source>> \o sinks \o <<router>>)
  BY DEF BuildPipeline
<1>5. /\ DOMAIN c.outputs = 1 .. Len(p.outputs) /\ Len(p.outputs) \in Nat
      /\ \A i \in DOMAIN c.outputs : c.outputs[i].kind \in {"webrtc", "recording"}
  <2>1. p.outputs \in Seq(OutputProfile)
    BY NodeTypes
  <2>2. \A i \in 1 .. Len(p.outputs) : p.outputs[i].kind \in {"webrtc", "recording"}
    <3>1. \A i \in 1 .. Len(p.outputs) : p.outputs[i] \in OutputProfile
      BY <2>1, ElementOfSeq
    <3>2. \A o \in OutputProfile : o.kind \in {"webrtc", "recording"}
      BY DEF OutputProfile
    <3> QED BY <3>1, <3>2
  <2> QED BY <1>1, <2>1, <2>2, LenProperties
<1> HIDE DEF c, source, router
<1>6. \A i \in DOMAIN c.outputs : SinkVerdict(c, i, adapters, h) \in {"ok", "profile"}
  BY <1>1, <1>5, SinkExpected
<1>7. S = Expected(h) /\ {"ok", "profile", "panic"} \subseteq S
  BY DEF Expected
<1> HIDE DEF S
<1>8. sinks \in Seq(S)
  <2>1. sinks \in [1 .. Len(p.outputs) -> S]
    BY <1>5, <1>6, <1>7
  <2> QED BY <1>5, <2>1, SeqDef
<1> HIDE DEF sinks
<1>9. <<source>> \in Seq(S) /\ <<router>> \in Seq(S)
  BY <1>2, <1>3, <1>7
<1>10. <<source>> \o sinks \o <<router>> \in Seq(S)
  BY <1>8, <1>9, ConcatProperties
<1>11. FirstOf(<<source>> \o sinks \o <<router>>) \in S
  BY <1>7, <1>10, FirstIsOneOf
<1> QED BY <1>4, <1>7, <1>11 DEF c

(* What CamlPipelineBuilder starts never fails for want of an adapter or   *)
(* because compiler, front end and worker disagree: for any manifest, any  *)
(* host and any order of the builder's calls.                              *)
THEOREM AdaptersDoSuffice == Spec => []AdaptersSuffice
<1>1. FInv => AdaptersSuffice
  <2> SUFFICES ASSUME FInv, engine # <<>>, engine[1].by = "pipeline", NEW i \in DOMAIN built
               PROVE  /\ built[i] \notin {"no_adapter", "mismatch"}
                      /\ built[i] = "unbuilt" => ~Has("ffmpeg")
    BY DEF AdaptersSuffice, Running
  <2>1. /\ Equipped(engine[1].graph, engine[1].adapters, host)
        /\ DOMAIN built = DOMAIN engine[1].graph.pipelines
        /\ built[i] \in {"pending", BuildPipeline(engine[1].graph.pipelines[i], engine[1].adapters, host)}
    BY DEF FInv, Launched
  <2>2. PICK m \in Manifests :
          /\ engine[1].graph = Plan(m)
          /\ \A k \in DOMAIN m.pipelines : ~Misconfigured(m.pipelines[k])
    BY DEF FInv, Launched, Vetted
  <2>3. PICK p : p = m.pipelines[i]
    OBVIOUS
  <2>4. i \in DOMAIN m.pipelines /\ engine[1].graph.pipelines[i] = CompilePipeline(p)
    <3>1. engine[1].graph.pipelines = [k \in DOMAIN m.pipelines |-> CompilePipeline(m.pipelines[k])]
      BY <2>2, PlanFields
    <3>2. DOMAIN engine[1].graph.pipelines = DOMAIN m.pipelines
      BY <3>1
    <3> QED BY <2>1, <2>3, <3>1, <3>2
  <2>5. p \in PipelineNode /\ ~Misconfigured(p)
    BY <2>2, <2>3, <2>4, ManifestPlaces
  <2>6. /\ engine[1].adapters.ffmpeg = ("ffmpeg" \in host.features)
        /\ (\E o \in DOMAIN p.outputs : p.outputs[o].kind = "webrtc") =>
              "webrtc" \in host.features /\ p.id \in engine[1].adapters.tracks
        /\ ResolveBackend(p) = "LibcameraDevice" => "pi" \in host.features /\ engine[1].adapters.provider
    <3> DEFINE c == engine[1].graph.pipelines[i]
    <3>1. c.outputs = p.outputs /\ c.id = p.id /\ c.backend = ResolveBackend(p)
      BY <2>4, CompiledFields
    <3>2. /\ engine[1].adapters.ffmpeg = ("ffmpeg" \in host.features)
          /\ (\E o \in DOMAIN c.outputs : c.outputs[o].kind = "webrtc") =>
                "webrtc" \in host.features /\ c.id \in engine[1].adapters.tracks
          /\ c.backend = "LibcameraDevice" => "pi" \in host.features /\ engine[1].adapters.provider
      BY <2>1 DEF Equipped
    <3> HIDE DEF c
    <3> QED BY <3>1, <3>2
  <2>7. BuildPipeline(CompilePipeline(p), engine[1].adapters, host) \in Expected(host)
    BY <2>5, <2>6, BuildExpected
  <2> QED BY <2>1, <2>4, <2>7 DEF Expected, Has
<1> QED BY <1>1, FacadeInductive, PTL
-----------------------------------------------------------------------------
(* What follows for the host from a capability the probe says it has.      *)
LEMMA HasMeans ==
  ASSUME NEW h, NEW target
  PROVE  /\ \A f \in Filter : f \in ProbedHas(h, target) =>
              "ffmpeg" \in h.features /\ h.ffmpeg /\ f \in h.parts
         /\ "ffmpeg" \in ProbedHas(h, target) => "ffmpeg" \in h.features /\ h.ffmpeg
         /\ "rtp" \in ProbedHas(h, target) => "webrtc" \in h.features
         /\ "libcamera" \in ProbedHas(h, target) => "pi" \in h.features /\ h.libcamera
         /\ "v4l2" \in ProbedHas(h, target) =>
              \/ h.ffmpeg /\ "video4linux2" \in h.parts
              \/ "pi" \in h.features /\ h.video # {}
         /\ "pi4_encoder" \in ProbedHas(h, target) =>
              \/ h.ffmpeg /\ "h264_v4l2m2m" \in h.parts
              \/ "pi" \in h.features /\ Pi4Encoder(h)
         /\ "pi5_decoder" \in ProbedHas(h, target) =>
              \/ h.ffmpeg /\ h.parts \cap {"h264_v4l2request", "hevc_v4l2request"} # {}
              \/ "pi" \in h.features /\ Pi5Decoder(h, target)
<1> DEFINE has == ProbedHas(h, target)
           L == LinuxProbe(h, target).has
           F == FfmpegProbe(h).has
<1>1. \A x : x \in has <=> \/ "ffmpeg" \in h.features /\ x \in F
                           \/ "webrtc" \in h.features /\ x = "rtp"
                           \/ "pi" \in h.features /\ x \in L
  BY DEF ProbedHas
<1>2. \A x : x \in L <=> \/ x = "v4l2" /\ h.video # {}
                         \/ x = "libcamera" /\ h.libcamera
                         \/ x = "pi4_encoder" /\ Pi4Encoder(h)
                         \/ x = "pi5_decoder" /\ Pi5Decoder(h, target)
  BY DEF LinuxProbe, When
<1>3. \A x : x \in F <=> /\ h.ffmpeg
                         /\ \/ x = "ffmpeg"
                            \/ x \in h.parts \cap Filter
                            \/ x = "v4l2" /\ "video4linux2" \in h.parts
                            \/ x = "pi4_encoder" /\ "h264_v4l2m2m" \in h.parts
                            \/ /\ x = "pi5_decoder"
                               /\ h.parts \cap {"h264_v4l2request", "hevc_v4l2request"} # {}
  BY DEF FfmpegProbe, When
<1> HIDE DEF has, L, F
<1>4. ASSUME NEW f \in Filter, f \in has PROVE "ffmpeg" \in h.features /\ h.ffmpeg /\ f \in h.parts
  BY <1>1, <1>2, <1>3, <1>4 DEF Filter
<1>5. "ffmpeg" \in has => "ffmpeg" \in h.features /\ h.ffmpeg
  BY <1>1, <1>2, <1>3 DEF Filter
<1>6. "rtp" \in has => "webrtc" \in h.features
  BY <1>1, <1>2, <1>3 DEF Filter
<1>7. "libcamera" \in has => "pi" \in h.features /\ h.libcamera
  BY <1>1, <1>2, <1>3 DEF Filter
<1>8. "v4l2" \in has =>
         \/ h.ffmpeg /\ "video4linux2" \in h.parts
         \/ "pi" \in h.features /\ h.video # {}
  BY <1>1, <1>2, <1>3 DEF Filter
<1>9. "pi4_encoder" \in has =>
         \/ h.ffmpeg /\ "h264_v4l2m2m" \in h.parts
         \/ "pi" \in h.features /\ Pi4Encoder(h)
  BY <1>1, <1>2, <1>3 DEF Filter
<1>10. "pi5_decoder" \in has =>
         \/ h.ffmpeg /\ h.parts \cap {"h264_v4l2request", "hevc_v4l2request"} # {}
         \/ "pi" \in h.features /\ Pi5Decoder(h, target)
  BY <1>1, <1>2, <1>3 DEF Filter
<1> QED BY <1>4, <1>5, <1>6, <1>7, <1>8, <1>9, <1>10 DEF has

(* What a pipeline asks the host for.                                      *)
LEMMA Required ==
  ASSUME NEW p \in PipelineNode
  PROVE  /\ ResolveBackend(p) = "FfmpegRtsp" => "ffmpeg" \in Requirements(p)
         /\ ResolveBackend(p) = "V4l2Device" => "v4l2" \in Requirements(p)
         /\ ResolveBackend(p) = "LibcameraDevice" => "libcamera" \in Requirements(p)
         /\ (\E o \in DOMAIN p.outputs : p.outputs[o].kind = "webrtc") => "rtp" \in Requirements(p)
         /\ CodecPath(p) = "HardwareTranscode" => "pi4_encoder" \in Requirements(p)
         /\ CodecPath(p) = "HardwareDecode" => "pi5_decoder" \in Requirements(p)
         /\ FiltersUsed(p) \subseteq Requirements(p)
<1> DEFINE webrtc == \E o \in DOMAIN p.outputs : p.outputs[o].kind = "webrtc"
<1>1. \A x : x \in Requirements(p) <=>
               \/ x = "ffmpeg" /\ (p.type = "rtsp" \/ Backend(p) = "ffmpeg")
               \/ x = "v4l2" /\ p.type = "device" /\ Backend(p) = "v4l2"
               \/ x = "libcamera" /\ p.type = "device" /\ Backend(p) = "libcamera"
               \/ x = "rtp" /\ webrtc
               \/ x = "pi4_encoder" /\ CodecPath(p) = "HardwareTranscode"
               \/ x = "pi5_decoder" /\ p.strategy = "hardware_decode"
               \/ x \in FiltersUsed(p)
  BY DEF Requirements, When
<1> HIDE DEF webrtc
<1> QED BY <1>1, BackendOf, PathOf DEF webrtc

(* The layers of an overlay are of the three kinds.                        *)
LEMMA LayerTypes ==
  ASSUME NEW p \in PipelineNode, p.overlay # <<>>
  PROVE  \A i \in DOMAIN p.overlay[1] : p.overlay[1][i].kind \in {"timestamp", "text", "watermark"}
<1> DEFINE layers == p.overlay[1]
<1>1. p.overlay \in [1 .. 1 -> Seq(OverlayLayer)]
  BY DEF PipelineNode, Option
<1>2. layers \in Seq(OverlayLayer)
  BY <1>1
<1>3. \A layer \in OverlayLayer : layer.kind \in {"timestamp", "text", "watermark"}
  BY DEF OverlayLayer
<1> HIDE DEF layers
<1>4. \A i \in DOMAIN layers : layers[i] \in OverlayLayer
  BY <1>2, LenProperties, ElementOfSeq
<1> QED BY <1>3, <1>4 DEF layers

(* The compiler asks the probe for filters only, and for some as soon as   *)
(* there is an overlay with a layer.                                       *)
LEMMA OverlayAsks ==
  ASSUME NEW p \in PipelineNode
  PROVE  FiltersUsed(p) \subseteq Filter /\ (LayerKinds(p) # {} => FiltersUsed(p) # {})
<1>1. FiltersUsed(p) \subseteq Filter
  BY DEF FiltersUsed, When, Filter
<1>2. LayerKinds(p) \subseteq {"timestamp", "text", "watermark"}
  BY LayerTypes DEF LayerKinds
<1>3. "watermark" \in LayerKinds(p) => "overlay" \in FiltersUsed(p)
  BY DEF FiltersUsed
<1>4. LayerKinds(p) \cap {"timestamp", "text"} # {} => "drawtext" \in FiltersUsed(p)
  BY DEF FiltersUsed, When
<1> QED BY <1>1, <1>2, <1>3, <1>4

(* Of the four filters it can ask for the worker builds no other.          *)
LEMMA LayerAsked ==
  ASSUME NEW p \in PipelineNode, NEW layer, layer.kind \in LayerKinds(p),
         layer.kind \in {"timestamp", "text", "watermark"}
  PROVE  LayerFilters(layer) \subseteq FiltersUsed(p) \cup UnprobedFilter
<1>1. CASE layer.kind = "watermark"
  <2>1. LayerFilters(layer) \subseteq {"movie", "overlay", "scale", "format", "colorchannelmixer"}
    BY <1>1 DEF LayerFilters, When
  <2>2. {"overlay", "scale", "colorchannelmixer"} \subseteq FiltersUsed(p)
    BY <1>1 DEF FiltersUsed
  <2> QED BY <2>1, <2>2 DEF UnprobedFilter
<1>2. CASE layer.kind # "watermark"
  <2>1. LayerFilters(layer) = {"drawtext"}
    BY <1>2 DEF LayerFilters
  <2>2. LayerKinds(p) \cap {"timestamp", "text"} # {}
    BY <1>2
  <2>3. "drawtext" \in FiltersUsed(p)
    BY <2>2 DEF FiltersUsed, When
  <2> QED BY <2>1, <2>3
<1> QED BY <1>1, <1>2

LEMMA FiltersAsked ==
  ASSUME NEW p \in PipelineNode
  PROVE  FiltersBuilt(CompilePipeline(p)) \subseteq FiltersUsed(p) \cup UnprobedFilter
<1> DEFINE c == CompilePipeline(p)
<1>1. c.overlay = p.overlay
  BY CompiledFields
<1> HIDE DEF c
<1>2. RotationFilters(c) \subseteq UnprobedFilter
  BY DEF RotationFilters, UnprobedFilter
<1>3. {"buffer", "buffersink", "null"} \subseteq UnprobedFilter
  BY DEF UnprobedFilter
<1>4. CASE p.overlay = <<>>
  <2>1. FiltersBuilt(c) = {"buffer", "buffersink"} \cup RotationFilters(c)
    BY <1>1, <1>4 DEF FiltersBuilt
  <2> QED BY <2>1, <1>2, <1>3 DEF c
<1>5. CASE p.overlay # <<>>
  <2> DEFINE layers == p.overlay[1]
  <2>1. \A i \in DOMAIN layers : layers[i].kind \in {"timestamp", "text", "watermark"}
    BY <1>5, LayerTypes
  <2>2. LayerKinds(p) = {layers[i].kind : i \in DOMAIN layers}
    BY <1>5 DEF LayerKinds
  <2>3. FiltersBuilt(c) = {"buffer", "buffersink", "null"} \cup RotationFilters(c)
                          \cup UNION {LayerFilters(layers[i]) : i \in DOMAIN layers}
    BY <1>1, <1>5 DEF FiltersBuilt
  <2> HIDE DEF layers
  <2>4. ASSUME NEW i \in DOMAIN layers
        PROVE  LayerFilters(layers[i]) \subseteq FiltersUsed(p) \cup UnprobedFilter
    BY <2>1, <2>2, LayerAsked
  <2> QED BY <1>2, <1>3, <2>3, <2>4 DEF c
<1> QED BY <1>4, <1>5

(* The parts of FFmpeg a pipeline uses.                                    *)
LEMMA PartsAsked ==
  ASSUME NEW p \in PipelineNode
  PROVE  \A x \in PartsUsed(CompilePipeline(p)) :
           \/ x \in FiltersUsed(p)
           \/ x \in UnprobedFilter \cup {"libx264"}
           \/ x = "video4linux2" /\ ResolveBackend(p) = "V4l2Device"
           \/ x \in {"h264_v4l2request", "hevc_v4l2request"} /\ CodecPath(p) = "HardwareDecode"
           \/ x = "h264_v4l2m2m" /\ CodecPath(p) = "HardwareTranscode"
<1> DEFINE c == CompilePipeline(p)
<1>1. c.backend = ResolveBackend(p) /\ c.strategy = p.strategy /\ c.codec_path = CodecPath(p)
  BY CompiledFields
<1>2. FiltersBuilt(c) \subseteq FiltersUsed(p) \cup UnprobedFilter
  BY FiltersAsked
<1> HIDE DEF c
<1>3. \A codec : \A x \in DecoderPart(TranscodeBackend(c), codec) :
         p.strategy # "passthrough" =>
           x \in {"h264_v4l2request", "hevc_v4l2request"} /\ CodecPath(p) = "HardwareDecode"
  BY <1>1, PathOf DEF DecoderPart, TranscodeBackend
<1>4. ASSUME NEW x \in PartsUsed(c)
      PROVE  \/ x \in FiltersBuilt(c)
             \/ x = "libx264"
             \/ x = "video4linux2" /\ c.backend = "V4l2Device"
             \/ /\ c.strategy # "passthrough"
                /\ \E codec : x \in DecoderPart(TranscodeBackend(c), codec)
             \/ x = "h264_v4l2m2m" /\ c.codec_path = "HardwareTranscode"
  BY <1>4 DEF PartsUsed, When
<1> QED BY <1>1, <1>2, <1>3, <1>4 DEF c

(* A compiled pipeline whose requirements the probe says the host meets.   *)
Served(c, target) ==
  /\ c.backend # "LibcameraDevice" =>
       \/ Has("ffmpeg") /\ host.ffmpeg
       \/ c.type = "device" /\ "ffmpeg" \notin c.requirements /\ LayerKinds(c) = {}
  /\ c.backend = "LibcameraDevice" => Has("pi") /\ host.libcamera
  /\ (\E o \in DOMAIN c.outputs : c.outputs[o].kind = "webrtc") => Has("webrtc")
  /\ Lacks(c) \cap Filter = {}
  /\ "video4linux2" \in Lacks(c) => Has("pi") /\ host.video # {}
  /\ "h264_v4l2m2m" \in Lacks(c) => Has("pi") /\ Pi4Encoder(host)
  /\ {"h264_v4l2request", "hevc_v4l2request"} \subseteq Lacks(c) =>
       Has("pi") /\ Pi5Decoder(host, target)

LEMMA ServedBy ==
  ASSUME NEW p \in PipelineNode, NEW target, Requirements(p) \subseteq ProbedHas(host, target)
  PROVE  Served(CompilePipeline(p), target)
<1> DEFINE c == CompilePipeline(p)
           has == ProbedHas(host, target)
<1>1. /\ c.backend = ResolveBackend(p) /\ c.outputs = p.outputs /\ c.codec_path = CodecPath(p)
      /\ c.type = p.type /\ c.requirements = Requirements(p) /\ LayerKinds(c) = LayerKinds(p)
  <2>1. /\ c.backend = ResolveBackend(p) /\ c.outputs = p.outputs /\ c.codec_path = CodecPath(p)
        /\ c.type = p.type /\ c.requirements = Requirements(p) /\ c.overlay = p.overlay
    BY CompiledFields
  <2> HIDE DEF c
  <2>2. LayerKinds(c) = LayerKinds(p)
    BY <2>1 DEF LayerKinds
  <2> QED BY <2>1, <2>2
<1>2. ASSUME NEW x \in Lacks(c) PROVE x \in PartsUsed(c) /\ ~(host.ffmpeg /\ x \in host.parts)
  BY DEF Lacks, PartsThere
<1>3. /\ \A x \in PartsUsed(c) :
           \/ x \in FiltersUsed(p)
           \/ x \in UnprobedFilter \cup {"libx264"}
           \/ x = "video4linux2" /\ ResolveBackend(p) = "V4l2Device"
           \/ x \in {"h264_v4l2request", "hevc_v4l2request"} /\ CodecPath(p) = "HardwareDecode"
           \/ x = "h264_v4l2m2m" /\ CodecPath(p) = "HardwareTranscode"
      /\ FiltersUsed(p) \subseteq Filter
  BY PartsAsked, OverlayAsks
<1> HIDE DEF c
<1>4. c.backend # "LibcameraDevice" =>
        \/ Has("ffmpeg") /\ host.ffmpeg
        \/ c.type = "device" /\ "ffmpeg" \notin c.requirements /\ LayerKinds(c) = {}
  <2>1. p.type \in {"rtsp", "device"}
    BY NodeTypes DEF InputType
  <2>2. p.type = "rtsp" => "ffmpeg" \in has
    BY BackendOf, Required
  <2>3. "ffmpeg" \in c.requirements => "ffmpeg" \in has
    BY <1>1
  <2>4. LayerKinds(c) # {} => \E f \in Filter : f \in has
    BY <1>1, OverlayAsks, Required
  <2>5. "ffmpeg" \in has => Has("ffmpeg") /\ host.ffmpeg
    BY HasMeans DEF Has
  <2>6. (\E f \in Filter : f \in has) => Has("ffmpeg") /\ host.ffmpeg
    BY HasMeans DEF Has
  <2> HIDE DEF has
  <2> QED BY <1>1, <2>1, <2>2, <2>3, <2>4, <2>5, <2>6
<1>5. c.backend = "LibcameraDevice" => Has("pi") /\ host.libcamera
  BY <1>1, Required, HasMeans DEF Has
<1>6. (\E o \in DOMAIN c.outputs : c.outputs[o].kind = "webrtc") => Has("webrtc")
  <2>1. (\E o \in DOMAIN p.outputs : p.outputs[o].kind = "webrtc") => "rtp" \in has
    BY Required
  <2>2. "rtp" \in has => Has("webrtc")
    BY HasMeans DEF Has
  <2> HIDE DEF has
  <2> QED BY <1>1, <2>1, <2>2
<1>7. ASSUME NEW f \in Lacks(c), f \in Filter PROVE FALSE
  <2>1. f \in FiltersUsed(p)
    BY <1>2, <1>3, <1>7 DEF Filter, UnprobedFilter
  <2>2. f \in has
    BY <2>1, Required
  <2> QED BY <1>2, <1>7, <2>2, HasMeans
<1>8. "video4linux2" \in Lacks(c) => Has("pi") /\ host.video # {}
  <2> SUFFICES ASSUME "video4linux2" \in Lacks(c) PROVE Has("pi") /\ host.video # {}
    OBVIOUS
  <2>1. ResolveBackend(p) = "V4l2Device"
    BY <1>2, <1>3 DEF Filter, UnprobedFilter
  <2>2. "v4l2" \in has
    BY <2>1, Required
  <2> QED BY <1>2, <2>2, HasMeans DEF Has
<1>9. "h264_v4l2m2m" \in Lacks(c) => Has("pi") /\ Pi4Encoder(host)
  <2> SUFFICES ASSUME "h264_v4l2m2m" \in Lacks(c) PROVE Has("pi") /\ Pi4Encoder(host)
    OBVIOUS
  <2>1. CodecPath(p) = "HardwareTranscode"
    BY <1>2, <1>3 DEF Filter, UnprobedFilter
  <2>2. "pi4_encoder" \in has
    BY <2>1, Required
  <2> QED BY <1>2, <2>2, HasMeans DEF Has
<1>10. {"h264_v4l2request", "hevc_v4l2request"} \subseteq Lacks(c) =>
         Has("pi") /\ Pi5Decoder(host, target)
  <2> SUFFICES ASSUME {"h264_v4l2request", "hevc_v4l2request"} \subseteq Lacks(c)
               PROVE  Has("pi") /\ Pi5Decoder(host, target)
    OBVIOUS
  <2>1. "h264_v4l2request" \in Lacks(c) /\ "hevc_v4l2request" \in Lacks(c)
    OBVIOUS
  <2>2. CodecPath(p) = "HardwareDecode"
    BY <1>2, <1>3, <2>1 DEF Filter, UnprobedFilter
  <2>3. "pi5_decoder" \in has
    BY <2>2, Required
  <2>4. ~(host.ffmpeg /\ host.parts \cap {"h264_v4l2request", "hevc_v4l2request"} # {})
    BY <1>2, <2>1
  <2> QED BY <2>3, <2>4, HasMeans DEF Has
<1> HIDE DEF has
<1> QED BY <1>4, <1>5, <1>6, <1>7, <1>8, <1>9, <1>10 DEF c, Served

(* A graph that was compiled with the features' probe runs on a host that  *)
(* has what the compiler asked for, whatever the manifest, the overlays    *)
(* and the names of the host's devices.  What may be missing is what it    *)
(* does not ask for: FFmpeg, for a device named neither by backend nor     *)
(* through an overlay; the filters and the software encoder no probe looks *)
(* for; and the codecs and the input a probe took devices, or the build's  *)
(* other decoder, for.                                                     *)
THEOREM HostDoesServe == Spec => []HostServes
<1>1. FInv => HostServes
  <2> SUFFICES ASSUME FInv, engine # <<>>, engine[1].route = "features",
                      NEW i \in DOMAIN engine[1].graph.pipelines
               PROVE  Served(engine[1].graph.pipelines[i], engine[1].graph.target)
    BY DEF HostServes, Running, Graph, Pipeline, Served
  <2>1. PICK m \in Manifests : engine[1].graph = Plan(m) /\ Probed(m, host)
    BY DEF FInv, Launched, Vetted
  <2>2. host \in Host
    BY DEF FInv, Drafted
  <2>3. PICK p : p = m.pipelines[i]
    OBVIOUS
  <2>4. /\ i \in DOMAIN m.pipelines /\ engine[1].graph.pipelines[i] = CompilePipeline(p)
        /\ engine[1].graph.target = m.target
    <3>1. engine[1].graph.pipelines = [k \in DOMAIN m.pipelines |-> CompilePipeline(m.pipelines[k])]
      BY <2>1, PlanFields
    <3>2. DOMAIN engine[1].graph.pipelines = DOMAIN m.pipelines
      BY <3>1
    <3> QED BY <2>1, <2>3, <3>1, <3>2, PlanFields
  <2>5. p \in PipelineNode
    BY <2>3, <2>4, ManifestPlaces
  <2>6. Requirements(p) \subseteq ProbedHas(host, m.target)
    <3>1. ~Unsupported(m, p, FeatureProbe(host, m.target)[1])
      BY <2>1, <2>3, <2>4 DEF Probed
    <3> QED BY <2>2, <3>1, ProbeSays DEF Unsupported
  <2> QED BY <2>4, <2>5, <2>6, ServedBy
<1> QED BY <1>1, FacadeInductive, PTL
-----------------------------------------------------------------------------
(* A recursive function that steps from each number to the next exists.    *)
LEMMA StepsExist ==
  ASSUME NEW N \in Nat, NEW step \in [1 .. N -> [Nat -> Nat]]
  PROVE  \E f \in [0 .. N -> Nat] : f[0] = 0 /\ \A n \in 1 .. N : f[n] = step[n][f[n - 1]]
<1> DEFINE Upto(k) == \E f \in [0 .. k -> Nat] :
                        f[0] = 0 /\ \A n \in 1 .. k : f[n] = step[n][f[n - 1]]
           T == {k \in 0 .. N : ~Upto(k)}
<1> SUFFICES ASSUME T # {} PROVE FALSE
  <2>1. N \in 0 .. N
    OBVIOUS
  <2> QED BY <2>1
<1>1. PICK k \in T : \A j \in T : k <= j
  <2>1. T \subseteq Nat
    OBVIOUS
  <2> HIDE DEF T
  <2> QED BY <2>1, LeastPlace
<1>2. k \in 0 .. N /\ ~Upto(k)
  BY <1>1
<1>3. k # 0
  <2> DEFINE f == [n \in 0 .. 0 |-> 0]
  <2>1. f \in [0 .. 0 -> Nat] /\ f[0] = 0 /\ 1 .. 0 = {}
    OBVIOUS
  <2>2. Upto(0)
    BY <2>1
  <2> QED BY <1>2, <2>2
<1>4. Upto(k - 1)
  <2>1. k - 1 \in 0 .. N /\ ~(k <= k - 1)
    BY <1>2, <1>3
  <2> HIDE DEF Upto
  <2> QED BY <1>1, <2>1
<1>5. PICK g \in [0 .. k - 1 -> Nat] : g[0] = 0 /\ \A n \in 1 .. k - 1 : g[n] = step[n][g[n - 1]]
  BY <1>4
<1> DEFINE f == [n \in 0 .. k |-> IF n = k THEN step[k][g[k - 1]] ELSE g[n]]
<1>6. \A n \in 0 .. k - 1 : n \in 0 .. k /\ f[n] = g[n]
  BY <1>2
<1>7. g[k - 1] \in Nat /\ step[k] \in [Nat -> Nat] /\ 0 \in 0 .. k - 1
  <2>1. k - 1 \in 0 .. k - 1 /\ 0 \in 0 .. k - 1 /\ k \in 1 .. N
    BY <1>2, <1>3
  <2>2. g[k - 1] \in Nat
    BY <2>1
  <2>3. step[k] \in [Nat -> Nat]
    BY <2>1
  <2> QED BY <2>1, <2>2, <2>3
<1>8. step[k][g[k - 1]] \in Nat
  BY <1>7
<1>9. f[k] = step[k][g[k - 1]] /\ f \in [0 .. k -> Nat]
  <2>1. k \in 0 .. k
    BY <1>2
  <2>2. ASSUME NEW n \in 0 .. k PROVE n = k \/ n \in 0 .. k - 1
    BY <1>2
  <2> QED BY <1>8, <2>1, <2>2, <1>5
<1> HIDE DEF f
<1>10. \A n \in 1 .. k : f[n] = step[n][f[n - 1]]
  <2> SUFFICES ASSUME NEW n \in 1 .. k PROVE f[n] = step[n][f[n - 1]]
    OBVIOUS
  <2>1. n - 1 \in 0 .. k - 1
    BY <1>2
  <2>2. CASE n = k
    BY <1>6, <1>9, <2>1, <2>2
  <2>3. CASE n # k
    <3>1. n \in 1 .. k - 1 /\ n \in 0 .. k - 1
      BY <1>2, <2>3
    <3> QED BY <1>5, <1>6, <2>1, <3>1
  <2> QED BY <2>2, <2>3
<1>11. Upto(k)
  BY <1>5, <1>6, <1>7, <1>9, <1>10
<1> QED BY <1>2, <1>11

LEMMA Words == MaxWord \in Nat /\ FrameBytes \in Nat /\ \A n \in Nat : Sat(n) \in Nat /\ Sat(n) <= n
BY CompilerConstants DEF Sat

LEMMA SatSumSteps ==
  ASSUME NEW b \in Seq(Nat)
  PROVE  \E f \in [0 .. Len(b) -> Nat] :
           /\ SatSum(b) = f[Len(b)] /\ f[0] = 0
           /\ \A n \in 1 .. Len(b) : f[n] = Sat(f[n - 1] + b[n])
<1> DEFINE N == Len(b)
           step == [n \in 1 .. N |-> [x \in Nat |-> Sat(x + b[n])]]
           IsSum(sum) == sum = [n \in 0 .. N |-> IF n = 0 THEN 0 ELSE Sat(sum[n - 1] + b[n])]
           chosen == CHOOSE sum : IsSum(sum)
<1>1. N \in Nat /\ \A n \in 1 .. N : b[n] \in Nat
  BY LenProperties, ElementOfSeq
<1>2. SatSum(b) = chosen[N]
  BY DEF SatSum
<1>3. step \in [1 .. N -> [Nat -> Nat]]
  <2> HIDE DEF N
  <2>1. ASSUME NEW n \in 1 .. N, NEW x \in Nat PROVE Sat(x + b[n]) \in Nat
    <3>1. x + b[n] \in Nat
      BY <1>1
    <3> QED BY <3>1, Words
  <2> QED BY <2>1
<1>4. PICK f \in [0 .. N -> Nat] : f[0] = 0 /\ \A n \in 1 .. N : f[n] = step[n][f[n - 1]]
  <2> HIDE DEF step, N
  <2> QED BY <1>1, <1>3, StepsExist
<1> HIDE DEF N
<1>5. \A n \in 1 .. N : n - 1 \in 0 .. N /\ f[n] = Sat(f[n - 1] + b[n])
  <2> SUFFICES ASSUME NEW n \in 1 .. N PROVE n - 1 \in 0 .. N /\ f[n] = Sat(f[n - 1] + b[n])
    OBVIOUS
  <2>1. n - 1 \in 0 .. N
    BY <1>1
  <2>2. f[n - 1] \in Nat
    BY <2>1
  <2>3. f[n] = step[n][f[n - 1]]
    BY <1>4
  <2> QED BY <2>1, <2>2, <2>3
<1>6. IsSum(f)
  <2>1. \A n \in 0 .. N : f[n] = IF n = 0 THEN 0 ELSE Sat(f[n - 1] + b[n])
    <3> SUFFICES ASSUME NEW n \in 0 .. N, n # 0 PROVE n \in 1 .. N
      BY <1>4, <1>5
    <3> QED BY <1>1
  <2> QED BY <2>1
<1>7. IsSum(chosen)
  <2> HIDE DEF IsSum
  <2> QED BY <1>6
<1> HIDE DEF chosen
<1>8. \A n \in 0 .. N : chosen[n] = IF n = 0 THEN 0 ELSE Sat(chosen[n - 1] + b[n])
  BY <1>7
<1>9. chosen[0] = 0 /\ \A n \in 1 .. N : chosen[n] = Sat(chosen[n - 1] + b[n])
  BY <1>1, <1>8
<1>10. \A n \in 0 .. N : chosen[n] = f[n]
  <2> DEFINE T == {n \in 0 .. N : chosen[n] # f[n]}
  <2> SUFFICES ASSUME T # {} PROVE FALSE
    OBVIOUS
  <2>1. PICK k \in T : \A j \in T : k <= j
    <3>1. T \subseteq Nat
      OBVIOUS
    <3> HIDE DEF T
    <3> QED BY <3>1, LeastPlace
  <2>2. k \in 0 .. N /\ chosen[k] # f[k]
    BY <2>1
  <2>3. k \in 1 .. N /\ k - 1 \in 0 .. N /\ ~(k <= k - 1)
    BY <1>1, <1>4, <1>9, <2>2
  <2>4. k - 1 \notin T
    <3> HIDE DEF T
    <3> QED BY <2>1, <2>3
  <2>5. chosen[k - 1] = f[k - 1]
    BY <2>3, <2>4
  <2> QED BY <1>5, <1>9, <2>2, <2>3, <2>5
<1>11. SatSum(b) = f[N]
  BY <1>1, <1>2, <1>10
<1> QED BY <1>4, <1>5, <1>11 DEF N

LEMMA TotalSteps ==
  ASSUME NEW b \in Seq(Nat)
  PROVE  \E f \in [0 .. Len(b) -> Nat] :
           /\ Total(b) = f[Len(b)] /\ f[0] = 0
           /\ \A n \in 1 .. Len(b) : f[n] = f[n - 1] + b[n]
<1> DEFINE N == Len(b)
           step == [n \in 1 .. N |-> [x \in Nat |-> x + b[n]]]
           IsSum(sum) == sum = [n \in 0 .. N |-> IF n = 0 THEN 0 ELSE sum[n - 1] + b[n]]
           chosen == CHOOSE sum : IsSum(sum)
<1>1. N \in Nat /\ \A n \in 1 .. N : b[n] \in Nat
  BY LenProperties, ElementOfSeq
<1>2. Total(b) = chosen[N]
  BY DEF Total
<1>3. step \in [1 .. N -> [Nat -> Nat]]
  <2> HIDE DEF N
  <2>1. ASSUME NEW n \in 1 .. N, NEW x \in Nat PROVE x + b[n] \in Nat
    <3>1. x + b[n] \in Nat
      BY <1>1
    <3> QED BY <3>1, Words
  <2> QED BY <2>1
<1>4. PICK f \in [0 .. N -> Nat] : f[0] = 0 /\ \A n \in 1 .. N : f[n] = step[n][f[n - 1]]
  <2> HIDE DEF step, N
  <2> QED BY <1>1, <1>3, StepsExist
<1> HIDE DEF N
<1>5. \A n \in 1 .. N : n - 1 \in 0 .. N /\ f[n] = f[n - 1] + b[n]
  <2> SUFFICES ASSUME NEW n \in 1 .. N PROVE n - 1 \in 0 .. N /\ f[n] = f[n - 1] + b[n]
    OBVIOUS
  <2>1. n - 1 \in 0 .. N
    BY <1>1
  <2>2. f[n - 1] \in Nat
    BY <2>1
  <2>3. f[n] = step[n][f[n - 1]]
    BY <1>4
  <2> QED BY <2>1, <2>2, <2>3
<1>6. IsSum(f)
  <2>1. \A n \in 0 .. N : f[n] = IF n = 0 THEN 0 ELSE f[n - 1] + b[n]
    <3> SUFFICES ASSUME NEW n \in 0 .. N, n # 0 PROVE n \in 1 .. N
      BY <1>4, <1>5
    <3> QED BY <1>1
  <2> QED BY <2>1
<1>7. IsSum(chosen)
  <2> HIDE DEF IsSum
  <2> QED BY <1>6
<1> HIDE DEF chosen
<1>8. \A n \in 0 .. N : chosen[n] = IF n = 0 THEN 0 ELSE chosen[n - 1] + b[n]
  BY <1>7
<1>9. chosen[0] = 0 /\ \A n \in 1 .. N : chosen[n] = chosen[n - 1] + b[n]
  BY <1>1, <1>8
<1>10. \A n \in 0 .. N : chosen[n] = f[n]
  <2> DEFINE T == {n \in 0 .. N : chosen[n] # f[n]}
  <2> SUFFICES ASSUME T # {} PROVE FALSE
    OBVIOUS
  <2>1. PICK k \in T : \A j \in T : k <= j
    <3>1. T \subseteq Nat
      OBVIOUS
    <3> HIDE DEF T
    <3> QED BY <3>1, LeastPlace
  <2>2. k \in 0 .. N /\ chosen[k] # f[k]
    BY <2>1
  <2>3. k \in 1 .. N /\ k - 1 \in 0 .. N /\ ~(k <= k - 1)
    BY <1>1, <1>4, <1>9, <2>2
  <2>4. k - 1 \notin T
    <3> HIDE DEF T
    <3> QED BY <2>1, <2>3
  <2>5. chosen[k - 1] = f[k - 1]
    BY <2>3, <2>4
  <2> QED BY <1>5, <1>9, <2>2, <2>3, <2>5
<1>11. Total(b) = f[N]
  BY <1>1, <1>2, <1>10
<1> QED BY <1>4, <1>5, <1>11 DEF N


(* A saturated sum of saturated terms is the sum, saturated.               *)
LEMMA SatPlus ==
  ASSUME NEW x \in Nat, NEW y \in Nat, NEW a \in Nat, NEW c \in Nat,
         a = Sat(x), Sat(c) = Sat(y)
  PROVE  Sat(a + c) = Sat(x + y)
BY CompilerConstants DEF Sat

LEMMA Saturates ==
  ASSUME NEW b \in Seq(Nat), NEW t \in Seq(Nat), Len(b) = Len(t),
         \A i \in 1 .. Len(b) : Sat(b[i]) = Sat(t[i])
  PROVE  Total(t) \in Nat /\ SatSum(b) = Sat(Total(t))
<1>1. PICK f \in [0 .. Len(b) -> Nat] :
        /\ SatSum(b) = f[Len(b)] /\ f[0] = 0
        /\ \A n \in 1 .. Len(b) : f[n] = Sat(f[n - 1] + b[n])
  BY SatSumSteps
<1>2. PICK g \in [0 .. Len(t) -> Nat] :
        /\ Total(t) = g[Len(t)] /\ g[0] = 0
        /\ \A n \in 1 .. Len(t) : g[n] = g[n - 1] + t[n]
  BY TotalSteps
<1> DEFINE N == Len(b)
           T == {n \in 0 .. N : f[n] # Sat(g[n])}
<1>3. N \in Nat /\ N = Len(t) /\ \A n \in 1 .. N : b[n] \in Nat /\ t[n] \in Nat
  BY LenProperties, ElementOfSeq
<1> HIDE DEF N
<1>4. T = {}
  <2> SUFFICES ASSUME T # {} PROVE FALSE
    OBVIOUS
  <2>1. PICK k \in T : \A j \in T : k <= j
    <3>1. T \subseteq Nat
      OBVIOUS
    <3> HIDE DEF T
    <3> QED BY <3>1, LeastPlace
  <2>2. k \in 0 .. N /\ f[k] # Sat(g[k])
    BY <2>1
  <2>3. k # 0
    <3>1. Sat(0) = 0
      BY CompilerConstants DEF Sat
    <3> QED BY <1>1, <1>2, <2>2, <3>1
  <2>4. k \in 1 .. N /\ k - 1 \in 0 .. N /\ ~(k <= k - 1)
    BY <1>3, <2>2, <2>3
  <2>5. k - 1 \notin T
    <3> HIDE DEF T
    <3> QED BY <2>1, <2>4
  <2>6. f[k - 1] = Sat(g[k - 1])
    BY <2>4, <2>5
  <2>7. f[k] = Sat(f[k - 1] + b[k]) /\ g[k] = g[k - 1] + t[k]
    BY <1>1, <1>2, <1>3, <2>4 DEF N
  <2>8. f[k - 1] \in Nat /\ g[k - 1] \in Nat /\ b[k] \in Nat /\ t[k] \in Nat
    BY <1>1, <1>2, <1>3, <2>4 DEF N
  <2>9. Sat(b[k]) = Sat(t[k])
    BY <2>4 DEF N
  <2>10. Sat(f[k - 1] + b[k]) = Sat(g[k - 1] + t[k])
    <3> DEFINE x == g[k - 1]
               y == t[k]
               a == f[k - 1]
               c == b[k]
    <3>1. x \in Nat /\ y \in Nat /\ a \in Nat /\ c \in Nat /\ a = Sat(x) /\ Sat(c) = Sat(y)
      BY <2>6, <2>8, <2>9
    <3> HIDE DEF x, y, a, c
    <3>2. Sat(a + c) = Sat(x + y)
      BY <3>1, SatPlus
    <3> QED BY <3>2 DEF x, y, a, c
  <2> QED BY <2>2, <2>7, <2>10
<1>5. N \in 0 .. N
  BY <1>3
<1>6. f[N] = Sat(g[N]) /\ g[N] \in Nat
  BY <1>2, <1>3, <1>4, <1>5
<1> QED BY <1>1, <1>2, <1>3, <1>6 DEF N

(* The pool and the buffers of one compiled pipeline are naturals.         *)
LEMMA BytesOf ==
  ASSUME NEW p \in PipelineNode
  PROVE  LET c == CompilePipeline(p) IN
         /\ TruePoolBytes(c) \in Nat /\ PoolBytes(c) \in Nat
         /\ Sat(PoolBytes(c)) = Sat(TruePoolBytes(c))
         /\ TrueBackendBytes(c) \in Nat /\ BackendBytes(c) \in Nat
         /\ Sat(BackendBytes(c)) = Sat(TrueBackendBytes(c))
<1> DEFINE c == CompilePipeline(p)
<1>1. c.buffer_size \in Nat
  <2>1. p.network = <<>> \/ p.network \in [1 .. 1 -> NetworkProfile]
    BY DEF PipelineNode, Option
  <2>2. p.network # <<>> => p.network[1] \in NetworkProfile
    BY <2>1
  <2>3. p.network # <<>> => p.network[1].size \in Nat
    BY <2>2 DEF NetworkProfile
  <2>4. c.buffer_size = IF p.network = <<>> THEN 2048 ELSE p.network[1].size
    BY DEF CompilePipeline
  <2> QED BY <2>3, <2>4
<1>2. c.buffer_count \in {100, 64, 32}
  <2>1. p.strategy \in {"passthrough", "transcode", "hardware_decode"}
    BY NodeTypes DEF Strategy
  <2>2. c.buffer_count = CASE p.strategy = "passthrough" -> 100
                           [] p.strategy = "transcode" -> 64
                           [] p.strategy = "hardware_decode" -> 32
    BY DEF CompilePipeline
  <2> QED BY <2>1, <2>2
<1>3. c.backend \in {"FfmpegRtsp", "AutoDevice", "V4l2Device", "LibcameraDevice"}
  BY BackendOf, CompiledFields
<1> HIDE DEF c
<1>4. \A n \in Nat : Sat(Sat(n)) = Sat(n)
  BY CompilerConstants DEF Sat
<1>5. TruePoolBytes(c) \in Nat
  BY <1>1, <1>2 DEF TruePoolBytes
<1>6. PoolBytes(c) = Sat(TruePoolBytes(c))
  BY DEF PoolBytes, TruePoolBytes
<1>7. CASE c.backend = "FfmpegRtsp"
  <2>1. TrueBackendBytes(c) = 128 * c.buffer_size /\ BackendBytes(c) = Sat(128 * c.buffer_size)
    BY <1>7 DEF TrueBackendBytes, BackendBytes
  <2>2. 128 * c.buffer_size \in Nat
    BY <1>1
  <2> QED BY <1>4, <1>5, <1>6, <2>1, <2>2, Words DEF c
<1>8. CASE c.backend # "FfmpegRtsp"
  <2>1. TrueBackendBytes(c) = BackendBytes(c)
    BY <1>8 DEF TrueBackendBytes
  <2>2. BackendBytes(c) \in Nat
    BY <1>3, <1>8, CompilerConstants DEF BackendBytes
  <2> QED BY <1>4, <1>5, <1>6, <2>1, <2>2, Words DEF c
<1> QED BY <1>7, <1>8

(* The plan's sums are those of its pipelines, saturated.                  *)
LEMMA PlanSums ==
  ASSUME NEW m \in Manifests
  PROVE  /\ TruePool(Plan(m).pipelines) \in Nat /\ TrueBackend(Plan(m).pipelines) \in Nat
         /\ Plan(m).pool = Sat(TruePool(Plan(m).pipelines))
         /\ Plan(m).backend = Sat(TrueBackend(Plan(m).pipelines))
         /\ Plan(m).high_memory = (Sat(Plan(m).pool + Plan(m).backend) > Limit(m))
<1> DEFINE compiled == [i \in DOMAIN m.pipelines |-> CompilePipeline(m.pipelines[i])]
           pools == [i \in DOMAIN compiled |-> PoolBytes(compiled[i])]
           truePools == [i \in DOMAIN compiled |-> TruePoolBytes(compiled[i])]
           backends == [i \in DOMAIN compiled |-> BackendBytes(compiled[i])]
           trueBackends == [i \in DOMAIN compiled |-> TrueBackendBytes(compiled[i])]
           N == Len(m.pipelines)
<1>1. /\ Plan(m).pipelines = compiled /\ Plan(m).pool = SatSum(pools)
      /\ Plan(m).backend = SatSum(backends)
      /\ Plan(m).high_memory = (Sat(SatSum(pools) + SatSum(backends)) > Limit(m))
  BY DEF Plan
<1>2. TruePool(compiled) = Total(truePools) /\ TrueBackend(compiled) = Total(trueBackends)
  BY DEF TruePool, TrueBackend
<1>3. DOMAIN compiled = 1 .. N /\ N \in Nat
  BY ManifestPlaces
<1>4. \A i \in 1 .. N :
        /\ PoolBytes(compiled[i]) \in Nat /\ TruePoolBytes(compiled[i]) \in Nat
        /\ BackendBytes(compiled[i]) \in Nat /\ TrueBackendBytes(compiled[i]) \in Nat
        /\ Sat(PoolBytes(compiled[i])) = Sat(TruePoolBytes(compiled[i]))
        /\ Sat(BackendBytes(compiled[i])) = Sat(TrueBackendBytes(compiled[i]))
  BY <1>3, ManifestPlaces, BytesOf
<1> HIDE DEF compiled, N
<1>5. /\ pools \in [1 .. N -> Nat] /\ truePools \in [1 .. N -> Nat]
      /\ backends \in [1 .. N -> Nat] /\ trueBackends \in [1 .. N -> Nat]
  BY <1>3, <1>4
<1>6. \A i \in 1 .. N : Sat(pools[i]) = Sat(truePools[i]) /\ Sat(backends[i]) = Sat(trueBackends[i])
  BY <1>3, <1>4
<1> HIDE DEF pools, truePools, backends, trueBackends
<1>7. /\ pools \in Seq(Nat) /\ truePools \in Seq(Nat)
      /\ backends \in Seq(Nat) /\ trueBackends \in Seq(Nat)
      /\ Len(pools) = N /\ Len(truePools) = N /\ Len(backends) = N /\ Len(trueBackends) = N
  <2>1. [1 .. N -> Nat] \subseteq Seq(Nat)
    BY <1>3, SeqDef
  <2>2. ASSUME NEW s \in [1 .. N -> Nat] PROVE s \in Seq(Nat) /\ Len(s) = N
    <3>1. s \in Seq(Nat)
      BY <2>1
    <3>2. DOMAIN s = 1 .. N /\ DOMAIN s = 1 .. Len(s) /\ Len(s) \in Nat
      BY <3>1, LenProperties
    <3> QED BY <1>3, <3>1, <3>2
  <2> QED BY <1>5, <2>2
<1>8. Total(truePools) \in Nat /\ SatSum(pools) = Sat(Total(truePools))
  BY <1>6, <1>7, Saturates
<1>9. Total(trueBackends) \in Nat /\ SatSum(backends) = Sat(Total(trueBackends))
  BY <1>6, <1>7, Saturates
<1> QED BY <1>1, <1>2, <1>8, <1>9

LEMMA LimitIsNat == ASSUME NEW m \in Manifests PROVE Limit(m) \in Nat
<1>1. m.cma \in Option(Nat) /\ m.media \in Option(Nat)
  BY ManifestTypes DEF CamlManifest
<1>2. ASSUME NEW o \in Option(Nat), o # <<>> PROVE o[1] \in Nat
  <2>1. o \in [1 .. 1 -> Nat]
    BY <1>2 DEF Option
  <2> QED BY <2>1
<1> QED BY <1>1, <1>2 DEF Limit

(* The pools of a running graph fit the limit of its manifest, whatever    *)
(* the sizes: no saturated sum hides an excess, unless the limit itself is *)
(* the largest word.  Without a warning so do the backends' buffers.       *)
THEOREM LimitIsKept == Spec => []FitsLimit
<1>1. FInv => FitsLimit
  <2> SUFFICES ASSUME FInv, engine # <<>>, engine[1].graph.limit < MaxWord
               PROVE  LET g == engine[1].graph IN
                      /\ TruePool(g.pipelines) <= g.limit
                      /\ ~g.high_memory => TruePool(g.pipelines) + TrueBackend(g.pipelines) <= g.limit
    BY DEF FitsLimit, Running, Graph
  <2>1. PICK m \in Manifests : engine[1].graph = Plan(m) /\ ~(engine[1].graph.pool > engine[1].graph.limit)
    BY DEF FInv, Launched, Vetted
  <2> DEFINE x == TruePool(Plan(m).pipelines)
             y == TrueBackend(Plan(m).pipelines)
  <2>2. /\ x \in Nat /\ y \in Nat /\ Plan(m).pool = Sat(x) /\ Plan(m).backend = Sat(y)
        /\ Plan(m).high_memory = (Sat(Plan(m).pool + Plan(m).backend) > Limit(m))
    BY PlanSums
  <2>3. Plan(m).limit = Limit(m) /\ Limit(m) \in Nat
    BY PlanFields, LimitIsNat
  <2>4. ~(Sat(x) > Limit(m)) /\ Limit(m) < MaxWord
    BY <2>1, <2>2, <2>3
  <2> HIDE DEF x, y
  <2>5. x <= Limit(m)
    BY <2>2, <2>3, <2>4, CompilerConstants DEF Sat
  <2>6. ~Plan(m).high_memory => ~(Sat(Sat(x) + Sat(y)) > Limit(m))
    BY <2>2
  <2>7. ~Plan(m).high_memory => x + y <= Limit(m)
    BY <2>2, <2>3, <2>4, <2>6, CompilerConstants DEF Sat
  <2> QED BY <2>1, <2>3, <2>5, <2>7 DEF x, y
<1> QED BY <1>1, FacadeInductive, PTL
=============================================================================
