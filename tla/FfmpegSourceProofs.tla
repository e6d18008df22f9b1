------------------------- MODULE FfmpegSourceProofs -------------------------
(***************************************************************************)
(* Proofs that the state of FfmpegSource keeps its types, and that the end *)
(* of the stream, or a fatal error, is the last word of its thread: for    *)
(* any capacity of the channel and any number of sources and packets.      *)
(* The thread ends with the step that sends such a message, so it can only *)
(* be the last of the channel, and reaches the pipeline when the channel   *)
(* is empty.  Last, no packet is lost, doubled or reordered: what was      *)
(* answered, is in the channel and in the thread's hand follows the order  *)
(* of production.                                                          *)
(***************************************************************************)
EXTENDS FfmpegSource, SequenceTheorems, TLAPS

Final == {EndOfStream, FatalError}
Place == {"unborn", "start", "check", "demux", "send", "done", "pause", "over", "panicked"}

SendsSomething == \A g \in Gen : worker[g] = "send" => message[g] \in Message
Unbuilt ==
  \A g \in Gen : g > built =>
     worker[g] = "unborn" /\ channel[g] = <<>> /\ answers[g] = <<>> /\ source # g
FinalIsLast ==
  \A g \in Gen : source = g => \A i \in 1 .. Len(channel[g]) :
     channel[g][i] \in Final => Ended(g) /\ i = Len(channel[g])

IInv == TypeOK /\ SendsSomething /\ Unbuilt /\ FinalIsLast /\ EndIsLast

LEMMA Numbers ==
  /\ Gen \subseteq Nat /\ None \notin Gen /\ None \notin Message
  /\ Packet \subseteq Message /\ Final \subseteq Message /\ RecoverableError \in Message
  /\ Final \cap Packet = {} /\ RecoverableError \notin Packet /\ RecoverableError \notin Final
BY SourceConstants DEF Gen, None, Message, Packet, Signal, Final, EndOfStream, RecoverableError,
   FatalError

(* The last element of what has been appended to.                          *)
LEMMA LastAppended ==
  ASSUME NEW S, NEW s \in Seq(S), NEW e \in S
  PROVE  Last(Append(s, e)) = e /\ Append(s, e) # <<>>
BY AppendProperties DEF Last

LEMMA TailOfOne == ASSUME NEW S, NEW s \in Seq(S), Len(s) = 1 PROVE Tail(s) = <<>>
<1>1. s # <<>>
  BY EmptySeq
<1>2. Tail(s) \in Seq(S) /\ Len(Tail(s)) = 0
  BY <1>1, HeadTailProperties
<1>3. ASSUME Tail(s) # <<>> PROVE FALSE
  BY <1>2, <1>3, EmptySeq
<1> QED BY <1>3

LEMMA InitInv == Init => IInv
<1> SUFFICES ASSUME Init PROVE IInv
  OBVIOUS
<1>1. /\ source = None /\ built = 0 /\ input \in {"rtsp", "device", "file"}
      /\ cancel = [g \in Gen |-> FALSE] /\ channel = [g \in Gen |-> <<>>]
      /\ worker = [g \in Gen |-> "unborn"] /\ message = [g \in Gen |-> None]
      /\ read = [g \in Gen |-> 0] /\ attempts = [g \in Gen |-> 0]
      /\ answers = [g \in Gen |-> <<>>]
  BY DEF Init
<1>2. 0 \in 0 .. Builds /\ 0 \in 0 .. Packets /\ 0 \in 0 .. Failures
  BY SourceConstants
<1>3. <<>> \in Seq(Message) /\ Len(<<>>) <= Depth
  BY SourceConstants
<1>4. TypeOK
  BY <1>1, <1>2, <1>3 DEF TypeOK
<1> QED BY <1>1, <1>4, Numbers DEF IInv, SendsSomething, Unbuilt, FinalIsLast, EndIsLast

(* A thread that goes on, without touching its channel.  What it may be    *)
(* about to send is a message.                                             *)
LEMMA MoveInv ==
  ASSUME IInv, NEW g \in Gen, NEW place \in Place,
         worker' = [worker EXCEPT ![g] = place],
         worker[g] \notin {"unborn", "over", "panicked"}, place # "unborn",
         UNCHANGED <<input, source, built, cancel, channel, answers>>,
         NEW m \in Message, message' = message \/ message' = [message EXCEPT ![g] = m],
         place = "send" => message' = [message EXCEPT ![g] = m],
         read' \in [Gen -> 0 .. Packets], attempts' \in [Gen -> 0 .. Failures]
  PROVE  IInv'
<1>1. worker' \in [Gen -> Place] /\ worker'[g] = place /\ \A h \in Gen \ {g} : worker'[h] = worker[h]
  BY DEF IInv, TypeOK, Place
<1>2. message' \in [Gen -> Message \cup {None}] /\ \A h \in Gen \ {g} : message'[h] = message[h]
  BY DEF IInv, TypeOK
<1>3. TypeOK'
  BY <1>1, <1>2 DEF IInv, TypeOK, Place
<1>4. SendsSomething'
  BY <1>1, <1>2 DEF IInv, SendsSomething, TypeOK
<1>5. Unbuilt'
  BY <1>1 DEF IInv, Unbuilt
<1>6. \A h \in Gen : Ended(h) => Ended(h)'
  BY <1>1 DEF Ended
<1>7. FinalIsLast'
  BY <1>6 DEF IInv, FinalIsLast
<1>8. EndIsLast'
  BY <1>1, <1>6 DEF IInv, EndIsLast, Ended
<1> QED BY <1>3, <1>4, <1>5, <1>7, <1>8 DEF IInv

(* The thread has not ended, so nothing final waits in its channel; what   *)
(* it sends is appended, and if that is final the thread is over.          *)
LEMMA SendInv == ASSUME IInv, NEW g \in Gen, Send(g) PROVE IInv'
<1>1. /\ worker[g] = "send" /\ UNCHANGED <<input, source, built, cancel, read, attempts, answers>>
      /\ message' = [message EXCEPT ![g] = None]
  BY DEF Send, Sends
<1>2. message[g] \in Message
  BY <1>1 DEF IInv, SendsSomething
<1>3. PICK place \in AfterSend(g) : worker' = [worker EXCEPT ![g] = place]
  BY DEF Send, Sends
<1>4. /\ place \in {"demux", "done", "pause", "over"}
      /\ message[g] \in Final => place = "over"
  <2>1. CASE message[g] \in Packet
    BY <2>1, <1>3, Numbers DEF AfterSend
  <2>2. CASE message[g] = RecoverableError
    BY <2>2, <1>3, Numbers DEF AfterSend
  <2>3. CASE message[g] \notin Packet /\ message[g] # RecoverableError
    BY <2>3, <1>3 DEF AfterSend
  <2> QED BY <2>1, <2>2, <2>3
<1>5. worker' \in [Gen -> Place] /\ worker'[g] = place /\ \A h \in Gen \ {g} : worker'[h] = worker[h]
  BY <1>3, <1>4 DEF IInv, TypeOK, Place
<1>6. message' \in [Gen -> Message \cup {None}] /\ \A h \in Gen \ {g} : message'[h] = message[h]
  BY <1>1 DEF IInv, TypeOK
<1>7. \/ channel' = channel /\ source # g
      \/ /\ channel' = [channel EXCEPT ![g] = Append(@, message[g])]
         /\ source = g /\ Len(channel[g]) < Depth
  BY DEF Send
<1>8. channel[g] \in Seq(Message) /\ Len(channel[g]) \in Nat /\ channel \in [Gen -> Seq(Message)]
  BY DEF IInv, TypeOK
<1>9. /\ Append(channel[g], message[g]) \in Seq(Message)
      /\ Len(Append(channel[g], message[g])) = Len(channel[g]) + 1
      /\ Append(channel[g], message[g])[Len(channel[g]) + 1] = message[g]
      /\ \A i \in 1 .. Len(channel[g]) : Append(channel[g], message[g])[i] = channel[g][i]
  BY <1>2, <1>8, AppendProperties
<1>10. channel' \in [Gen -> Seq(Message)] /\ \A h \in Gen : Len(channel'[h]) <= Depth
  <2>1. \A h \in Gen : Len(channel[h]) <= Depth
    BY DEF IInv, TypeOK
  <2>2. CASE channel' = channel
    BY <1>8, <2>1, <2>2
  <2>3. CASE channel' = [channel EXCEPT ![g] = Append(@, message[g])] /\ Len(channel[g]) < Depth
    <3>1. Len(Append(channel[g], message[g])) <= Depth
      BY <1>8, <1>9, <2>3, SourceConstants
    <3> QED BY <1>8, <1>9, <2>1, <2>3, <3>1
  <2> QED BY <1>7, <2>2, <2>3
<1>11. TypeOK'
  BY <1>1, <1>5, <1>6, <1>10 DEF IInv, TypeOK, Place
<1>12. SendsSomething'
  BY <1>4, <1>5, <1>6 DEF IInv, SendsSomething
<1>13. \A h \in Gen \ {g} : channel'[h] = channel[h]
  BY <1>7, <1>8
<1>14. Unbuilt'
  BY <1>1, <1>5, <1>13 DEF IInv, Unbuilt
<1>15. ~Ended(g) /\ \A h \in Gen : Ended(h) => Ended(h)'
  BY <1>1, <1>5 DEF Ended
<1>16. ASSUME source = g PROVE \A i \in 1 .. Len(channel[g]) : channel[g][i] \notin Final
  BY <1>15, <1>16 DEF IInv, FinalIsLast
<1>17. ASSUME NEW h \in Gen, source' = h, NEW i \in 1 .. Len(channel'[h]), channel'[h][i] \in Final
       PROVE  Ended(h)' /\ i = Len(channel'[h])
  <2>1. CASE h # g
    BY <1>1, <1>13, <1>15, <1>17, <2>1 DEF IInv, FinalIsLast
  <2>2. CASE h = g
    <3>1. channel'[g] = Append(channel[g], message[g]) /\ source = g
      BY <1>1, <1>7, <1>8, <1>17, <2>2
    <3>2. i \notin 1 .. Len(channel[g])
      BY <1>9, <1>16, <1>17, <2>2, <3>1
    <3>3. i = Len(channel[g]) + 1 /\ i = Len(channel'[g])
      BY <1>8, <1>9, <2>2, <3>1, <3>2
    <3>4. place = "over"
      BY <1>4, <1>9, <1>17, <2>2, <3>1, <3>3
    <3> QED BY <1>5, <2>2, <3>3, <3>4 DEF Ended
  <2> QED BY <2>1, <2>2
<1>18. FinalIsLast'
  BY <1>17 DEF FinalIsLast
<1>19. EndIsLast'
  BY <1>1, <1>5, <1>13, <1>15 DEF IInv, EndIsLast, Ended
<1> QED BY <1>11, <1>12, <1>14, <1>18, <1>19 DEF IInv

(* A new source is of a generation that nothing was said about before.     *)
LEMMA BuildInv == ASSUME IInv, BuildSource PROVE IInv'
<1>1. /\ source = None /\ built < Builds /\ built' = built + 1 /\ source' = built'
      /\ worker' = [worker EXCEPT ![built'] = "start"]
      /\ UNCHANGED <<input, cancel, channel, message, read, attempts, answers>>
  BY DEF BuildSource
<1>2. built' \in Gen /\ built' \in 0 .. Builds /\ built' > built
  BY <1>1, SourceConstants DEF IInv, TypeOK, Gen
<1>3. worker[built'] = "unborn" /\ channel[built'] = <<>> /\ answers[built'] = <<>>
  BY <1>2 DEF IInv, Unbuilt
<1>4. /\ worker' \in [Gen -> Place] /\ worker'[built'] = "start"
      /\ \A h \in Gen \ {built'} : worker'[h] = worker[h]
  BY <1>1, <1>2 DEF IInv, TypeOK, Place
<1>5. TypeOK'
  BY <1>1, <1>2, <1>4 DEF IInv, TypeOK, Place
<1>6. SendsSomething'
  BY <1>1, <1>4 DEF IInv, SendsSomething
<1>7. ASSUME NEW h \in Gen, h > built'
      PROVE  worker'[h] = "unborn" /\ channel'[h] = <<>> /\ answers'[h] = <<>> /\ source' # h
  <2>1. h > built /\ h # built'
    BY <1>2, <1>7, Numbers DEF IInv, TypeOK
  <2> QED BY <1>1, <1>4, <2>1 DEF IInv, Unbuilt
<1>8. Unbuilt'
  BY <1>7 DEF Unbuilt
<1>9. FinalIsLast' /\ EndIsLast'
  BY <1>1, <1>3 DEF FinalIsLast, EndIsLast
<1> QED BY <1>5, <1>6, <1>8, <1>9 DEF IInv

(* What next returns as final was the last of the channel, or is what it   *)
(* makes of a channel that is empty and whose thread is gone.              *)
LEMMA NextPayloadInv == ASSUME IInv, NextPayload PROVE IInv'
<1> DEFINE g == source
<1>1. /\ g \in Gen
      /\ UNCHANGED <<input, source, built, cancel, worker, message, read, attempts>>
  BY DEF NextPayload, IInv, TypeOK
<1>2. answers[g] \in Seq(Message) /\ channel[g] \in Seq(Message)
  BY <1>1 DEF IInv, TypeOK
<1>3. g <= built
  BY <1>1, Numbers DEF IInv, TypeOK, Unbuilt
<1>4. PICK e \in Message :
        /\ answers' = [answers EXCEPT ![g] = Append(@, e)]
        /\ \/ /\ channel[g] # <<>> /\ e = channel[g][1]
              /\ channel' = [channel EXCEPT ![g] = Tail(@)]
           \/ e = EndOfStream /\ channel[g] = <<>> /\ Ended(g) /\ UNCHANGED channel
  <2>1. CASE channel[g] # <<>>
    <3>1. Head(channel[g]) \in Message /\ Head(channel[g]) = channel[g][1]
      BY <1>2, <2>1, HeadTailProperties
    <3> QED BY <2>1, <3>1 DEF NextPayload
  <2>2. CASE channel[g] = <<>>
    BY <2>2, Numbers DEF NextPayload, Final
  <2> QED BY <2>1, <2>2
<1>5. /\ answers' \in [Gen -> Seq(Message)] /\ Last(answers'[g]) = e
      /\ \A h \in Gen \ {g} : answers'[h] = answers[h]
  <2>1. Append(answers[g], e) \in Seq(Message) /\ Last(Append(answers[g], e)) = e
    BY <1>2, LastAppended, AppendProperties
  <2> QED BY <1>1, <1>4, <2>1 DEF IInv, TypeOK
<1>6. \/ channel'[g] = Tail(channel[g]) /\ channel[g] # <<>>
      \/ channel'[g] = channel[g]
  BY <1>1, <1>4 DEF IInv, TypeOK
<1>7. /\ channel' \in [Gen -> Seq(Message)] /\ \A h \in Gen : Len(channel'[h]) <= Depth
      /\ \A h \in Gen \ {g} : channel'[h] = channel[h]
  <2>1. channel[g] # <<>> => /\ Tail(channel[g]) \in Seq(Message)
                             /\ Len(Tail(channel[g])) = Len(channel[g]) - 1
    BY <1>2, HeadTailProperties
  <2>2. channel[g] # <<>> => Len(Tail(channel[g])) <= Depth
    BY <1>1, <1>2, <2>1, SourceConstants DEF IInv, TypeOK
  <2> QED BY <1>1, <1>4, <2>1, <2>2 DEF IInv, TypeOK
<1>8. TypeOK'
  BY <1>1, <1>5, <1>7 DEF IInv, TypeOK
<1>9. SendsSomething' /\ Unbuilt'
  <2>1. SendsSomething'
    BY <1>1 DEF IInv, SendsSomething
  <2>2. \A h \in Gen : h > built => h # g
    BY <1>1, <1>3, Numbers DEF IInv, TypeOK
  <2> QED BY <1>1, <1>5, <1>7, <2>1, <2>2 DEF IInv, Unbuilt
<1>10. \A i \in 1 .. Len(channel'[g]) : channel'[g][i] \in Final => Ended(g) /\ i = Len(channel'[g])
  <2>1. CASE channel'[g] = Tail(channel[g]) /\ channel[g] # <<>>
    <3>1. /\ Len(Tail(channel[g])) = Len(channel[g]) - 1 /\ Len(channel[g]) \in Nat
          /\ \A i \in 1 .. Len(Tail(channel[g])) : Tail(channel[g])[i] = channel[g][i + 1]
      BY <1>2, <2>1, HeadTailProperties
    <3> SUFFICES ASSUME NEW i \in 1 .. Len(Tail(channel[g])), Tail(channel[g])[i] \in Final
                 PROVE  Ended(g) /\ i = Len(Tail(channel[g]))
      BY <2>1
    <3>2. i + 1 \in 1 .. Len(channel[g]) /\ channel[g][i + 1] \in Final
      BY <3>1
    <3>3. Ended(g) /\ i + 1 = Len(channel[g])
      BY <1>1, <3>2 DEF IInv, FinalIsLast
    <3> QED BY <3>1, <3>3
  <2>2. CASE channel'[g] = channel[g]
    BY <1>1, <2>2 DEF IInv, FinalIsLast
  <2> QED BY <1>6, <2>1, <2>2
<1>11. FinalIsLast'
  BY <1>1, <1>10 DEF FinalIsLast, Ended
<1>12. e \in Final => Ended(g) /\ channel'[g] = <<>>
  <2>1. CASE channel[g] # <<>>
    <3>1. 1 \in 1 .. Len(channel[g]) /\ channel[g][1] = e /\ channel'[g] = Tail(channel[g])
      BY <1>1, <1>2, <1>4, <2>1 DEF IInv, TypeOK
    <3>2. e \in Final => Ended(g) /\ Len(channel[g]) = 1
      BY <1>1, <3>1 DEF IInv, FinalIsLast
    <3>3. Len(channel[g]) = 1 => Tail(channel[g]) = <<>>
      BY <1>2, TailOfOne
    <3> QED BY <3>1, <3>2, <3>3
  <2>2. CASE channel[g] = <<>>
    BY <1>4, <2>2
  <2> QED BY <2>1, <2>2
<1>13. EndIsLast'
  BY <1>1, <1>5, <1>12 DEF EndIsLast, Final, Ended
<1> QED BY <1>8, <1>9, <1>11, <1>13 DEF IInv

LEMMA DropInv == ASSUME IInv, DropSource PROVE IInv'
<1>1. /\ source \in Gen /\ source' = None
      /\ cancel' = [cancel EXCEPT ![source] = TRUE]
      /\ channel' = [channel EXCEPT ![source] = <<>>]
      /\ UNCHANGED <<input, built, worker, message, read, attempts, answers>>
  BY DEF DropSource, IInv, TypeOK
<1>2. /\ channel' \in [Gen -> Seq(Message)]
      /\ \A h \in Gen : channel'[h] = channel[h] \/ channel'[h] = <<>>
  BY <1>1 DEF IInv, TypeOK
<1>3. \A h \in Gen : Len(channel'[h]) <= Depth
  BY <1>2, SourceConstants DEF IInv, TypeOK
<1>4. cancel' \in [Gen -> BOOLEAN]
  BY <1>1 DEF IInv, TypeOK
<1>5. TypeOK'
  BY <1>1, <1>2, <1>3, <1>4 DEF IInv, TypeOK
<1>6. SendsSomething'
  BY <1>1 DEF IInv, SendsSomething
<1>7. Unbuilt'
  BY <1>1, <1>2, Numbers DEF IInv, Unbuilt
<1> QED BY <1>1, <1>5, <1>6, <1>7, Numbers DEF IInv, FinalIsLast, EndIsLast

LEMMA WorkInv == ASSUME IInv, NEW g \in Gen, Work(g) PROVE IInv'
<1>1. CASE Send(g)
  BY <1>1, SendInv
<1>2. CASE StartWorker(g)
  BY <1>2, MoveInv, Numbers DEF StartWorker, Sends, Place, Final, IInv, TypeOK
<1>3. CASE CheckCancel(g)
  <2>1. PICK place \in {"over", "demux"} : worker' = [worker EXCEPT ![g] = place]
    BY <1>3 DEF CheckCancel
  <2> QED BY <1>3, <2>1, MoveInv, Numbers DEF CheckCancel, Place, IInv, TypeOK
<1>4. CASE AttemptDone(g)
  <2>1. CASE input # "file"
    BY <1>4, <2>1, MoveInv, Numbers DEF AttemptDone, Sends, Place, Final, IInv, TypeOK
  <2>2. CASE input = "file"
    BY <1>4, <2>2, MoveInv, Numbers DEF AttemptDone, Place, IInv, TypeOK
  <2> QED BY <2>1, <2>2
<1>5. CASE Retry(g)
  BY <1>5, MoveInv, Numbers DEF Retry, Place, IInv, TypeOK
<1> QED BY <1>1, <1>2, <1>3, <1>4, <1>5 DEF Work

LEMMA MediaInv == ASSUME IInv, NEW g \in Gen, Media(g) PROVE IInv'
<1>1. CASE ReadPacket(g)
  <2>1. /\ read' = [read EXCEPT ![g] = @ + 1] /\ read[g] < Packets
        /\ read \in [Gen -> 0 .. Packets]
    BY <1>1 DEF ReadPacket, IInv, TypeOK
  <2>2. read' \in [Gen -> 0 .. Packets] /\ read'[g] \in Packet
    BY <2>1, SourceConstants DEF Packet
  <2>3. CASE cancel[g]
    BY <1>1, <2>2, <2>3, MoveInv, Numbers DEF ReadPacket, Place, IInv, TypeOK
  <2>4. CASE ~cancel[g]
    BY <1>1, <2>2, <2>4, MoveInv, Numbers DEF ReadPacket, Sends, Place, IInv, TypeOK
  <2> QED BY <2>3, <2>4
<1>2. CASE InputEnds(g)
  BY <1>2, MoveInv, Numbers DEF InputEnds, Place, IInv, TypeOK
<1>3. CASE InputFails(g)
  <2>1. attempts' \in [Gen -> 0 .. Failures]
    BY <1>3, SourceConstants DEF InputFails, IInv, TypeOK
  <2> QED BY <1>3, <2>1, MoveInv, Numbers DEF InputFails, Sends, Place, IInv, TypeOK
<1>4. CASE PanicWorker(g)
  BY <1>4, MoveInv, Numbers DEF PanicWorker, Place, IInv, TypeOK
<1> QED BY <1>1, <1>2, <1>3, <1>4 DEF Media

LEMMA NextInv == IInv /\ [Next]_vars => IInv'
<1> SUFFICES ASSUME IInv, [Next]_vars PROVE IInv'
  OBVIOUS
<1>1. CASE BuildSource
  BY <1>1, BuildInv
<1>2. CASE NextPayload
  BY <1>2, NextPayloadInv
<1>3. CASE DropSource
  BY <1>3, DropInv
<1>4. CASE \E g \in Gen : Work(g)
  BY <1>4, WorkInv
<1>5. CASE \E g \in Gen : Media(g)
  BY <1>5, MediaInv
<1>6. CASE UNCHANGED vars
  BY <1>6 DEF vars, IInv, TypeOK, SendsSomething, Unbuilt, FinalIsLast, EndIsLast, Ended
<1> QED BY <1>1, <1>2, <1>3, <1>4, <1>5, <1>6 DEF Next

(* Every variable keeps its type, and no channel outgrows its capacity.    *)
THEOREM TypeCorrect == Spec => []TypeOK
<1>1. IInv => TypeOK
  BY DEF IInv
<1> QED BY <1>1, InitInv, NextInv, PTL DEF Spec

(* Once next has reported the end of the stream or a fatal error, the      *)
(* thread is over and nothing is left in its channel.                      *)
THEOREM EndIsLastHolds == Spec => []EndIsLast
<1>1. IInv => EndIsLast
  BY DEF IInv
<1> QED BY <1>1, InitInv, NextInv, PTL DEF Spec
-----------------------------------------------------------------------------
(* A packet that has been read is with the pipeline, in the channel, or in *)
(* the thread's hands; only a thread that sends has something in hand, and *)
(* only a source that was dropped is cancelled.                            *)
EmptyHanded == \A g \in Gen : worker[g] # "send" => message[g] = None
Uncancelled == \A g \in Gen : source = g \/ g > built => ~cancel[g]
Unread == \A g \in Gen : g > built => read[g] = 0

LineInv == EmptyHanded /\ Uncancelled /\ Unread /\ Gapless

(* What a sequence with one more element orders.                           *)
LEMMA OneMore ==
  ASSUME NEW p \in Seq(Nat), NEW m \in Nat
  PROVE  /\ p \o <<m>> \in Seq(Nat) /\ DOMAIN (p \o <<m>>) = 1 .. Len(p) + 1 /\ DOMAIN p = 1 .. Len(p)
         /\ Len(p) \in Nat /\ (p \o <<m>>)[Len(p) + 1] = m
         /\ \A i \in 1 .. Len(p) : (p \o <<m>>)[i] = p[i]
<1>1. <<m>> \in Seq(Nat) /\ Len(<<m>>) = 1 /\ <<m>>[1] = m
  OBVIOUS
<1>2. /\ p \o <<m>> \in Seq(Nat) /\ Len(p \o <<m>>) = Len(p) + 1 /\ Len(p) \in Nat
      /\ \A i \in 1 .. Len(p) + 1 : (p \o <<m>>)[i] = IF i <= Len(p) THEN p[i] ELSE <<m>>[i - Len(p)]
  BY <1>1, ConcatProperties
<1>3. (p \o <<m>>)[Len(p) + 1] = m /\ \A i \in 1 .. Len(p) : (p \o <<m>>)[i] = p[i]
  BY <1>1, <1>2
<1>4. DOMAIN (p \o <<m>>) = 1 .. Len(p) + 1 /\ DOMAIN p = 1 .. Len(p)
  BY <1>2, LenProperties
<1> QED BY <1>2, <1>3, <1>4

LEMMA SignalKeeps ==
  ASSUME NEW p \in Seq(Nat), NEW m \in Nat, m \notin Packet, NEW n \in Nat
  PROVE  Ordered(p \o <<m>>, n) <=> Ordered(p, n)
<1>1. PICK u : u = p \o <<m>>
  OBVIOUS
<1>2. /\ DOMAIN u = 1 .. Len(p) + 1 /\ DOMAIN p = 1 .. Len(p) /\ Len(p) \in Nat
      /\ u[Len(p) + 1] = m /\ \A i \in 1 .. Len(p) : u[i] = p[i]
  BY <1>1, OneMore
<1>3. ToSet(u) \cap Packet = ToSet(p) \cap Packet
  <2>1. \A i \in 1 .. Len(p) + 1 : i \in 1 .. Len(p) \/ i = Len(p) + 1
    BY <1>2
  <2>2. 1 .. Len(p) \subseteq 1 .. Len(p) + 1
    BY <1>2
  <2> QED BY <1>2, <2>1, <2>2 DEF ToSet
<1>4. ASSUME NEW i \in DOMAIN u, u[i] \in Packet PROVE i \in DOMAIN p /\ p[i] = u[i]
  BY <1>2, <1>4
<1>5. ASSUME NEW i \in DOMAIN p PROVE i \in DOMAIN u /\ p[i] = u[i]
  BY <1>2
<1>6. ASSUME Ordered(p, n) PROVE Ordered(u, n)
  BY <1>3, <1>4, <1>6 DEF Ordered
<1>7. ASSUME Ordered(u, n) PROVE Ordered(p, n)
  BY <1>3, <1>5, <1>7 DEF Ordered
<1> QED BY <1>1, <1>6, <1>7

LEMMA PacketAdds ==
  ASSUME NEW p \in Seq(Nat), NEW n \in Nat, n + 1 \in Packet, Ordered(p, n)
  PROVE  Ordered(p \o <<n + 1>>, n + 1)
<1>0. n + 1 \in Nat
  OBVIOUS
<1>1. PICK u : u = p \o <<n + 1>>
  OBVIOUS
<1>2. /\ DOMAIN u = 1 .. Len(p) + 1 /\ DOMAIN p = 1 .. Len(p) /\ Len(p) \in Nat
      /\ u[Len(p) + 1] = n + 1 /\ \A i \in 1 .. Len(p) : u[i] = p[i]
  BY <1>0, <1>1, OneMore
<1>3. \A i \in DOMAIN p : p[i] \in Packet => p[i] \in 1 .. n
  BY DEF Ordered, ToSet
<1>4. ToSet(u) \cap Packet = 1 .. n + 1
  <2>1. ToSet(u) = ToSet(p) \cup {n + 1}
    <3>1. \A i \in 1 .. Len(p) + 1 : i \in 1 .. Len(p) \/ i = Len(p) + 1
      BY <1>2
    <3>2. 1 .. Len(p) \subseteq 1 .. Len(p) + 1 /\ Len(p) + 1 \in 1 .. Len(p) + 1
      BY <1>2
    <3> QED BY <1>2, <3>1, <3>2 DEF ToSet
  <2>2. 1 .. n + 1 = (1 .. n) \cup {n + 1}
    OBVIOUS
  <2> QED BY <2>1, <2>2 DEF Ordered
<1>5. ASSUME NEW i \in DOMAIN u, NEW j \in DOMAIN u, i < j, u[i] \in Packet, u[j] \in Packet
      PROVE  u[i] < u[j]
  <2>1. i \in DOMAIN p /\ u[i] = p[i]
    BY <1>2, <1>5
  <2>2. CASE j \in DOMAIN p
    <3>1. u[j] = p[j]
      BY <1>2, <2>2
    <3> QED BY <1>5, <2>1, <2>2, <3>1 DEF Ordered
  <2>3. CASE j = Len(p) + 1
    BY <1>2, <1>3, <1>5, <2>1, <2>3
  <2> QED BY <1>2, <1>5, <2>2, <2>3
<1> QED BY <1>1, <1>4, <1>5 DEF Ordered

LEMMA Grouped ==
  ASSUME NEW s \in Seq(Nat), NEW t \in Seq(Nat), NEW u \in Seq(Nat)
  PROVE  (s \o t) \o u = s \o (t \o u)
BY ConcatAssociative, SMTT(30)

LEMMA HandOver ==
  ASSUME NEW S, NEW s \in Seq(S), NEW t \in Seq(S), t # <<>>
  PROVE  Append(s, Head(t)) \o Tail(t) = s \o t
<1>1. Head(t) \in S /\ Tail(t) \in Seq(S) /\ <<Head(t)>> \in Seq(S)
  BY HeadTailProperties
<1>2. Append(s, Head(t)) = s \o <<Head(t)>>
  BY <1>1, AppendIsConcat
<1>3. <<Head(t)>> \o Tail(t) = t
  <2>1. /\ Len(Tail(t)) = Len(t) - 1 /\ Len(t) \in Nat /\ Len(t) > 0
        /\ \A i \in 1 .. Len(Tail(t)) : Tail(t)[i] = t[i + 1]
        /\ Head(t) = t[1]
    BY HeadTailProperties, EmptySeq
  <2> DEFINE u == <<Head(t)>> \o Tail(t)
  <2>2. u \in Seq(S) /\ Len(u) = Len(t)
    BY <1>1, <2>1, ConcatProperties
  <2>3. \A i \in 1 .. Len(t) : u[i] = t[i]
    BY <1>1, <2>1, ConcatProperties
  <2> QED BY <2>2, <2>3, SeqEqual
<1> QED BY <1>1, <1>2, <1>3, ConcatAssociative

LEMMA Numbered ==
  ASSUME IInv, NEW g \in Gen
  PROVE  /\ answers[g] \in Seq(Nat) /\ channel[g] \in Seq(Nat) /\ message[g] \in Nat
         /\ read[g] \in Nat /\ answers[g] \o channel[g] \in Seq(Nat)
<1>1. Message \subseteq Nat /\ None \in Nat
  BY SourceConstants DEF Message, Packet, Signal, None
<1>2. /\ answers[g] \in Seq(Message) /\ channel[g] \in Seq(Message)
      /\ message[g] \in Message \cup {None} /\ read[g] \in 0 .. Packets
  BY DEF IInv, TypeOK
<1>3. answers[g] \in Seq(Nat) /\ channel[g] \in Seq(Nat)
  BY <1>1, <1>2, SeqMonotonic
<1>4. answers[g] \o channel[g] \in Seq(Nat)
  BY <1>3, ConcatProperties
<1>5. message[g] \in Nat /\ read[g] \in Nat
  <2>1. message[g] \in Nat
    BY <1>1, <1>2
  <2>2. read[g] \in Nat
    BY <1>2, SourceConstants
  <2> QED BY <2>1, <2>2
<1> QED BY <1>3, <1>4, <1>5, Zenon

(* A thread that goes on: it takes a signal in hand, or leaves its hands   *)
(* as they are.                                                            *)
LEMMA MoveLine ==
  ASSUME IInv, LineInv, NEW g \in Gen, worker[g] # "send",
         NEW place, worker' = [worker EXCEPT ![g] = place],
         UNCHANGED <<source, built, cancel, channel, answers, read>>,
         \/ message' = message /\ place # "send"
         \/ place = "send" /\ \E m \in Signal : message' = [message EXCEPT ![g] = m]
  PROVE  LineInv'
<1>1. /\ worker \in [Gen -> Place] /\ message \in [Gen -> Message \cup {None}]
  BY DEF IInv, TypeOK, Place
<1>2. /\ worker'[g] = place /\ \A h \in Gen \ {g} : worker'[h] = worker[h] /\ message'[h] = message[h]
      /\ message'[g] \in Signal \/ message' = message
      /\ message[g] = None
  BY <1>1 DEF LineInv, EmptyHanded
<1>3. EmptyHanded'
  BY <1>2 DEF LineInv, EmptyHanded
<1>4. Uncancelled' /\ Unread'
  BY DEF LineInv, Uncancelled, Unread
<1>5. Signal \subseteq Nat /\ Signal \cap Packet = {} /\ None \in Nat \ Packet
  BY SourceConstants DEF Signal, Packet, None
<1>6. ASSUME NEW h \in Gen, source = h
      PROVE  Ordered(answers[h] \o channel[h] \o <<message'[h]>>, read[h])
  <2>1. Ordered(answers[h] \o channel[h] \o <<message[h]>>, read[h])
    BY <1>6 DEF LineInv, Gapless
  <2>2. CASE message'[h] = message[h]
    BY <2>1, <2>2
  <2>3. CASE h = g /\ message'[g] \in Signal
    <3>1. PICK p \in Seq(Nat), n \in Nat : p = answers[h] \o channel[h] /\ n = read[h]
      BY Numbered
    <3>2. Ordered(p \o <<None>>, n)
      BY <1>2, <2>1, <2>3, <3>1
    <3>3. Ordered(p, n)
      BY <1>5, <3>2, SignalKeeps
    <3>4. PICK m \in Nat : m = message'[h] /\ m \notin Packet
      BY <1>5, <2>3
    <3>5. Ordered(p \o <<m>>, n)
      BY <3>3, <3>4, SignalKeeps
    <3> QED BY <3>1, <3>4, <3>5
  <2> QED BY <1>2, <2>2, <2>3
<1>7. Gapless'
  BY <1>6 DEF Gapless
<1> QED BY <1>3, <1>4, <1>7 DEF LineInv

(* A packet is read for a source that was not dropped, or for nobody.      *)
LEMMA ReadLine == ASSUME IInv, LineInv, NEW g \in Gen, ReadPacket(g) PROVE LineInv'
<1>1. /\ worker[g] = "demux" /\ read[g] < Packets /\ read' = [read EXCEPT ![g] = @ + 1]
      /\ UNCHANGED <<source, built, cancel, channel, answers>>
  BY DEF ReadPacket
<1>2. /\ worker \in [Gen -> Place] /\ message \in [Gen -> Message \cup {None}]
      /\ read \in [Gen -> 0 .. Packets]
  BY DEF IInv, TypeOK, Place
<1>3. \/ cancel[g] /\ worker' = [worker EXCEPT ![g] = "done"] /\ message' = message
      \/ ~cancel[g] /\ worker' = [worker EXCEPT ![g] = "send"]
         /\ message' = [message EXCEPT ![g] = read'[g]]
  BY DEF ReadPacket, Sends
<1>4. \A h \in Gen \ {g} : worker'[h] = worker[h] /\ message'[h] = message[h] /\ read'[h] = read[h]
  BY <1>1, <1>2, <1>3
<1>5. message[g] = None /\ read'[g] = read[g] + 1
  BY <1>1, <1>2 DEF LineInv, EmptyHanded
<1>6. EmptyHanded'
  BY <1>2, <1>3, <1>4, <1>5 DEF LineInv, EmptyHanded
<1>7. ~(g > built)
  BY <1>1 DEF IInv, Unbuilt
<1>8. Uncancelled' /\ Unread'
  BY <1>1, <1>4, <1>7 DEF LineInv, Uncancelled, Unread
<1>9. ASSUME source = g
      PROVE  Ordered(answers[g] \o channel[g] \o <<message'[g]>>, read'[g])
  <2>1. message'[g] = read[g] + 1
    BY <1>2, <1>3, <1>5, <1>9 DEF LineInv, Uncancelled
  <2>2. PICK p \in Seq(Nat), n \in Nat : p = answers[g] \o channel[g] /\ n = read[g]
    BY Numbered
  <2>3. Ordered(p \o <<None>>, n)
    BY <1>5, <1>9, <2>2 DEF LineInv, Gapless
  <2>4. None \in Nat /\ None \notin Packet /\ n + 1 \in Packet
    BY <1>1, <2>2, SourceConstants DEF None, Packet
  <2>5. Ordered(p, n)
    BY <2>3, <2>4, SignalKeeps
  <2>6. Ordered(p \o <<n + 1>>, n + 1)
    BY <2>4, <2>5, PacketAdds
  <2> QED BY <1>5, <2>1, <2>2, <2>6
<1>10. Gapless'
  BY <1>1, <1>4, <1>9 DEF LineInv, Gapless
<1> QED BY <1>6, <1>8, <1>10 DEF LineInv

LEMMA SendLine == ASSUME IInv, LineInv, NEW g \in Gen, Send(g) PROVE LineInv'
<1>1. /\ worker[g] = "send" /\ UNCHANGED <<source, built, cancel, read, answers>>
      /\ message' = [message EXCEPT ![g] = None]
      /\ \/ channel' = channel /\ source # g
         \/ channel' = [channel EXCEPT ![g] = Append(@, message[g])] /\ source = g
      /\ \E place : worker' = [worker EXCEPT ![g] = place]
  BY DEF Send, Sends
<1>2. /\ worker \in [Gen -> Place] /\ message \in [Gen -> Message \cup {None}]
      /\ channel \in [Gen -> Seq(Message)]
  BY DEF IInv, TypeOK, Place
<1>3. /\ message'[g] = None
      /\ \A h \in Gen \ {g} : /\ worker'[h] = worker[h] /\ message'[h] = message[h]
                             /\ channel'[h] = channel[h]
  BY <1>1, <1>2
<1>4. EmptyHanded'
  BY <1>3 DEF LineInv, EmptyHanded
<1>5. Uncancelled' /\ Unread'
  BY <1>1 DEF LineInv, Uncancelled, Unread
<1>6. ASSUME source = g
      PROVE  Ordered(answers[g] \o channel'[g] \o <<message'[g]>>, read[g])
  <2>1. PICK a \in Seq(Nat), c \in Seq(Nat), m \in Nat, n \in Nat :
          a = answers[g] /\ c = channel[g] /\ m = message[g] /\ n = read[g]
    BY Numbered
  <2>2. Ordered((a \o c) \o <<m>>, n)
    BY <1>6, <2>1 DEF LineInv, Gapless
  <2>3. <<m>> \in Seq(Nat) /\ Append(c, m) = c \o <<m>>
    BY AppendIsConcat
  <2>4. PICK l \in Seq(Nat) : l = <<m>>
    BY <2>3
  <2>5. (a \o c) \o l = a \o (c \o l)
    BY Grouped, Zenon
  <2>6. channel'[g] = Append(c, m)
    BY <1>1, <1>2, <1>6, <2>1
  <2>7. PICK p \in Seq(Nat) : p = a \o channel'[g] /\ Ordered(p, n)
    <3>1. a \o channel'[g] = (a \o c) \o <<m>>
      BY <2>3, <2>4, <2>5, <2>6
    <3>2. (a \o c) \o <<m>> \in Seq(Nat)
      BY <2>3, ConcatProperties
    <3> QED BY <2>2, <3>1, <3>2
  <2>8. None \in Nat /\ None \notin Packet
    BY Numbers DEF None, Packet
  <2>9. Ordered(p \o <<None>>, n)
    BY <2>7, <2>8, SignalKeeps
  <2> QED BY <1>3, <2>1, <2>7, <2>9
<1>7. Gapless'
  BY <1>1, <1>3, <1>6 DEF LineInv, Gapless
<1> QED BY <1>4, <1>5, <1>7 DEF LineInv

LEMMA NextPayloadLine == ASSUME IInv, LineInv, NextPayload PROVE LineInv'
<1>1. PICK g \in Gen :
        /\ g = source
        /\ \/ /\ channel[g] # <<>>
              /\ answers' = [answers EXCEPT ![g] = Append(@, Head(channel[g]))]
              /\ channel' = [channel EXCEPT ![g] = Tail(@)]
           \/ /\ channel[g] = <<>> /\ Ended(g)
              /\ answers' = [answers EXCEPT ![g] = Append(@, EndOfStream)]
              /\ UNCHANGED channel
        /\ UNCHANGED <<input, source, built, cancel, worker, message, read, attempts>>
  BY DEF NextPayload, IInv, TypeOK
<1>2. EmptyHanded' /\ Uncancelled' /\ Unread'
  BY <1>1 DEF LineInv, EmptyHanded, Uncancelled, Unread
<1>3. channel \in [Gen -> Seq(Message)] /\ answers \in [Gen -> Seq(Message)]
  BY DEF IInv, TypeOK
<1>4. PICK a \in Seq(Nat), c \in Seq(Nat), m \in Nat, n \in Nat :
        a = answers[g] /\ c = channel[g] /\ m = message[g] /\ n = read[g]
  BY Numbered
<1>5. Ordered((a \o c) \o <<m>>, n)
  BY <1>1, <1>4 DEF LineInv, Gapless
<1>6. CASE channel[g] # <<>>
  <2>1. answers'[g] = Append(a, Head(c)) /\ channel'[g] = Tail(c) /\ c # <<>>
    BY <1>1, <1>3, <1>4, <1>6
  <2>2. answers'[g] \o channel'[g] = a \o c
    BY <2>1, HandOver
  <2> QED BY <1>1, <1>2, <1>4, <1>5, <2>2 DEF LineInv, Gapless
<1>7. CASE channel[g] = <<>>
  <2>1. answers'[g] = Append(a, EndOfStream) /\ channel'[g] = <<>> /\ c = <<>> /\ m = None
    BY <1>1, <1>3, <1>4, <1>7 DEF LineInv, EmptyHanded, Ended
  <2>2. EndOfStream \in Nat /\ EndOfStream \notin Packet /\ None \in Nat /\ None \notin Packet
    BY SourceConstants DEF EndOfStream, None, Packet
  <2>3. a \o c = a
    BY <2>1, ConcatEmptySeq
  <2>4. Ordered(a, n)
    BY <1>5, <2>1, <2>2, <2>3, SignalKeeps
  <2>5. Ordered(a \o <<EndOfStream>>, n)
    BY <2>2, <2>4, SignalKeeps
  <2>6. Append(a, EndOfStream) = a \o <<EndOfStream>> /\ a \o <<EndOfStream>> \in Seq(Nat)
    BY <2>2, AppendIsConcat, OneMore
  <2>7. PICK b \in Seq(Nat) : b = answers'[g] /\ Ordered(b, n)
    BY <2>1, <2>5, <2>6
  <2>8. Ordered(b \o <<None>>, n)
    BY <2>2, <2>7, SignalKeeps
  <2>9. answers'[g] \o channel'[g] = b
    BY <2>1, <2>7, ConcatEmptySeq
  <2> QED BY <1>1, <1>2, <1>4, <2>1, <2>8, <2>9 DEF LineInv, Gapless
<1> QED BY <1>6, <1>7

LEMMA BuildLine == ASSUME IInv, LineInv, BuildSource PROVE LineInv'
<1>1. /\ built < Builds /\ built' = built + 1 /\ source' = built'
      /\ worker' = [worker EXCEPT ![built'] = "start"]
      /\ UNCHANGED <<cancel, channel, message, read, answers>>
  BY DEF BuildSource
<1>2. built' \in Gen /\ built' > built /\ built \in Nat
  BY <1>1, SourceConstants DEF IInv, TypeOK, Gen
<1>3. PICK g \in Gen : g = built' /\ g > built
  BY <1>2
<1>4. /\ worker[g] = "unborn" /\ channel[g] = <<>> /\ answers[g] = <<>> /\ read[g] = 0
      /\ message[g] = None /\ ~cancel[g]
  BY <1>3 DEF IInv, Unbuilt, LineInv, EmptyHanded, Unread, Uncancelled
<1>5. worker' \in [Gen -> Place] /\ \A h \in Gen \ {g} : worker'[h] = worker[h]
  BY <1>1, <1>3 DEF IInv, TypeOK, Place
<1>6. EmptyHanded'
  BY <1>1, <1>4, <1>5 DEF LineInv, EmptyHanded
<1>7. \A h \in Gen : h > built' => h > built
  BY <1>1, <1>2, Numbers
<1>8. Uncancelled' /\ Unread'
  BY <1>1, <1>3, <1>4, <1>7 DEF LineInv, Uncancelled, Unread
<1>9. Ordered(<<>> \o <<>> \o <<None>>, 0)
  <2>0. <<>> \in Seq(Nat)
    OBVIOUS
  <2>1. PICK e \in Seq(Nat) : e = <<>>
    BY <2>0, Zenon
  <2>2. Ordered(e, 0)
    BY <2>1 DEF Ordered, ToSet
  <2>3. None \in Nat /\ None \notin Packet
    BY SourceConstants DEF None, Packet
  <2>4. Ordered(e \o <<None>>, 0) /\ e \o e = e
    BY <2>2, <2>3, SignalKeeps, ConcatEmptySeq, <2>1
  <2> QED BY <2>1, <2>4
<1>10. Gapless'
  BY <1>1, <1>3, <1>4, <1>9 DEF Gapless
<1> QED BY <1>6, <1>8, <1>10 DEF LineInv

LEMMA DropLine == ASSUME IInv, LineInv, DropSource PROVE LineInv'
<1>1. /\ source \in Gen /\ source' = None /\ cancel' = [cancel EXCEPT ![source] = TRUE]
      /\ UNCHANGED <<built, worker, message, read>>
  BY DEF DropSource, IInv, TypeOK
<1>2. EmptyHanded' /\ Unread' /\ Gapless'
  BY <1>1, Numbers DEF LineInv, EmptyHanded, Unread, Gapless
<1>3. ~(source > built)
  BY <1>1 DEF IInv, Unbuilt
<1>4. Uncancelled'
  BY <1>1, <1>3, Numbers DEF LineInv, Uncancelled, IInv, TypeOK
<1> QED BY <1>2, <1>4 DEF LineInv

LEMMA ThreadLine == ASSUME IInv, LineInv, NEW g \in Gen, Work(g) \/ Media(g) PROVE LineInv'
<1>0. {EndOfStream, RecoverableError, FatalError} \subseteq Signal
  BY SourceConstants DEF Signal, EndOfStream, RecoverableError, FatalError
<1>1. CASE Send(g)
  BY <1>1, SendLine
<1>2. CASE StartWorker(g)
  BY <1>0, <1>2, MoveLine DEF StartWorker, Sends
<1>3. CASE CheckCancel(g)
  BY <1>3, MoveLine DEF CheckCancel
<1>4. CASE AttemptDone(g)
  BY <1>0, <1>4, MoveLine DEF AttemptDone, Sends
<1>5. CASE Retry(g)
  BY <1>5, MoveLine DEF Retry
<1>6. CASE ReadPacket(g)
  BY <1>6, ReadLine
<1>7. CASE InputEnds(g)
  BY <1>7, MoveLine DEF InputEnds
<1>8. CASE InputFails(g)
  BY <1>0, <1>8, MoveLine DEF InputFails, Sends
<1>9. CASE PanicWorker(g)
  BY <1>9, MoveLine DEF PanicWorker
<1> QED BY <1>1, <1>2, <1>3, <1>4, <1>5, <1>6, <1>7, <1>8, <1>9 DEF Work, Media

(* While the pipeline holds a source, it gets every packet its thread has  *)
(* read, in order: across failed attempts, a full channel, and the threads *)
(* of earlier sources that still run.                                      *)
THEOREM PacketsAreGapless == Spec => []Gapless
<1>1. Init => LineInv
  <2> SUFFICES ASSUME Init PROVE LineInv
    OBVIOUS
  <2>1. /\ source = None /\ built = 0
        /\ cancel = [g \in Gen |-> FALSE] /\ message = [g \in Gen |-> None]
        /\ read = [g \in Gen |-> 0]
    BY DEF Init
  <2> QED BY <2>1, Numbers DEF LineInv, EmptyHanded, Uncancelled, Unread, Gapless
<1>2. ASSUME IInv, LineInv, [Next]_vars PROVE LineInv'
  <2>1. CASE BuildSource
    BY <1>2, <2>1, BuildLine
  <2>2. CASE NextPayload
    BY <1>2, <2>2, NextPayloadLine
  <2>3. CASE DropSource
    BY <1>2, <2>3, DropLine
  <2>4. CASE \E g \in Gen : Work(g) \/ Media(g)
    BY <1>2, <2>4, ThreadLine
  <2>5. CASE UNCHANGED vars
    BY <1>2, <2>5 DEF vars, LineInv, EmptyHanded, Uncancelled, Unread, Gapless
  <2> QED BY <1>2, <2>1, <2>2, <2>3, <2>4, <2>5 DEF Next
<1>3. LineInv => Gapless
  BY DEF LineInv
<1> QED BY <1>1, <1>2, <1>3, InitInv, NextInv, PTL DEF Spec
=============================================================================
