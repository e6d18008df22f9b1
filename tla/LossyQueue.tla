----------------------------- MODULE LossyQueue -----------------------------
(***************************************************************************)
(* What a bounded queue promises that stands between a pipeline and each   *)
(* of its receivers, whatever its drop policy.  The pipeline offers its    *)
(* payloads 1, 2, 3, ... one by one; an offer costs at most one payload,   *)
(* the new one or one that waits.  What waits is passed on from the oldest *)
(* on.  Nothing else is lost unless the queue ends, and an ended queue     *)
(* passes nothing on.                                                      *)
(***************************************************************************)
EXTENDS Naturals, Sequences

CONSTANT Receiver
VARIABLE queues    \* the queue of each receiver

Queue(newest, waiting, passed, ended) ==
  [newest |-> newest, waiting |-> waiting, passed |-> passed, ended |-> ended]

Init == queues = [r \in Receiver |-> Queue(0, {}, <<>>, FALSE)]

(* The new payload is refused, or joins, or takes the place of another.    *)
Room(q, n) == {q.waiting, q.waiting \cup {n}}
                \cup {(q.waiting \ {x}) \cup {n} : x \in q.waiting}
Offers(q) == LET n == q.newest + 1 IN
             {Queue(n, w, q.passed, q.ended) : w \in Room(q, n)}

Oldest(q) == {p \in q.waiting : \A x \in q.waiting : p <= x}
Passes(q) ==
  {Queue(q.newest, q.waiting \ {p}, Append(q.passed, p), FALSE) :
     p \in IF q.ended THEN {} ELSE Oldest(q)}

Ends(q) == {Queue(q.newest, w, q.passed, TRUE) :
              w \in IF q.ended THEN {} ELSE SUBSET q.waiting}

Steps(q) == {q} \cup Offers(q) \cup Passes(q) \cup Ends(q)

(* One step may touch several queues: they have a pipeline in common.      *)
Next ==
  /\ queues' = [r \in Receiver |-> queues'[r]]
  /\ \A r \in Receiver : queues'[r] \in Steps(queues[r])

Spec == Init /\ [][Next]_queues
=============================================================================
