-------------------------- MODULE SupervisorProofs --------------------------
(***************************************************************************)
(* Proofs about Supervisor for any pipelines, any restart budget, any      *)
(* times and any number of shutdown callers: every variable keeps its      *)
(* type; the budget is exact; an observer misses no end; shutdown's Ok     *)
(* means that every task has ended; and the status map shows a Lifecycle.  *)
(* The invariant ties the status shown to the place where the task stands, *)
(* the attempts to the failures that count, and every task that may still  *)
(* run to somebody who holds its join handle.                              *)
(***************************************************************************)
EXTENDS Supervisor, SequenceTheorems, TLAPS

Place == {"unspawned", "check", "building", "polling", "handling", "stalled", "backoff",
          "done", "panicked"}

(* The status shown fits the place where the task stands.                  *)
TellsTruth(p) ==
  /\ pc[p] = "unspawned" => statuses[p] = "Spawning"
  /\ pc[p] \in {"check", "building"} => statuses[p] \in {"Spawning", "Recovering"}
  /\ pc[p] \in {"polling", "handling"} => statuses[p] = "Running"
  /\ pc[p] = "stalled" => statuses[p] = "Stalled"
  /\ pc[p] = "backoff" => statuses[p] = "Recovering"
  /\ pc[p] = "done" <=> statuses[p] \in Final
  /\ unsent[p] \in {"none", statuses[p]}

BudgetKept(p) ==
  /\ pc[p] \notin {"done", "panicked"} => quick[p] <= MaxRestarts /\ attempts[p] = quick[p]
  /\ pc[p] = "done" /\ recoverable[p] => quick[p] > MaxRestarts

EndKnown(p) == watcher = "informed" /\ statuses[p] \in Final /\ unsent[p] = "none" => p \in known

Holds(handles, p) == \E i \in 1 .. Len(handles) : handles[i] = p

(* Every spawned task that has not ended well has its handle in the engine *)
(* or with a caller, unless a caller gave up on its handles.               *)
Accounted(p) ==
  \/ pc[p] \in {"unspawned", "done"}
  \/ Holds(join_handles, p)
  \/ \E c \in Caller : Holds(awaiting[c], p) \/ caller[c] = "error"

Callers ==
  \A c \in Caller : /\ caller[c] # "idle" => Started
                    /\ caller[c] # "awaiting" => awaiting[c] = <<>>

Told(p) == TellsTruth(p) /\ BudgetKept(p) /\ EndKnown(p) /\ Accounted(p)
IInv == TypeOK /\ Callers /\ \A p \in Pipeline : Told(p)

LEMMA Statuses == /\ Final \subseteq TaskStatus /\ "none" \notin TaskStatus
                  /\ {"Spawning", "Running", "Stalled", "Recovering"} \cap Final = {}
                  /\ TaskStatus = {"Spawning", "Running", "Stalled", "Recovering"} \cup Final
BY DEF TaskStatus, Final

LEMMA Numbers == /\ 0 \in 0 .. MaxRestarts /\ 0 \in 0 .. ResetAfter /\ 0 \in 0 .. Watchdog
                 /\ 0 \in 0 .. HistoryCap /\ HistoryCap \in Nat /\ MaxRestarts < HistoryCap
                 /\ 1 \in 0 .. HistoryCap /\ \A n \in 0 .. HistoryCap : OneMore(n) \in 0 .. HistoryCap
                 /\ \A n \in 0 .. MaxRestarts : OneMore(n) = n + 1
BY SupervisorConstants DEF HistoryCap, OneMore

LEMMA InitInv == Init => IInv
<1> SUFFICES ASSUME Init PROVE IInv
  OBVIOUS
<1>1. /\ pc = [p \in Pipeline |-> "unspawned"] /\ statuses = [p \in Pipeline |-> "Spawning"]
      /\ unsent = [p \in Pipeline |-> "none"] /\ attempts = [p \in Pipeline |-> 0]
      /\ elapsed = [p \in Pipeline |-> 0] /\ silence = [p \in Pipeline |-> 0]
      /\ quick = [p \in Pipeline |-> 0] /\ recoverable = [p \in Pipeline |-> FALSE]
      /\ cancelled = FALSE /\ join_handles = <<>> /\ caller = [c \in Caller |-> "idle"]
      /\ awaiting = [c \in Caller |-> <<>>] /\ watcher = "idle" /\ known = {}
  BY DEF Init
<1>2. <<>> \in Seq(Pipeline)
  OBVIOUS
<1>3. TypeOK
  BY <1>1, <1>2, Numbers, Statuses DEF TypeOK
<1>4. Callers
  BY <1>1 DEF Callers
<1>5. ASSUME NEW p \in Pipeline PROVE Told(p)
  <2>1. TellsTruth(p)
    BY <1>1, Statuses DEF TellsTruth
  <2>2. BudgetKept(p)
    BY <1>1, SupervisorConstants DEF BudgetKept
  <2> QED BY <1>1, <2>1, <2>2 DEF Told, EndKnown, Accounted
<1> QED BY <1>3, <1>4, <1>5 DEF IInv

(* A step of one task leaves the others, the callers and the watcher alone.*)
Others(p) ==
  /\ \A q \in Pipeline \ {p} :
       /\ pc'[q] = pc[q] /\ statuses'[q] = statuses[q] /\ unsent'[q] = unsent[q]
       /\ attempts'[q] = attempts[q] /\ quick'[q] = quick[q] /\ recoverable'[q] = recoverable[q]
  /\ UNCHANGED <<client, watch>>

LEMMA OthersTold ==
  ASSUME IInv, NEW p \in Pipeline, Others(p), TypeOK', pc[p] # "unspawned",
         pc'[p] # "unspawned", TellsTruth(p)', BudgetKept(p)', pc[p] # "done",
         statuses'[p] \in Final => unsent'[p] # "none"
  PROVE  IInv'
<1>1. UNCHANGED <<caller, awaiting, join_handles, cancelled, watcher, known>>
  BY DEF Others, client, watch
<1>2. Callers'
  <2>1. Started => Started'
    BY DEF Started, Others
  <2> QED BY <1>1, <2>1 DEF IInv, Callers
<1>3. EndKnown(p)'
  BY DEF EndKnown
<1>4. Accounted(p)'
  BY <1>1 DEF IInv, Told, Accounted
<1>5. ASSUME NEW q \in Pipeline \ {p} PROVE Told(q)'
  <2>1. Told(q)
    BY DEF IInv
  <2>2. /\ pc'[q] = pc[q] /\ statuses'[q] = statuses[q] /\ unsent'[q] = unsent[q]
        /\ attempts'[q] = attempts[q] /\ quick'[q] = quick[q] /\ recoverable'[q] = recoverable[q]
    BY DEF Others
  <2>3. TellsTruth(q)' /\ BudgetKept(q)'
    BY <2>1, <2>2 DEF Told, TellsTruth, BudgetKept
  <2>4. EndKnown(q)' /\ Accounted(q)'
    BY <1>1, <2>1, <2>2 DEF Told, EndKnown, Accounted
  <2> QED BY <2>3, <2>4 DEF Told
<1> QED BY <1>2, <1>3, <1>4, <1>5 DEF IInv, Told

(* Publishing a status and going on.                                       *)
LEMMA PublishInv ==
  ASSUME IInv, NEW p \in Pipeline, NEW s \in TaskStatus, NEW place \in Place,
         Publish(p, s, place), UNCHANGED client, pc[p] \notin {"unspawned", "done"},
         place \in {"polling", "stalled", "backoff", "done"},
         place = "polling" => s = "Running", place = "stalled" => s = "Stalled",
         place = "backoff" => s = "Recovering", place = "done" => s \in Final,
         NEW a \in 0 .. MaxRestarts, NEW q \in 0 .. HistoryCap,
         attempts' \in [Pipeline -> 0 .. MaxRestarts], quick' \in [Pipeline -> 0 .. HistoryCap],
         recoverable' \in [Pipeline -> BOOLEAN],
         attempts'[p] = a, quick'[p] = q, place # "done" => a = q,
         place = "done" /\ recoverable'[p] => q > MaxRestarts,
         \A h \in Pipeline \ {p} : /\ attempts'[h] = attempts[h] /\ quick'[h] = quick[h]
                                   /\ recoverable'[h] = recoverable[h],
         elapsed' \in [Pipeline -> 0 .. ResetAfter], silence' \in [Pipeline -> 0 .. Watchdog]
  PROVE  IInv'
<1>1. /\ pc' = [pc EXCEPT ![p] = place] /\ statuses' = [statuses EXCEPT ![p] = s]
      /\ unsent' = [unsent EXCEPT ![p] = s] /\ UNCHANGED watch
  BY DEF Publish
<1>2. /\ pc' \in [Pipeline -> Place] /\ pc'[p] = place /\ \A h \in Pipeline \ {p} : pc'[h] = pc[h]
      /\ statuses' \in [Pipeline -> TaskStatus] /\ statuses'[p] = s
      /\ \A h \in Pipeline \ {p} : statuses'[h] = statuses[h]
      /\ unsent' \in [Pipeline -> TaskStatus \cup {"none"}] /\ unsent'[p] = s
      /\ \A h \in Pipeline \ {p} : unsent'[h] = unsent[h]
  BY <1>1 DEF IInv, TypeOK, Place
<1>3. TypeOK'
  BY <1>1, <1>2 DEF IInv, TypeOK, Place, client, watch
<1>4. Others(p)
  BY <1>1, <1>2 DEF Others
<1>5. TellsTruth(p)'
  BY <1>2, Statuses DEF TellsTruth
<1>6. BudgetKept(p)'
  BY <1>2, SupervisorConstants DEF BudgetKept
<1> QED BY <1>2, <1>3, <1>4, <1>5, <1>6, Statuses, OthersTold

(* Going on without a word.                                                *)
LEMMA GoInv ==
  ASSUME IInv, NEW p \in Pipeline, NEW place \in Place \ {"unspawned", "done"},
         pc' = [pc EXCEPT ![p] = place], pc[p] \notin {"unspawned", "done", "panicked"},
         place \in {"check", "building"} => statuses[p] \in {"Spawning", "Recovering"},
         place \in {"polling", "handling"} => statuses[p] = "Running",
         place \notin {"stalled", "backoff"},
         UNCHANGED <<statuses, unsent, attempts, quick, recoverable, client, watch>>,
         elapsed' \in [Pipeline -> 0 .. ResetAfter], silence' \in [Pipeline -> 0 .. Watchdog]
  PROVE  IInv'
<1>1. /\ pc' \in [Pipeline -> Place] /\ pc'[p] = place /\ \A h \in Pipeline \ {p} : pc'[h] = pc[h]
  BY DEF IInv, TypeOK, Place
<1>2. TypeOK'
  BY <1>1 DEF IInv, TypeOK, Place, client, watch
<1>3. Others(p)
  BY <1>1 DEF Others
<1>4. Told(p) /\ statuses[p] \notin Final
  BY DEF IInv, Told, TellsTruth
<1>5. TellsTruth(p)' /\ BudgetKept(p)'
  BY <1>1, <1>4 DEF Told, TellsTruth, BudgetKept
<1> QED BY <1>1, <1>2, <1>3, <1>4, <1>5, OthersTold

LEMMA EndInv ==
  ASSUME IInv, NEW p \in Pipeline, pc[p] \notin {"unspawned", "done"}, NEW s \in Final, End(p, s)
  PROVE  IInv'
<1>1. /\ Publish(p, s, "done") /\ UNCHANGED client
      /\ recoverable' = [recoverable EXCEPT ![p] = FALSE]
      /\ UNCHANGED <<attempts, elapsed, silence, quick>>
  BY DEF End
<1>2. /\ attempts' \in [Pipeline -> 0 .. MaxRestarts] /\ quick' \in [Pipeline -> 0 .. HistoryCap]
      /\ elapsed' \in [Pipeline -> 0 .. ResetAfter] /\ silence' \in [Pipeline -> 0 .. Watchdog]
      /\ recoverable' \in [Pipeline -> BOOLEAN] /\ ~recoverable'[p]
      /\ attempts'[p] \in 0 .. MaxRestarts /\ quick'[p] \in 0 .. HistoryCap
      /\ \A h \in Pipeline \ {p} : /\ attempts'[h] = attempts[h] /\ quick'[h] = quick[h]
                                /\ recoverable'[h] = recoverable[h]
  BY <1>1 DEF IInv, TypeOK
<1>3. s \in TaskStatus /\ "done" \in Place
  BY Statuses DEF Place
<1> QED BY <1>1, <1>2, <1>3, PublishInv

(* A recoverable exit: a stable run restores the budget, another is one    *)
(* more failure; the attempts counted stay those since a stable run.       *)
LEMMA RecoverableInv ==
  ASSUME IInv, NEW p \in Pipeline, pc[p] \in {"polling", "handling"}, Recoverable(p)
  PROVE  IInv'
<1> DEFINE n == IF Stable(p) THEN 0 ELSE attempts[p]
           q == IF Stable(p) THEN 1 ELSE OneMore(quick[p])
<1>1. /\ attempts[p] \in 0 .. MaxRestarts /\ quick[p] \in 0 .. HistoryCap
      /\ quick[p] <= MaxRestarts /\ attempts[p] = quick[p]
  BY DEF IInv, Told, BudgetKept, TypeOK
<1>2. /\ n \in 0 .. MaxRestarts /\ q \in 0 .. HistoryCap /\ q = n + 1 /\ Counted(p) = n
  BY <1>1, Numbers DEF Counted
<1>3. /\ quick' = [quick EXCEPT ![p] = q] /\ recoverable' = [recoverable EXCEPT ![p] = TRUE]
      /\ UNCHANGED <<elapsed, silence, client>>
  BY DEF Recoverable
<1>4. /\ quick' \in [Pipeline -> 0 .. HistoryCap] /\ quick'[p] = q
      /\ \A h \in Pipeline \ {p} : quick'[h] = quick[h] /\ recoverable'[h] = recoverable[h]
      /\ elapsed' \in [Pipeline -> 0 .. ResetAfter] /\ silence' \in [Pipeline -> 0 .. Watchdog]
      /\ recoverable' \in [Pipeline -> BOOLEAN]
  BY <1>2, <1>3 DEF IInv, TypeOK
<1> HIDE DEF n, q
<1>5. /\ {"stalled", "done"} \subseteq Place /\ {"Stalled", "Failed"} \subseteq TaskStatus
      /\ "Failed" \in Final
  BY DEF Place, TaskStatus, Final
<1>6. CASE BudgetLeft(n)
  <2>1. attempts' = [attempts EXCEPT ![p] = n + 1] /\ Publish(p, "Stalled", "stalled")
    BY <1>2, <1>6 DEF Recoverable
  <2>2. n + 1 \in 0 .. MaxRestarts
    BY <1>2, <1>6, SupervisorConstants DEF BudgetLeft
  <2>3. /\ attempts' \in [Pipeline -> 0 .. MaxRestarts] /\ attempts'[p] = n + 1
        /\ \A h \in Pipeline \ {p} : attempts'[h] = attempts[h]
    BY <2>1, <2>2 DEF IInv, TypeOK
  <2>4. \A h \in Pipeline \ {p} : /\ attempts'[h] = attempts[h] /\ quick'[h] = quick[h]
                                  /\ recoverable'[h] = recoverable[h]
    BY <1>4, <2>3
  <2>5. q = n + 1
    BY <1>2
  <2>6. /\ Publish(p, "Stalled", "stalled") /\ UNCHANGED client
        /\ pc[p] \notin {"unspawned", "done"} /\ quick'[p] = n + 1 /\ n + 1 \in 0 .. HistoryCap
    BY <1>2, <1>3, <1>4, <2>1, <2>5
  <2> QED BY <1>4, <1>5, <2>2, <2>3, <2>4, <2>6, PublishInv
<1>7. CASE ~BudgetLeft(n)
  <2>1. attempts' = [attempts EXCEPT ![p] = n] /\ Publish(p, "Failed", "done")
    BY <1>2, <1>7 DEF Recoverable
  <2>2. /\ attempts' \in [Pipeline -> 0 .. MaxRestarts] /\ attempts'[p] = n
        /\ \A h \in Pipeline \ {p} : attempts'[h] = attempts[h]
    BY <1>2, <2>1 DEF IInv, TypeOK
  <2>3. q > MaxRestarts
    BY <1>2, <1>7, SupervisorConstants DEF BudgetLeft
  <2> QED BY <1>2, <1>3, <1>4, <1>5, <2>1, <2>2, <2>3, PublishInv
<1> QED BY <1>6, <1>7

LEMMA ExitInv ==
  ASSUME IInv, NEW p \in Pipeline, pc[p] \in {"polling", "handling"}, NEW r \in BOOLEAN, Exit(p, r)
  PROVE  IInv'
BY RecoverableInv, EndInv DEF Exit, Final

LEMMA BuildSucceedsInv == ASSUME IInv, NEW p \in Pipeline, BuildSucceeds(p) PROVE IInv'
<1>1. /\ pc[p] = "building" /\ Publish(p, "Running", "polling")
      /\ elapsed' = [elapsed EXCEPT ![p] = 0] /\ silence' = [silence EXCEPT ![p] = 0]
      /\ UNCHANGED <<attempts, quick, recoverable, client>>
  BY DEF BuildSucceeds, At, failures
<1>2. /\ attempts' \in [Pipeline -> 0 .. MaxRestarts] /\ quick' \in [Pipeline -> 0 .. HistoryCap]
      /\ elapsed' \in [Pipeline -> 0 .. ResetAfter] /\ silence' \in [Pipeline -> 0 .. Watchdog]
      /\ recoverable' \in [Pipeline -> BOOLEAN]
      /\ attempts'[p] \in 0 .. MaxRestarts /\ quick'[p] \in 0 .. HistoryCap
      /\ \A h \in Pipeline \ {p} : /\ attempts'[h] = attempts[h] /\ quick'[h] = quick[h]
                                /\ recoverable'[h] = recoverable[h]
  BY <1>1, Numbers DEF IInv, TypeOK
<1>3. attempts'[p] = quick'[p]
  BY <1>1 DEF IInv, Told, BudgetKept
<1>4. "polling" \in Place /\ "Running" \in TaskStatus
  BY DEF Place, TaskStatus
<1> QED BY <1>1, <1>2, <1>3, <1>4, PublishInv

LEMMA AnnounceInv == ASSUME IInv, NEW p \in Pipeline, AnnounceRecovering(p) PROVE IInv'
<1>1. /\ pc[p] = "stalled" /\ Publish(p, "Recovering", "backoff")
      /\ UNCHANGED <<attempts, elapsed, silence, quick, recoverable, client>>
  BY DEF AnnounceRecovering, At, failures
<1>2. /\ attempts' \in [Pipeline -> 0 .. MaxRestarts] /\ quick' \in [Pipeline -> 0 .. HistoryCap]
      /\ elapsed' \in [Pipeline -> 0 .. ResetAfter] /\ silence' \in [Pipeline -> 0 .. Watchdog]
      /\ recoverable' \in [Pipeline -> BOOLEAN]
      /\ attempts'[p] \in 0 .. MaxRestarts /\ quick'[p] \in 0 .. HistoryCap
      /\ \A h \in Pipeline \ {p} : /\ attempts'[h] = attempts[h] /\ quick'[h] = quick[h]
                                /\ recoverable'[h] = recoverable[h]
  BY <1>1 DEF IInv, TypeOK
<1>3. attempts'[p] = quick'[p]
  BY <1>1 DEF IInv, Told, BudgetKept
<1>4. "backoff" \in Place /\ "Recovering" \in TaskStatus
  BY DEF Place, TaskStatus
<1> QED BY <1>1, <1>2, <1>3, <1>4, PublishInv

LEMMA GoingInv ==
  ASSUME IInv, NEW p \in Pipeline,
         BeginBuild(p) \/ Deliver(p) \/ Handled(p) \/ BackoffOver(p) \/ Panic(p)
  PROVE  IInv'
<1>1. /\ elapsed \in [Pipeline -> 0 .. ResetAfter] /\ silence \in [Pipeline -> 0 .. Watchdog]
      /\ TellsTruth(p)
  BY DEF IInv, TypeOK, Told
<1>2. {"check", "building", "polling", "handling", "panicked"} \subseteq Place \ {"unspawned", "done"}
  BY DEF Place
<1>3. CASE BeginBuild(p)
  <2>1. /\ pc[p] = "check" /\ pc' = [pc EXCEPT ![p] = "building"]
        /\ UNCHANGED <<statuses, unsent, attempts, elapsed, silence, quick, recoverable, client, watch>>
    BY <1>3 DEF BeginBuild, At, failures
  <2>2. statuses[p] \in {"Spawning", "Recovering"}
    BY <1>1, <2>1 DEF TellsTruth
  <2> QED BY <1>1, <1>2, <2>1, <2>2, GoInv
<1>4. CASE Deliver(p)
  <2>1. /\ pc[p] = "polling" /\ pc' = [pc EXCEPT ![p] = "handling"]
        /\ UNCHANGED <<statuses, unsent, attempts, elapsed, silence, quick, recoverable, client, watch>>
    BY <1>4 DEF Deliver, At, failures
  <2>2. statuses[p] = "Running" 
    BY <1>1, <2>1, Numbers DEF TellsTruth
  <2> QED BY <1>1, <1>2, <2>1, <2>2, GoInv
<1>5. CASE Handled(p)
  <2>1. /\ pc[p] = "handling" /\ pc' = [pc EXCEPT ![p] = "polling"]
        /\ silence' = [silence EXCEPT ![p] = 0]
        /\ UNCHANGED <<statuses, unsent, attempts, elapsed, quick, recoverable, client, watch>>
    BY <1>5 DEF Handled, At, failures
  <2>2. statuses[p] = "Running" /\ silence' \in [Pipeline -> 0 .. Watchdog]
    BY <1>1, <2>1, Numbers DEF TellsTruth
  <2> QED BY <1>1, <1>2, <2>1, <2>2, GoInv
<1>6. CASE BackoffOver(p)
  <2>1. /\ pc[p] = "backoff" /\ pc' = [pc EXCEPT ![p] = "check"]
        /\ UNCHANGED <<statuses, unsent, attempts, elapsed, silence, quick, recoverable, client, watch>>
    BY <1>6 DEF BackoffOver, At, failures
  <2>2. statuses[p] \in {"Spawning", "Recovering"}
    BY <1>1, <2>1 DEF TellsTruth
  <2> QED BY <1>1, <1>2, <2>1, <2>2, GoInv
<1>7. CASE Panic(p)
  <2>1. /\ pc[p] \in {"building", "polling", "handling"} /\ pc' = [pc EXCEPT ![p] = "panicked"]
        /\ UNCHANGED <<statuses, unsent, attempts, elapsed, silence, quick, recoverable, client, watch>>
    BY <1>7 DEF Panic, At, failures
  <2> QED BY <1>1, <1>2, <2>1, GoInv
<1> QED BY <1>3, <1>4, <1>5, <1>6, <1>7

LEMMA TickInv == ASSUME IInv, NEW p \in Pipeline, Tick(p) PROVE IInv'
<1>1. /\ (pc[p] = "polling" /\ silence[p] < Watchdog) \/ pc[p] = "handling"
      /\ elapsed' = [elapsed EXCEPT ![p] = IF @ < ResetAfter THEN @ + 1 ELSE @]
      /\ silence' = [silence EXCEPT ![p] = IF pc[p] = "polling" THEN @ + 1 ELSE @]
      /\ UNCHANGED <<pc, statuses, unsent, attempts, quick, recoverable, client, watch>>
  BY DEF Tick, At, failures
<1>2. elapsed' \in [Pipeline -> 0 .. ResetAfter]
  <2>1. elapsed \in [Pipeline -> 0 .. ResetAfter]
    BY DEF IInv, TypeOK
  <2>2. (IF elapsed[p] < ResetAfter THEN elapsed[p] + 1 ELSE elapsed[p]) \in 0 .. ResetAfter
    BY <2>1, SupervisorConstants
  <2> QED BY <1>1, <2>1, <2>2
<1>3. silence' \in [Pipeline -> 0 .. Watchdog]
  <2>1. silence \in [Pipeline -> 0 .. Watchdog]
    BY DEF IInv, TypeOK
  <2>2. (IF pc[p] = "polling" THEN silence[p] + 1 ELSE silence[p]) \in 0 .. Watchdog
    BY <1>1, <2>1, SupervisorConstants
  <2> QED BY <1>1, <2>1, <2>2
<1>4. TypeOK'
  BY <1>1, <1>2, <1>3 DEF IInv, TypeOK, client, watch
<1>5. Callers'
  BY <1>1 DEF IInv, Callers, Started, client
<1>6. ASSUME NEW q \in Pipeline PROVE Told(q)'
  BY <1>1 DEF IInv, Told, TellsTruth, BudgetKept, EndKnown, Accounted, client, watch
<1> QED BY <1>4, <1>5, <1>6 DEF IInv

(* The event is sent: who has subscribed by now learns of an end.          *)
LEMMA SendEventInv == ASSUME IInv, NEW p \in Pipeline, SendEvent(p) PROVE IInv'
<1>1. /\ unsent[p] # "none" /\ unsent' = [unsent EXCEPT ![p] = "none"]
      /\ known' = IF watcher # "idle" /\ unsent[p] \in Final THEN known \cup {p} ELSE known
      /\ UNCHANGED <<pc, statuses, attempts, elapsed, silence, quick, recoverable, client, watcher>>
  BY DEF SendEvent, failures
<1>2. /\ unsent' \in [Pipeline -> TaskStatus \cup {"none"}] /\ unsent'[p] = "none"
      /\ \A q \in Pipeline \ {p} : unsent'[q] = unsent[q]
      /\ known' \in SUBSET Pipeline /\ known \subseteq known'
  BY <1>1 DEF IInv, TypeOK
<1>3. TypeOK'
  BY <1>1, <1>2 DEF IInv, TypeOK, client
<1>4. Callers'
  BY <1>1 DEF IInv, Callers, Started, client
<1>5. ASSUME NEW q \in Pipeline PROVE Told(q)'
  <2>1. Told(q)
    BY DEF IInv
  <2>2. TellsTruth(q)' /\ BudgetKept(q)' /\ Accounted(q)'
    BY <1>1, <1>2, <2>1 DEF Told, TellsTruth, BudgetKept, Accounted, client
  <2>3. EndKnown(q)'
    BY <1>1, <1>2, <2>1 DEF Told, EndKnown, TellsTruth
  <2> QED BY <2>2, <2>3 DEF Told
<1> QED BY <1>3, <1>4, <1>5 DEF IInv

LEMMA HoldsAppended ==
  ASSUME NEW S, NEW s \in Seq(S), NEW e \in S
  PROVE  Append(s, e) \in Seq(S) /\ Holds(Append(s, e), e) /\ \A p : Holds(s, p) => Holds(Append(s, e), p)
<1>1. /\ Append(s, e) \in Seq(S) /\ Len(Append(s, e)) = Len(s) + 1 /\ Len(s) \in Nat
      /\ \A i \in 1 .. Len(s) : Append(s, e)[i] = s[i]
      /\ Append(s, e)[Len(s) + 1] = e
  BY AppendProperties, LenProperties
<1>2. /\ 1 .. Len(s) \subseteq 1 .. Len(Append(s, e))
      /\ Len(s) + 1 \in 1 .. Len(Append(s, e))
  BY <1>1
<1> QED BY <1>1, <1>2 DEF Holds

LEMMA HoldsTail ==
  ASSUME NEW S, NEW s \in Seq(S), s # <<>>
  PROVE  /\ Tail(s) \in Seq(S) /\ Head(s) \in S
         /\ \A p : Holds(s, p) => p = Head(s) \/ Holds(Tail(s), p)
<1>1. /\ Tail(s) \in Seq(S) /\ Len(Tail(s)) = Len(s) - 1 /\ Len(s) \in Nat /\ Len(s) >= 1
      /\ \A i \in 1 .. Len(Tail(s)) : Tail(s)[i] = s[i + 1]
      /\ Head(s) = s[1] /\ Head(s) \in S
  BY HeadTailProperties, LenProperties, EmptySeq
<1>2. ASSUME NEW i \in 1 .. Len(s), i # 1 PROVE i - 1 \in 1 .. Len(Tail(s)) /\ Tail(s)[i - 1] = s[i]
  BY <1>1, <1>2
<1> QED BY <1>1, <1>2 DEF Holds

LEMMA OrderIndex == Len(Order) \in Nat /\ \A i \in 1 .. Len(Order) : Order[i] \in Pipeline
BY SupervisorConstants, LenProperties DEF Pipeline

LEMMA SpawnInv == ASSUME IInv, Spawn PROVE IInv'
<1> DEFINE p == Order[Len(join_handles) + 1]
<1>1. /\ Len(join_handles) < Len(Order) /\ pc[p] = "unspawned"
      /\ pc' = [pc EXCEPT ![p] = "check"] /\ join_handles' = Append(join_handles, p)
      /\ UNCHANGED <<statuses, unsent, attempts, elapsed, silence, quick, recoverable,
                     caller, awaiting, cancelled, watch>>
  BY DEF Spawn, failures
<1>2. join_handles \in Seq(Pipeline) /\ Len(join_handles) \in Nat
  BY LenProperties DEF IInv, TypeOK
<1>3. Len(join_handles) + 1 \in 1 .. Len(Order)
  BY <1>1, <1>2, OrderIndex
<1>4. p \in Pipeline
  BY <1>3, OrderIndex
<1> HIDE DEF p
<1>5. /\ pc' \in [Pipeline -> Place] /\ pc'[p] = "check" /\ \A q \in Pipeline \ {p} : pc'[q] = pc[q]
  BY <1>1, <1>4 DEF IInv, TypeOK, Place
<1>6. /\ join_handles' \in Seq(Pipeline) /\ Holds(join_handles', p)
      /\ \A q : Holds(join_handles, q) => Holds(join_handles', q)
  BY <1>1, <1>2, <1>4, HoldsAppended
<1>7. TypeOK'
  BY <1>1, <1>5, <1>6 DEF IInv, TypeOK, Place, watch
<1>8. Callers'
  <2>1. Started => Started'
    BY <1>5 DEF Started
  <2> QED BY <1>1, <2>1 DEF IInv, Callers
<1>9. ASSUME NEW q \in Pipeline PROVE Told(q)'
  <2>1. Told(q)
    BY DEF IInv
  <2>2. pc'[q] = pc[q] \/ (pc[q] = "unspawned" /\ pc'[q] = "check")
    <3>1. CASE q = p
      BY <1>1, <1>5, <3>1
    <3>2. CASE q # p
      BY <1>5, <3>2
    <3> QED BY <3>1, <3>2
  <2>3. TellsTruth(q)' /\ BudgetKept(q)' /\ EndKnown(q)'
    BY <1>1, <2>1, <2>2 DEF Told, TellsTruth, BudgetKept, EndKnown, watch
  <2>4. Accounted(q)'
    BY <1>1, <1>5, <1>6, <2>1 DEF Told, Accounted
  <2> QED BY <2>3, <2>4 DEF Told
<1> QED BY <1>7, <1>8, <1>9 DEF IInv

(* Clients: the tasks stay as they are.                                    *)
LEMMA WatchInv == ASSUME IInv, Subscribe \/ ReadStatus PROVE IInv'
<1>1. /\ watcher' \in {"subscribed", "informed"} /\ UNCHANGED <<task, client>>
      /\ \/ known' = known /\ watcher' # "informed"
         \/ known' = known \cup {p \in Pipeline : statuses[p] \in Final}
  BY DEF Subscribe, ReadStatus
<1>2. UNCHANGED <<pc, statuses, unsent, attempts, elapsed, silence, quick, recoverable,
                  caller, awaiting, join_handles, cancelled>>
  BY <1>1 DEF task, client, failures
<1>3. TypeOK'
  BY <1>1, <1>2 DEF IInv, TypeOK
<1>4. Callers'
  BY <1>2 DEF IInv, Callers, Started
<1>5. ASSUME NEW q \in Pipeline PROVE Told(q)'
  <2>1. TellsTruth(q)' /\ BudgetKept(q)' /\ Accounted(q)'
    BY <1>2 DEF IInv, Told, TellsTruth, BudgetKept, Accounted
  <2>2. EndKnown(q)'
    BY <1>1, <1>2 DEF IInv, Told, EndKnown
  <2> QED BY <2>1, <2>2 DEF Told
<1> QED BY <1>3, <1>4, <1>5 DEF IInv

LEMMA CallerInv ==
  ASSUME IInv, UNCHANGED <<task, watch>>, cancelled' \in BOOLEAN, TypeOK', Callers',
         \A p \in Pipeline : Accounted(p) => Accounted(p)'
  PROVE  IInv'
<1>1. UNCHANGED <<pc, statuses, unsent, attempts, quick, recoverable, watcher, known>>
  BY DEF task, watch, failures
<1>2. ASSUME NEW q \in Pipeline PROVE Told(q)'
  BY <1>1 DEF IInv, Told, TellsTruth, BudgetKept, EndKnown
<1> QED BY <1>2 DEF IInv

LEMMA ShutdownInv == ASSUME IInv, NEW c \in Caller, ShutdownCancel(c) \/ Shutdown(c) PROVE IInv'
<1>1. UNCHANGED <<task, watch>>
  BY DEF ShutdownCancel, Shutdown, ShutdownTake, Join, JoinError, ShutdownReturns
<1>2. UNCHANGED <<pc, statuses, unsent, attempts, elapsed, silence, quick, recoverable, watcher, known>>
  BY <1>1 DEF task, watch, failures
<1>3. /\ caller \in [Caller -> {"idle", "cancelled", "awaiting", "ok", "error"}]
      /\ awaiting \in [Caller -> Seq(Pipeline)] /\ join_handles \in Seq(Pipeline)
      /\ cancelled \in BOOLEAN
  BY DEF IInv, TypeOK
<1>4. Started' = Started /\ \A p : (pc[p])' = pc[p]
  BY <1>2 DEF Started
<1>5. ASSUME caller' \in [Caller -> {"idle", "cancelled", "awaiting", "ok", "error"}],
             awaiting' \in [Caller -> Seq(Pipeline)], join_handles' \in Seq(Pipeline),
             cancelled' \in BOOLEAN
      PROVE  TypeOK'
  BY <1>2, <1>5 DEF IInv, TypeOK
<1>6. CASE ShutdownCancel(c)
  <2>1. /\ caller[c] = "idle" /\ Started /\ cancelled' = TRUE
        /\ caller' = [caller EXCEPT ![c] = "cancelled"] /\ UNCHANGED <<awaiting, join_handles>>
    BY <1>6 DEF ShutdownCancel
  <2>2. TypeOK' /\ cancelled' \in BOOLEAN
    BY <1>3, <1>5, <2>1
  <2>3. Callers'
    BY <1>3, <1>4, <2>1 DEF IInv, Callers
  <2>4. \A p \in Pipeline : Accounted(p) => Accounted(p)'
    BY <1>2, <1>3, <2>1 DEF Accounted
  <2> QED BY <1>1, <2>2, <2>3, <2>4, CallerInv
<1>7. CASE ShutdownTake(c)
  <2>1. /\ caller[c] = "cancelled" /\ awaiting' = [awaiting EXCEPT ![c] = join_handles]
        /\ join_handles' = <<>> /\ caller' = [caller EXCEPT ![c] = "awaiting"]
        /\ UNCHANGED cancelled
    BY <1>7 DEF ShutdownTake
  <2>2. <<>> \in Seq(Pipeline)
    OBVIOUS
  <2>3. TypeOK' /\ cancelled' \in BOOLEAN
    BY <1>3, <1>5, <2>1, <2>2
  <2>4. Callers'
    BY <1>3, <1>4, <2>1 DEF IInv, Callers
  <2>5. awaiting[c] = <<>>
    BY <2>1 DEF IInv, Callers
  <2>6. ~\E p : Holds(awaiting[c], p)
    BY <2>5 DEF Holds
  <2>7. \A p \in Pipeline : Accounted(p) => Accounted(p)'
    BY <1>2, <1>3, <2>1, <2>6 DEF Accounted
  <2> QED BY <1>1, <2>3, <2>4, <2>7, CallerInv
<1>8. CASE Join(c)
  <2>1. /\ caller[c] = "awaiting" /\ awaiting[c] # <<>> /\ pc[Head(awaiting[c])] = "done"
        /\ awaiting' = [awaiting EXCEPT ![c] = Tail(@)]
        /\ UNCHANGED <<caller, cancelled, join_handles>>
    BY <1>8 DEF Join, At
  <2>2. /\ Tail(awaiting[c]) \in Seq(Pipeline)
        /\ \A p : Holds(awaiting[c], p) => p = Head(awaiting[c]) \/ Holds(Tail(awaiting[c]), p)
    BY <1>3, <2>1, HoldsTail
  <2>3. TypeOK' /\ cancelled' \in BOOLEAN
    BY <1>3, <1>5, <2>1, <2>2
  <2>4. Callers'
    BY <1>3, <1>4, <2>1 DEF IInv, Callers
  <2>5. \A p \in Pipeline : Accounted(p) => Accounted(p)'
    BY <1>2, <1>3, <2>1, <2>2 DEF Accounted
  <2> QED BY <1>1, <2>3, <2>4, <2>5, CallerInv
<1>9. CASE JoinError(c)
  <2>1. /\ caller[c] = "awaiting" /\ caller' = [caller EXCEPT ![c] = "error"]
        /\ awaiting' = [awaiting EXCEPT ![c] = <<>>] /\ UNCHANGED <<cancelled, join_handles>>
    BY <1>9 DEF JoinError
  <2>2. <<>> \in Seq(Pipeline)
    OBVIOUS
  <2>3. TypeOK' /\ cancelled' \in BOOLEAN
    BY <1>3, <1>5, <2>1, <2>2
  <2>4. Callers'
    BY <1>3, <1>4, <2>1 DEF IInv, Callers
  <2>5. \A p \in Pipeline : Accounted(p) => Accounted(p)'
    BY <1>2, <1>3, <2>1 DEF Accounted
  <2> QED BY <1>1, <2>3, <2>4, <2>5, CallerInv
<1>10. CASE ShutdownReturns(c)
  <2>1. /\ caller[c] = "awaiting" /\ awaiting[c] = <<>> /\ caller' = [caller EXCEPT ![c] = "ok"]
        /\ UNCHANGED <<awaiting, cancelled, join_handles>>
    BY <1>10 DEF ShutdownReturns
  <2>2. TypeOK' /\ cancelled' \in BOOLEAN
    BY <1>3, <1>5, <2>1
  <2>3. Callers'
    BY <1>3, <1>4, <2>1 DEF IInv, Callers
  <2>4. \A p \in Pipeline : Accounted(p) => Accounted(p)'
    BY <1>2, <1>3, <2>1 DEF Accounted
  <2> QED BY <1>1, <2>2, <2>3, <2>4, CallerInv
<1> QED BY <1>6, <1>7, <1>8, <1>9, <1>10 DEF Shutdown
-----------------------------------------------------------------------------
LEMMA NextInv == IInv /\ [Next]_vars => IInv'
<1> SUFFICES ASSUME IInv, [Next]_vars PROVE IInv'
  OBVIOUS
<1>1. CASE Spawn
  BY <1>1, SpawnInv
<1>2. CASE Subscribe \/ ReadStatus
  BY <1>2, WatchInv
<1>3. ASSUME NEW p \in Pipeline, Internal(p) PROVE IInv'
  <2>1. CASE CheckCancelled(p) \/ BackoffCancelled(p)
    BY <2>1, EndInv DEF CheckCancelled, BackoffCancelled, At, Final
  <2>2. CASE SendEvent(p)
    BY <2>2, SendEventInv
  <2>3. CASE BeginBuild(p) \/ BackoffOver(p)
    BY <2>3, GoingInv
  <2>4. CASE AnnounceRecovering(p)
    BY <2>4, AnnounceInv
  <2> QED BY <1>3, <2>1, <2>2, <2>3, <2>4 DEF Internal
<1>4. ASSUME NEW p \in Pipeline, Outcome(p) PROVE IInv'
  <2>1. CASE BuildFails(p)
    BY <2>1, EndInv DEF BuildFails, At, Final
  <2>2. CASE BuildSucceeds(p)
    BY <2>2, BuildSucceedsInv
  <2>3. CASE Handled(p)
    BY <2>3, GoingInv
  <2>4. CASE HandlingFails(p)
    BY <2>4, ExitInv DEF HandlingFails, At
  <2> QED BY <1>4, <2>1, <2>2, <2>3, <2>4 DEF Outcome
<1>5. ASSUME NEW p \in Pipeline, SeeCancelled(p) \/ SourceEnds(p) PROVE IInv'
  BY <1>5, EndInv DEF SeeCancelled, SourceEnds, At, Final
<1>6. ASSUME NEW p \in Pipeline, SourceFails(p) PROVE IInv'
  BY <1>6, ExitInv DEF SourceFails, At
<1>7. ASSUME NEW p \in Pipeline, WatchdogFires(p) PROVE IInv'
  BY <1>7, RecoverableInv DEF WatchdogFires, At
<1>8. ASSUME NEW p \in Pipeline, Deliver(p) \/ Panic(p) PROVE IInv'
  BY <1>8, GoingInv
<1>9. ASSUME NEW p \in Pipeline, Tick(p) PROVE IInv'
  BY <1>9, TickInv
<1>10. ASSUME NEW c \in Caller, ShutdownCancel(c) \/ Shutdown(c) PROVE IInv'
  BY <1>10, ShutdownInv
<1>11. CASE UNCHANGED vars
  <2>1. UNCHANGED <<pc, statuses, unsent, attempts, elapsed, silence, quick, recoverable,
                    caller, awaiting, join_handles, cancelled, watcher, known>>
    BY <1>11 DEF vars, task, client, watch, failures
  <2>2. TypeOK' /\ Callers'
    BY <2>1 DEF IInv, TypeOK, Callers, Started
  <2>3. \A q \in Pipeline : Told(q)'
    BY <2>1 DEF IInv, Told, TellsTruth, BudgetKept, EndKnown, Accounted
  <2> QED BY <2>2, <2>3 DEF IInv
<1> QED BY <1>1, <1>2, <1>3, <1>4, <1>5, <1>6, <1>7, <1>8, <1>9, <1>10, <1>11 DEF Next

LEMMA Inductive == Spec => []IInv
BY InitInv, NextInv, PTL DEF Spec
-----------------------------------------------------------------------------
(* Every variable keeps its type, the attempts stay within the budget and  *)
(* the clocks within their limits.                                         *)
THEOREM TypeCorrect == Spec => []TypeOK
<1>1. IInv => TypeOK
  BY DEF IInv
<1> QED BY <1>1, Inductive, PTL

(* A task restarts only while fewer than MaxRestarts failures preceded     *)
(* since a run lasted ResetAfter, and counts exactly those.                *)
THEOREM BudgetIsExact == Spec => []BudgetExact
<1>1. IInv => BudgetExact
  BY DEF IInv, Told, BudgetKept, BudgetExact
<1> QED BY <1>1, Inductive, PTL

(* Subscribing first and reading the map after misses no pipeline's end,   *)
(* although map and event are written in two steps.                        *)
THEOREM EndsAreNoticed == Spec => []NoEndMissed
<1>1. IInv => NoEndMissed
  BY DEF IInv, Told, EndKnown, NoEndMissed
<1> QED BY <1>1, Inductive, PTL

(* shutdown's Ok, for the call that took the handles: all tasks have ended *)
(* with a final status, none of them in a panic.                           *)
THEOREM OkIsTrue == Spec => []OkMeansEnded
<1>1. IInv => OkMeansEnded
  <2> SUFFICES ASSUME IInv, NEW c \in Caller, caller[c] = "ok", join_handles = <<>>,
                      \A d \in Caller \ {c} : caller[d] \in {"idle", "cancelled"},
                      NEW p \in Pipeline
               PROVE  pc[p] = "done" /\ statuses[p] \in Final
    BY DEF OkMeansEnded
  <2>1. \A d \in Caller : caller[d] \notin {"awaiting", "error"} /\ awaiting[d] = <<>>
    BY DEF IInv, Callers
  <2>2. ~Holds(join_handles, p) /\ \A d \in Caller : ~Holds(awaiting[d], p)
    BY <2>1 DEF Holds
  <2>3. pc[p] # "unspawned"
    BY DEF IInv, Callers, Started
  <2>4. pc[p] = "done"
    BY <2>1, <2>2, <2>3 DEF IInv, Told, Accounted
  <2> QED BY <2>4 DEF IInv, Told, TellsTruth
<1> QED BY <1>1, Inductive, PTL
-----------------------------------------------------------------------------
(* Refinement: a step that publishes is a step of Lifecycle, every other   *)
(* step leaves the status map and the token as they are.                   *)
LEMMA PublishIsBecome ==
  ASSUME NEW p \in Pipeline, NEW s, NEW place, Publish(p, s, place), UNCHANGED client
  PROVE  Life!Become(p, s)
BY DEF Publish, client, Life!Become

LEMMA EndIsStep ==
  ASSUME IInv, NEW p \in Pipeline, NEW s \in Final, End(p, s),
         pc[p] \in {"check", "building", "polling", "handling", "backoff"},
         s = "Stopped" => pc[p] = "polling" \/ (cancelled /\ pc[p] \in {"check", "backoff"})
  PROVE  Life!Next
<1>1. Life!Become(p, s)
  BY PublishIsBecome DEF End
<1>2. TellsTruth(p)
  BY DEF IInv, Told
<1>3. CASE s = "Failed"
  BY <1>1, <1>2, <1>3 DEF TellsTruth, Life!Next, Life!Fail
<1>4. CASE s = "Stopped"
  BY <1>1, <1>2, <1>4 DEF TellsTruth, Life!Next, Life!Finish, Life!Stop
<1> QED BY <1>3, <1>4 DEF Final

LEMMA RecoverableIsStep ==
  ASSUME IInv, NEW p \in Pipeline, pc[p] \in {"polling", "handling"}, Recoverable(p)
  PROVE  Life!Next
<1>1. statuses[p] = "Running"
  BY DEF IInv, Told, TellsTruth
<1>2. Publish(p, "Stalled", "stalled") \/ Publish(p, "Failed", "done")
  BY DEF Recoverable
<1>3. UNCHANGED client
  BY DEF Recoverable
<1>4. Life!Become(p, "Stalled") \/ Life!Become(p, "Failed")
  BY <1>2, <1>3, PublishIsBecome
<1> QED BY <1>1, <1>4 DEF Life!Next, Life!Stall, Life!Fail

LEMMA ExitIsStep ==
  ASSUME IInv, NEW p \in Pipeline, pc[p] \in {"polling", "handling"}, NEW r \in BOOLEAN, Exit(p, r)
  PROVE  Life!Next
BY RecoverableIsStep, EndIsStep DEF Exit, Final

LEMMA RefinementStep == IInv /\ [Next]_vars => [Life!Next]_<<statuses, cancelled>>
<1> SUFFICES ASSUME IInv, [Next]_vars PROVE [Life!Next]_<<statuses, cancelled>>
  OBVIOUS
<1> DEFINE Stutter == UNCHANGED <<statuses, cancelled>>
<1>1. CASE Spawn \/ Subscribe \/ ReadStatus
  BY <1>1 DEF Spawn, Subscribe, ReadStatus, task, client
<1>2. ASSUME NEW p \in Pipeline,
             \/ SendEvent(p) \/ BeginBuild(p) \/ BackoffOver(p) \/ Handled(p)
             \/ Deliver(p) \/ Panic(p) \/ Tick(p)
      PROVE  Stutter
  BY <1>2 DEF SendEvent, BeginBuild, BackoffOver, Handled, Deliver, Panic, Tick, client
<1>3. ASSUME NEW p \in Pipeline, CheckCancelled(p) \/ BackoffCancelled(p) \/ SeeCancelled(p)
      PROVE  Life!Next
  BY <1>3, EndIsStep DEF CheckCancelled, BackoffCancelled, SeeCancelled, At, Final
<1>4. ASSUME NEW p \in Pipeline, BuildFails(p) \/ SourceEnds(p) PROVE Life!Next
  BY <1>4, EndIsStep DEF BuildFails, SourceEnds, At, Final
<1>5. ASSUME NEW p \in Pipeline, HandlingFails(p) \/ SourceFails(p) \/ WatchdogFires(p)
      PROVE  Life!Next
  BY <1>5, ExitIsStep, RecoverableIsStep DEF HandlingFails, SourceFails, WatchdogFires, At
<1>6. ASSUME NEW p \in Pipeline, BuildSucceeds(p) PROVE Life!Next
  <2>1. Life!Become(p, "Running")
    BY <1>6, PublishIsBecome DEF BuildSucceeds
  <2>2. statuses[p] \in {"Spawning", "Recovering"}
    BY <1>6 DEF BuildSucceeds, At, IInv, Told, TellsTruth
  <2> QED BY <2>1, <2>2 DEF Life!Next, Life!Run
<1>7. ASSUME NEW p \in Pipeline, AnnounceRecovering(p) PROVE Life!Next
  <2>1. Life!Become(p, "Recovering")
    BY <1>7, PublishIsBecome DEF AnnounceRecovering
  <2>2. statuses[p] = "Stalled"
    BY <1>7 DEF AnnounceRecovering, At, IInv, Told, TellsTruth
  <2> QED BY <2>1, <2>2 DEF Life!Next, Life!Recover
<1>8. ASSUME NEW c \in Caller, ShutdownCancel(c) PROVE Life!Next
  BY <1>8 DEF ShutdownCancel, task, Life!Next, Life!Ask
<1>9. ASSUME NEW c \in Caller, Shutdown(c) PROVE Stutter
  BY <1>9 DEF Shutdown, ShutdownTake, Join, JoinError, ShutdownReturns, task
<1>10. CASE UNCHANGED vars
  BY <1>10 DEF vars, task, client
<1> QED BY <1>1, <1>2, <1>3, <1>4, <1>5, <1>6, <1>7, <1>8, <1>9, <1>10 DEF Next, Internal, Outcome

(* The status map of every run is a behaviour of Lifecycle: no status is   *)
(* skipped, none follows a final one, and nothing is stopped unasked       *)
(* before its media has ended.                                             *)
THEOREM ImplementsLifecycleTheorem == Spec => ImplementsLifecycle
<1>1. Init => Life!Init
  BY DEF Init, Life!Init
<1> QED BY <1>1, Inductive, RefinementStep, PTL DEF Spec, ImplementsLifecycle, Life!Spec
=============================================================================
