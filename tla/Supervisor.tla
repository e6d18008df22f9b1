----------------------------- MODULE Supervisor -----------------------------
(***************************************************************************)
(* RuntimeEngine, RuntimeHandle and the task that supervises one pipeline  *)
(* (caml-core/src/runtime.rs: start, shutdown, supervise_pipeline_task,    *)
(* run_pipeline_once, run_pipeline_loop, publish_status).                  *)
(*                                                                         *)
(* One task per pipeline builds the stages, runs the media loop under a    *)
(* watchdog, and restarts it after recoverable failures within a budget.   *)
(* Every await of a task is a place where others run.  The stages are the  *)
(* adapters' code: building, polling the source, and handling a payload    *)
(* (the transforms and the sink) end in any of the ways their types allow, *)
(* or panic.  Publishing a status is two steps: the map is written, then   *)
(* the event is sent.  Time is a count of ticks since the run began and    *)
(* since the source was last asked for a payload.                          *)
(***************************************************************************)
EXTENDS Naturals, Sequences, FiniteSets

CONSTANTS
  Order,        \* the pipelines in the order the compiled graph lists them
  MaxRestarts,  \* RecoveryPolicy.max_restarts
  ResetAfter,   \* RecoveryPolicy.reset_after, in ticks
  Watchdog,     \* runtime.watchdog_timeout, in ticks
  Caller        \* clients that call RuntimeHandle::shutdown

ASSUME SupervisorConstants ==
  /\ Order \in Seq({Order[i] : i \in DOMAIN Order})
  /\ MaxRestarts \in Nat /\ ResetAfter \in Nat /\ Watchdog \in Nat \ {0}

Pipeline == {Order[i] : i \in 1 .. Len(Order)}
Final == {"Stopped", "Failed"}
TaskStatus == {"Spawning", "Running", "Stalled", "Recovering"} \cup Final

VARIABLES
  pc,           \* where the task of each pipeline stands
  statuses,     \* RuntimeHandleInner.statuses
  unsent,       \* the event a task still has to send after writing the map
  attempts,     \* restarts counted against the budget
  elapsed,      \* ticks since last_success_start, up to ResetAfter
  silence,      \* ticks since source.next was called
  cancelled,    \* RuntimeHandleInner.cancellation
  join_handles, \* RuntimeHandleInner.join_handles
  caller,       \* where each shutdown call stands, or how it returned
  awaiting,     \* the join handles each shutdown call has taken
  watcher,      \* a client: idle, subscribed, or with the status map read too
  known,        \* the pipelines whose end this client has learnt of
  quick,        \* history: recoverable failures since a run lasted ResetAfter
  recoverable   \* history: the latest failure was a recoverable one

(* Bound of the model: the history counts stop one past the largest value  *)
(* the properties tell apart.                                              *)
HistoryCap == MaxRestarts + 2
OneMore(n) == IF n < HistoryCap THEN n + 1 ELSE n

failures == <<quick, recoverable>>
task   == <<pc, statuses, unsent, attempts, elapsed, silence, failures>>
client == <<caller, awaiting, join_handles, cancelled>>
watch  == <<watcher, known>>
vars   == <<task, client, watch>>

Init ==
  /\ pc = [p \in Pipeline |-> "unspawned"]
  /\ statuses = [p \in Pipeline |-> "Spawning"]
  /\ unsent = [p \in Pipeline |-> "none"]
  /\ attempts = [p \in Pipeline |-> 0]
  /\ elapsed = [p \in Pipeline |-> 0] /\ silence = [p \in Pipeline |-> 0]
  /\ quick = [p \in Pipeline |-> 0]
  /\ recoverable = [p \in Pipeline |-> FALSE]
  /\ cancelled = FALSE /\ join_handles = <<>>
  /\ caller = [c \in Caller |-> "idle"] /\ awaiting = [c \in Caller |-> <<>>]
  /\ watcher = "idle" /\ known = {}
-----------------------------------------------------------------------------
(* RuntimeEngine::start spawns the tasks one by one and returns the handle *)
(* when all are spawned; the first tasks run meanwhile.                    *)
Spawn ==
  /\ Len(join_handles) < Len(Order) /\ pc[Order[Len(join_handles) + 1]] = "unspawned"
  /\ LET p == Order[Len(join_handles) + 1] IN
     /\ pc' = [pc EXCEPT ![p] = "check"]
     /\ join_handles' = Append(join_handles, p)
  /\ UNCHANGED <<statuses, unsent, attempts, elapsed, silence, failures,
                 caller, awaiting, cancelled, watch>>

Started == \A p \in Pipeline : pc[p] # "unspawned"
-----------------------------------------------------------------------------
(* publish_status: the map first, the event in the next step.              *)
PublishFinalSilently(p, s, next) ==   \* mutant: the map alone says a pipeline ended
  /\ pc' = [pc EXCEPT ![p] = next]
  /\ statuses' = [statuses EXCEPT ![p] = s]
  /\ unsent' = [unsent EXCEPT ![p] = IF s \in Final THEN "none" ELSE s]
  /\ UNCHANGED watch
Publish(p, s, next) ==
  /\ pc' = [pc EXCEPT ![p] = next]
  /\ statuses' = [statuses EXCEPT ![p] = s]
  /\ unsent' = [unsent EXCEPT ![p] = s]
  /\ UNCHANGED watch

(* The broadcast reaches the clients subscribed by now.                    *)
SendEvent(p) ==
  /\ unsent[p] # "none"
  /\ unsent' = [unsent EXCEPT ![p] = "none"]
  /\ known' = IF watcher # "idle" /\ unsent[p] \in Final THEN known \cup {p} ELSE known
  /\ UNCHANGED <<pc, statuses, attempts, elapsed, silence, failures, client, watcher>>

At(p, place) == pc[p] = place /\ unsent[p] = "none"

End(p, s) ==
  /\ Publish(p, s, "done")
  /\ recoverable' = [recoverable EXCEPT ![p] = FALSE]
  /\ UNCHANGED <<attempts, elapsed, silence, quick, client>>

(* The head of the supervision loop.                                       *)
CheckCancelled(p) == At(p, "check") /\ cancelled /\ End(p, "Stopped")

BeginBuild(p) ==
  /\ At(p, "check") /\ ~cancelled
  /\ pc' = [pc EXCEPT ![p] = "building"]
  /\ UNCHANGED <<statuses, unsent, attempts, elapsed, silence, failures, client, watch>>

(* Any build error ends the pipeline, on a restart too.                    *)
BuildFails(p) == At(p, "building") /\ End(p, "Failed")

BuildSucceeds(p) ==
  /\ At(p, "building")
  /\ Publish(p, "Running", "polling")
  /\ elapsed' = [elapsed EXCEPT ![p] = 0]
  /\ silence' = [silence EXCEPT ![p] = 0]
  /\ UNCHANGED <<attempts, failures, client>>
-----------------------------------------------------------------------------
Stable(p) == elapsed[p] >= ResetAfter

(* The attempts left after a run: a run of ResetAfter restores the budget. *)
Counted(p) == IF Stable(p) THEN 0 ELSE attempts[p]

BudgetLeftLess(n) == n + 1 < MaxRestarts   \* mutant: gives up one restart early
BudgetLeft(n) == n < MaxRestarts

(* A recoverable exit of the loop: restart within the budget, else fail.   *)
Recoverable(p) ==
  /\ quick' = [quick EXCEPT ![p] = IF Stable(p) THEN 1 ELSE OneMore(@)]
  /\ recoverable' = [recoverable EXCEPT ![p] = TRUE]
  /\ IF BudgetLeft(Counted(p))
     THEN /\ attempts' = [attempts EXCEPT ![p] = Counted(p) + 1]
          /\ Publish(p, "Stalled", "stalled")
     ELSE /\ attempts' = [attempts EXCEPT ![p] = Counted(p)]
          /\ Publish(p, "Failed", "done")
  /\ UNCHANGED <<elapsed, silence, client>>

Exit(p, r) == IF r THEN Recoverable(p) ELSE End(p, "Failed")

(* The select! of run_pipeline_loop: cancellation, the source's answer, or *)
(* the watchdog, whichever select! picks of those that are ready.          *)
SeeCancelledBiased(p) ==       \* mutant: biased select!, source before token
  At(p, "polling") /\ cancelled /\ silence[p] > 0 /\ End(p, "Stopped")
SeeCancelled(p) == At(p, "polling") /\ cancelled /\ End(p, "Stopped")

Deliver(p) ==
  /\ At(p, "polling")
  /\ pc' = [pc EXCEPT ![p] = "handling"]
  /\ UNCHANGED <<statuses, unsent, attempts, elapsed, silence, failures, client, watch>>

SourceEnds(p)   == At(p, "polling") /\ End(p, "Stopped")
SourceFails(p)  == At(p, "polling") /\ \E r \in BOOLEAN : Exit(p, r)

WatchdogRearms(p) ==           \* mutant: a timeout is no stall, the source is asked again
  /\ At(p, "polling") /\ silence[p] = Watchdog
  /\ silence' = [silence EXCEPT ![p] = 0]
  /\ UNCHANGED <<pc, statuses, unsent, attempts, elapsed, failures, client, watch>>
WatchdogFires(p) == At(p, "polling") /\ silence[p] = Watchdog /\ Recoverable(p)

(* The transforms and the sink have the payload: no watchdog and no        *)
(* cancellation is looked at until they return.                            *)
Handled(p) ==
  /\ At(p, "handling")
  /\ pc' = [pc EXCEPT ![p] = "polling"]
  /\ silence' = [silence EXCEPT ![p] = 0]
  /\ UNCHANGED <<statuses, unsent, attempts, elapsed, failures, client, watch>>

HandlingFails(p) == At(p, "handling") /\ \E r \in BOOLEAN : Exit(p, r)
-----------------------------------------------------------------------------
AnnounceNothing(p) ==          \* mutant: back off without saying so
  /\ At(p, "stalled")
  /\ pc' = [pc EXCEPT ![p] = "backoff"]
  /\ UNCHANGED <<statuses, unsent, attempts, elapsed, silence, failures, client, watch>>
AnnounceRecovering(p) ==
  /\ At(p, "stalled")
  /\ Publish(p, "Recovering", "backoff")
  /\ UNCHANGED <<attempts, elapsed, silence, failures, client>>

BackoffCancelled(p) == At(p, "backoff") /\ cancelled /\ End(p, "Stopped")

BackoffOver(p) ==
  /\ At(p, "backoff")
  /\ pc' = [pc EXCEPT ![p] = "check"]
  /\ UNCHANGED <<statuses, unsent, attempts, elapsed, silence, failures, client, watch>>

(* A stage panics: the task dies where it is, and says nothing.            *)
Panic(p) ==
  /\ \E place \in {"building", "polling", "handling"} : At(p, place)
  /\ pc' = [pc EXCEPT ![p] = "panicked"]
  /\ UNCHANGED <<statuses, unsent, attempts, elapsed, silence, failures, client, watch>>

(* Time passes during a run; the watchdog's timer is on time.              *)
Tick(p) ==
  /\ \/ At(p, "polling") /\ silence[p] < Watchdog
     \/ At(p, "handling") /\ elapsed[p] < ResetAfter
  /\ elapsed' = [elapsed EXCEPT ![p] = IF @ < ResetAfter THEN @ + 1 ELSE @]
  /\ silence' = [silence EXCEPT ![p] = IF pc[p] = "polling" THEN @ + 1 ELSE @]
  /\ UNCHANGED <<pc, statuses, unsent, attempts, failures, client, watch>>
-----------------------------------------------------------------------------
(* RuntimeHandle::shutdown: cancel, take the handles, await them in order; *)
(* the first that panicked ends the call with an error.                    *)
ShutdownCancel(c) ==
  /\ caller[c] = "idle" /\ Started
  /\ cancelled' = TRUE
  /\ caller' = [caller EXCEPT ![c] = "cancelled"]
  /\ UNCHANGED <<awaiting, join_handles, task, watch>>

ShutdownTake(c) ==
  /\ caller[c] = "cancelled"
  /\ awaiting' = [awaiting EXCEPT ![c] = join_handles]
  /\ join_handles' = <<>>
  /\ caller' = [caller EXCEPT ![c] = "awaiting"]
  /\ UNCHANGED <<cancelled, task, watch>>

JoinUnawaited(c) ==                      \* mutant: a handle is dropped unawaited
  /\ caller[c] = "awaiting" /\ awaiting[c] # <<>>
  /\ awaiting' = [awaiting EXCEPT ![c] = Tail(@)]
  /\ UNCHANGED <<caller, cancelled, join_handles, task, watch>>
Join(c) ==
  /\ caller[c] = "awaiting" /\ awaiting[c] # <<>>
  /\ At(Head(awaiting[c]), "done")
  /\ awaiting' = [awaiting EXCEPT ![c] = Tail(@)]
  /\ UNCHANGED <<caller, cancelled, join_handles, task, watch>>

JoinError(c) ==
  /\ caller[c] = "awaiting" /\ awaiting[c] # <<>>
  /\ pc[Head(awaiting[c])] = "panicked"
  /\ caller' = [caller EXCEPT ![c] = "error"]
  /\ awaiting' = [awaiting EXCEPT ![c] = <<>>]
  /\ UNCHANGED <<cancelled, join_handles, task, watch>>

ShutdownReturns(c) ==
  /\ caller[c] = "awaiting" /\ awaiting[c] = <<>>
  /\ caller' = [caller EXCEPT ![c] = "ok"]
  /\ UNCHANGED <<awaiting, cancelled, join_handles, task, watch>>

(* A client that wants to know of every end: subscribe, then status.       *)
Subscribe == /\ watcher = "idle" /\ Started /\ watcher' = "subscribed"
             /\ UNCHANGED <<task, client, known>>

ReadStatus == /\ watcher = "subscribed" /\ watcher' = "informed"
              /\ known' = known \cup {p \in Pipeline : statuses[p] \in Final}
              /\ UNCHANGED <<task, client>>
-----------------------------------------------------------------------------
Outcome(p) == \/ BuildFails(p) \/ BuildSucceeds(p) \/ Handled(p) \/ HandlingFails(p)
Internal(p) == \/ SendEvent(p) \/ CheckCancelled(p) \/ BeginBuild(p)
               \/ AnnounceRecovering(p) \/ BackoffCancelled(p) \/ BackoffOver(p)
Shutdown(c) == ShutdownTake(c) \/ Join(c) \/ JoinError(c) \/ ShutdownReturns(c)

Next ==
  \/ Spawn \/ Subscribe \/ ReadStatus
  \/ \E p \in Pipeline :
       \/ Internal(p) \/ Outcome(p) \/ SeeCancelled(p) \/ Deliver(p) \/ SourceEnds(p)
       \/ SourceFails(p) \/ WatchdogFires(p) \/ Panic(p) \/ Tick(p)
  \/ \E c \in Caller : ShutdownCancel(c) \/ Shutdown(c)

Spec == Init /\ [][Next]_vars

(* The executor runs every ready task, timers fire, builds and sinks       *)
(* return; select! picks at random among ready branches, so a cancellation *)
(* offered again and again is taken.  The source need never answer.        *)
Fairness ==
  /\ WF_vars(Spawn)
  /\ \A p \in Pipeline : /\ WF_vars(Internal(p)) /\ WF_vars(Outcome(p))
                         /\ WF_vars(Tick(p)) /\ WF_vars(WatchdogFires(p))
                         /\ SF_vars(SeeCancelled(p))
  /\ \A c \in Caller : WF_vars(Shutdown(c))
FairSpec == Spec /\ Fairness
-----------------------------------------------------------------------------
TypeOK ==
  /\ pc \in [Pipeline -> {"unspawned", "check", "building", "polling", "handling",
                          "stalled", "backoff", "done", "panicked"}]
  /\ statuses \in [Pipeline -> TaskStatus]
  /\ unsent \in [Pipeline -> TaskStatus \cup {"none"}]
  /\ attempts \in [Pipeline -> 0 .. MaxRestarts]
  /\ elapsed \in [Pipeline -> 0 .. ResetAfter]
  /\ silence \in [Pipeline -> 0 .. Watchdog]
  /\ quick \in [Pipeline -> 0 .. HistoryCap]
  /\ recoverable \in [Pipeline -> BOOLEAN]
  /\ cancelled \in BOOLEAN
  /\ join_handles \in Seq(Pipeline)
  /\ caller \in [Caller -> {"idle", "cancelled", "awaiting", "ok", "error"}]
  /\ awaiting \in [Caller -> Seq(Pipeline)]
  /\ watcher \in {"idle", "subscribed", "informed"}
  /\ known \in SUBSET Pipeline

Over(p) == pc[p] \in {"done", "panicked"}
GaveUp(p) == statuses[p] = "Failed" /\ pc[p] = "done"

(* The restart budget is exactly MaxRestarts.  Not one more: a task goes   *)
(* back to work only if fewer than MaxRestarts recoverable failures        *)
(* preceded this one since a run lasted ResetAfter.  Not one less: a task  *)
(* that a recoverable failure has ended had used all of its restarts.      *)
BudgetExact ==
  \A p \in Pipeline :
    /\ pc[p] \in {"stalled", "backoff", "check", "building"} =>
          quick[p] <= MaxRestarts /\ attempts[p] = quick[p]
    /\ pc[p] = "done" /\ recoverable[p] => quick[p] > MaxRestarts

(* shutdown's Ok means what it says for the call that took the handles:    *)
(* every task is over, its final status published.                         *)
OkMeansEnded ==
  \A c \in Caller : caller[c] = "ok" /\ join_handles = <<>>
     /\ (\A d \in Caller \ {c} : caller[d] \in {"idle", "cancelled"}) =>
        \A p \in Pipeline : pc[p] = "done" /\ statuses[p] \in Final

(* A client that subscribes first and reads the status map after never     *)
(* misses the end of a pipeline, wherever it falls between the two.        *)
NoEndMissed ==
  watcher = "informed" =>
    \A p \in Pipeline : statuses[p] \in Final /\ unsent[p] = "none" => p \in known

(* A pipeline's life as RuntimeHandle::status shows it.                    *)
Life == INSTANCE Lifecycle WITH status <- statuses, asked <- cancelled
ImplementsLifecycle == Life!Spec

(* Cancelling ends every task, and every shutdown call returns.            *)
ShutdownCompletes ==
  cancelled ~> /\ \A p \in Pipeline : Over(p)
               /\ \A c \in Caller : caller[c] \in {"idle", "ok", "error"}

(* A supervised pipeline does not retry for ever in silence: it delivers   *)
(* media or it ends.                                                       *)
MediaOrEnd == \A p \in Pipeline : pc[p] = "check" ~> (pc[p] = "handling" \/ Over(p))
=============================================================================
