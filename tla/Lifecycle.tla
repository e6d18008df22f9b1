----------------------------- MODULE Lifecycle -----------------------------
(***************************************************************************)
(* What the runtime promises an observer of RuntimeHandle::status: the     *)
(* life of a pipeline.  It is started once; from Running it may stall and  *)
(* is then always said to be recovering before it runs again; Stopped and  *)
(* Failed are final; and short of the end of its media it is stopped only  *)
(* when somebody asked for it.                                             *)
(***************************************************************************)
CONSTANT Pipeline
VARIABLES status,   \* what RuntimeHandle::status shows of each pipeline
          asked     \* whether shutdown has been asked for

Init == status = [p \in Pipeline |-> "Spawning"] /\ asked = FALSE

Become(p, s) == status' = [status EXCEPT ![p] = s] /\ UNCHANGED asked

Ask == asked' = TRUE /\ UNCHANGED status

Run(p)     == status[p] \in {"Spawning", "Recovering"} /\ Become(p, "Running")
Stall(p)   == status[p] = "Running" /\ Become(p, "Stalled")
Recover(p) == status[p] = "Stalled" /\ Become(p, "Recovering")
Fail(p)    == status[p] \in {"Spawning", "Recovering", "Running"} /\ Become(p, "Failed")
Finish(p)  == status[p] = "Running" /\ Become(p, "Stopped")
Stop(p)    == asked /\ status[p] \in {"Spawning", "Recovering"} /\ Become(p, "Stopped")

Next == Ask \/ \E p \in Pipeline :
          Run(p) \/ Stall(p) \/ Recover(p) \/ Fail(p) \/ Finish(p) \/ Stop(p)

Spec == Init /\ [][Next]_<<status, asked>>
=============================================================================
