---------------------------- MODULE MCSilentRuns ----------------------------
(* Supervisor with one more history variable, for the run whose watchdog   *)
(* needs as long as a run needs to count as stable.                        *)
EXTENDS MCSupervisor

VARIABLE barren   \* runs of each pipeline in a row that delivered no payload

SilentInit == Init /\ barren = [p \in Pipeline |-> 0]

SilentNext ==
  /\ Next
  /\ barren' = [p \in Pipeline |->
       CASE pc[p] = "building" /\ pc'[p] = "polling" -> OneMore(barren[p])
         [] pc[p] = "polling" /\ pc'[p] = "handling" -> 0
         [] OTHER -> barren[p]]

SilentSpec == SilentInit /\ [][SilentNext]_<<vars, barren>>

(* A pipeline whose source yields nothing is given up: at most MaxRestarts *)
(* restarts follow a run without media, one after another.                 *)
BarrenRunsBounded == \A p \in Pipeline : barren[p] <= MaxRestarts + 1
=============================================================================
