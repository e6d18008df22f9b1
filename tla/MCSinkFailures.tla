--------------------------- MODULE MCSinkFailures ---------------------------
(* FanoutRouter with a history variable for what the code forgets: that a  *)
(* sink's consume has returned an error (a track write that timed out, for *)
(* one).                                                                   *)
EXTENDS MCFanoutRouter

VARIABLE failed   \* the payload consume was given last when a sink first failed

FailureInit == Init /\ failed = None

(* A consume that returns does so with an error or without.                *)
FailureNext ==
  /\ Next
  /\ \/ UNCHANGED failed
     \/ failed = None /\ handled' # handled /\ failed' = payload

FailureSpec == FailureInit /\ [][FailureNext]_<<vars, failed>>

(* "If a track write times out ..., caml terminates or recovers the        *)
(* pipeline cleanly." (docs/webrtc.md:22): once a sink has failed, the     *)
(* first payload after that is the last: its consume ends with an error,   *)
(* for the supervisor to fail or restart the pipeline.                     *)
FailureEndsPipeline ==
  failed # None /\ payload > failed /\ visit = Idle => result = "error"
=============================================================================
