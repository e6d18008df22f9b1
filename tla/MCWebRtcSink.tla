---------------------------- MODULE MCWebRtcSink ----------------------------
(* Instances of WebRtcSink for TLC: a queue of three, so that a delta      *)
(* frame can be evicted from its middle, and one packet more than twice    *)
(* the queue can lose.                                                     *)
EXTENDS WebRtcSink
SomeKeyframes == {1, 4}
NoKeyframes == {}
=============================================================================
