---------------------------- MODULE MCSupervisor ----------------------------
(* Instances of Supervisor for TLC.                                        *)
EXTENDS Supervisor
CONSTANTS p1, p2
OnePipeline  == <<p1>>
TwoPipelines == <<p1, p2>>
=============================================================================
