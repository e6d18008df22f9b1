--------------------------- MODULE MCFanoutRouter ---------------------------
(* Instances of FanoutRouter for TLC: a sink of each policy, the blocking  *)
(* one between the others, and the smallest queues, which fill at once.    *)
EXTENDS FanoutRouter
EachPolicy == <<"DropOldest", "Block", "DropNewest">>
OnlyOldest == <<"DropOldest">>
BlockAndNewest == <<"Block", "DropNewest">>
ShortQueues == [s \in Sink |-> 1]
LongQueues  == [s \in Sink |-> 2]
=============================================================================
