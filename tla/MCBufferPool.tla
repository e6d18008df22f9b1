---------------------------- MODULE MCBufferPool ----------------------------
(* Instance of BufferPool for TLC: three handles, so that a slot can have  *)
(* two readers while a third handle competes for slots.                    *)
EXTENDS BufferPool, TLC
HandleSymmetry == Permutations(Handle)
=============================================================================
