---------------------------- MODULE BufferValues ----------------------------
(***************************************************************************)
(* What the buffer pool promises its users: every handle is a value of its *)
(* own.  A writable handle (MediaBuffer) starts blank and changes only by  *)
(* its owner's writes; freezing it makes the value immutable; a clone is a *)
(* copy; dropping a handle forgets its value and nobody else's.  Nothing   *)
(* here knows of slots, reference counts or reuse.                         *)
(***************************************************************************)
CONSTANTS Handle,   \* the handles the tasks of a pipeline can hold
          Content,  \* what a buffer can be filled with
          Blank     \* the content of a cleared buffer

VARIABLE value      \* what each handle is worth: nothing, or a content

NoValue == [held |-> FALSE, mutable |-> FALSE, data |-> Blank]
Value(mut, d) == [held |-> TRUE, mutable |-> mut, data |-> d]

Init == value = [h \in Handle |-> NoValue]

Create(h) == /\ ~value[h].held
             /\ value' = [value EXCEPT ![h] = Value(TRUE, Blank)]

Write(h, d) == /\ value[h].mutable
               /\ value' = [value EXCEPT ![h] = Value(TRUE, d)]

Freeze(h) == /\ value[h].mutable
             /\ value' = [value EXCEPT ![h] = Value(FALSE, value[h].data)]

Clone(h, g) == /\ value[h].held /\ ~value[h].mutable /\ ~value[g].held
               /\ value' = [value EXCEPT ![g] = value[h]]

Drop(h) == /\ value[h].held
           /\ value' = [value EXCEPT ![h] = NoValue]

Next == \E h \in Handle :
          \/ Create(h) \/ Freeze(h) \/ Drop(h)
          \/ \E d \in Content \cup {Blank} : Write(h, d)
          \/ \E g \in Handle : Clone(h, g)

Spec == Init /\ [][Next]_value
=============================================================================
