----------------------------- MODULE BufferPool -----------------------------
(***************************************************************************)
(* The slot pool of caml-core/src/runtime.rs: BufferPool, its writable     *)
(* handle MediaBuffer and its shared, reference-counted read handle        *)
(* PooledBuffer.  Every operation does its shared work under the one pool  *)
(* mutex, so each critical section is one action; what a handle carries    *)
(* between two critical sections (the vector moved out by acquire, the     *)
(* slice returned by as_slice after the lock is released) is state of the  *)
(* handle, and any other operation may run in between.                     *)
(***************************************************************************)
EXTENDS Naturals, Sequences, FiniteSets

CONSTANTS Handle,    \* the handles the pipeline's tasks can hold at one time
          MaxSlots,  \* bound of the model: slots the pool may ever allocate
          Content,   \* what a buffer can be filled with
          Blank,     \* the content of a cleared vector
          NoVec      \* the None of BufferSlot.bytes, and of a handle without a vector

ASSUME PoolConstants == /\ IsFiniteSet(Handle)
                        /\ MaxSlots \in Nat
                        /\ Blank \notin Content

SlotId == 0 .. MaxSlots - 1
Data   == Content \cup {Blank}

(***************************************************************************)
(* A vector is what it holds and whether it owns memory: capacity() = 0 is *)
(* the only question the code asks about its capacity.                     *)
(***************************************************************************)
Vec == [sized : BOOLEAN, data : Data]
Cleared(v)  == [v EXCEPT !.data = Blank]
FreshVec    == [sized |-> TRUE, data |-> Blank]
EmptiedVec  == [sized |-> FALSE, data |-> Blank]
ASSUME NoVecAssumption == NoVec \notin Vec

NullView == [ptr |-> FALSE, data |-> Blank]      \* ptr = 0, len = 0
ViewOf(v) == [ptr |-> TRUE, data |-> v.data]     \* pointer and length of v
View == [ptr : BOOLEAN, data : Data]

VARIABLES
  nslots,           \* PoolInner.slots.len()
  bytes,            \* BufferSlot.bytes, per slot
  view,             \* BufferSlot.ptr and .len, per slot
  ref_count,        \* BufferSlot.ref_count, per slot
  free_indices,     \* PoolInner.free_indices, a stack
  allocated_count,  \* PoolInner.allocated_count
  high_watermark,   \* PoolInner.high_watermark
  kind,             \* what each handle is: none, a MediaBuffer, a PooledBuffer
  slot_index,       \* slot_index of each handle
  own,              \* MediaBuffer.bytes of each handle
  slice,            \* the slice a reader holds while it borrows the handle
  preallocated,     \* history: slots asked for by preallocate
  peak,             \* history: most slots that were ever not free at one time
  emptied           \* history: slots whose vector a client has moved out

shared  == <<nslots, bytes, view, ref_count, free_indices, allocated_count, high_watermark>>
handles == <<kind, slot_index, own, slice>>
history == <<preallocated, peak, emptied>>
vars    == <<shared, handles, history>>

Larger(a, b) == IF a >= b THEN a ELSE b
Pooled(s) == {h \in Handle : kind[h] = "pooled" /\ slot_index[h] = s}
Media(s)  == {h \in Handle : kind[h] = "media" /\ slot_index[h] = s}
Free      == {free_indices[i] : i \in 1 .. Len(free_indices)}

Init ==
  /\ nslots = 0 /\ free_indices = <<>>
  /\ allocated_count = 0 /\ high_watermark = 0
  /\ bytes = [s \in SlotId |-> NoVec]
  /\ view = [s \in SlotId |-> NullView]
  /\ ref_count = [s \in SlotId |-> 0]
  /\ kind = [h \in Handle |-> "none"]
  /\ slot_index = [h \in Handle |-> 0]
  /\ own = [h \in Handle |-> NoVec]
  /\ slice = [h \in Handle |-> NullView]
  /\ preallocated = 0 /\ peak = 0 /\ emptied = {}
-----------------------------------------------------------------------------
(* BufferPool::preallocate: count slots, each with a vector, pushed free.  *)
Preallocate(count) ==
  /\ nslots + count <= MaxSlots
  /\ nslots' = nslots + count
  /\ bytes' = [s \in SlotId |-> IF s \in nslots .. nslots + count - 1
                                THEN FreshVec ELSE bytes[s]]
  /\ free_indices' = free_indices \o [i \in 1 .. count |-> nslots + i - 1]
  /\ allocated_count' = allocated_count + count
  /\ high_watermark' = Larger(high_watermark, allocated_count')
  /\ preallocated' = preallocated + count
  /\ UNCHANGED <<view, ref_count, handles, peak, emptied>>

Outstanding == allocated_count - Len(free_indices)   \* PoolStats.in_use

CheckoutUncleared(h, s, v) ==      \* mutant: acquire without buf.clear()
  /\ kind' = [kind EXCEPT ![h] = "media"]
  /\ slot_index' = [slot_index EXCEPT ![h] = s]
  /\ own' = [own EXCEPT ![h] = v]
  /\ UNCHANGED slice

(* What acquire does after the lock: clear the vector, build the handle.   *)
Checkout(h, s, v) ==
  /\ kind' = [kind EXCEPT ![h] = "media"]
  /\ slot_index' = [slot_index EXCEPT ![h] = s]
  /\ own' = [own EXCEPT ![h] = Cleared(v)]
  /\ UNCHANGED slice

(* BufferPool::acquire with a free slot: pop it and take its vector; the   *)
(* expect() on a missing vector would panic, so the guard asks for one.    *)
AcquireFree(h) ==
  LET s == free_indices[Len(free_indices)] IN
  /\ kind[h] = "none" /\ free_indices # <<>>
  /\ bytes[s] # NoVec
  /\ free_indices' = SubSeq(free_indices, 1, Len(free_indices) - 1)
  /\ bytes' = [bytes EXCEPT ![s] = NoVec]
  /\ Checkout(h, s, bytes[s])
  /\ peak' = Larger(peak, Outstanding + 1)
  /\ UNCHANGED <<nslots, view, ref_count, allocated_count, high_watermark,
                 preallocated, emptied>>

PoolExhausted == free_indices = <<>>

(* BufferPool::acquire with the pool exhausted: a new slot, checked out.   *)
AcquireNew(h) ==
  /\ kind[h] = "none" /\ PoolExhausted
  /\ nslots < MaxSlots
  /\ nslots' = nslots + 1
  /\ allocated_count' = allocated_count + 1
  /\ high_watermark' = Larger(high_watermark, allocated_count')
  /\ Checkout(h, nslots, FreshVec)
  /\ peak' = Larger(peak, Outstanding + 1)
  /\ UNCHANGED <<bytes, view, ref_count, free_indices, preallocated, emptied>>
-----------------------------------------------------------------------------
(* MediaBuffer::extend_from_slice: the vector holds more and owns memory.  *)
Extend(h, d) ==
  /\ kind[h] = "media"
  /\ own' = [own EXCEPT ![h] = [sized |-> TRUE, data |-> d]]
  /\ UNCHANGED <<shared, kind, slot_index, slice, history>>

(* MediaBuffer::as_mut_vec lets its owner move the vector out, leaving one *)
(* without capacity behind.                                                *)
TakeVec(h) ==
  /\ kind[h] = "media"
  /\ own' = [own EXCEPT ![h] = EmptiedVec]
  /\ emptied' = emptied \cup {slot_index[h]}
  /\ UNCHANGED <<shared, kind, slot_index, slice, preallocated, peak>>

(* MediaBuffer::freeze                                                     *)
Freeze(h) ==
  LET s == slot_index[h] IN
  /\ kind[h] = "media"
  /\ view' = [view EXCEPT ![s] = ViewOf(own[h])]
  /\ ref_count' = [ref_count EXCEPT ![s] = 1]
  /\ bytes' = [bytes EXCEPT ![s] = own[h]]
  /\ kind' = [kind EXCEPT ![h] = "pooled"]
  /\ own' = [own EXCEPT ![h] = NoVec]
  /\ UNCHANGED <<nslots, free_indices, allocated_count, high_watermark,
                 slot_index, slice, history>>

Forget(h) ==
  /\ kind' = [kind EXCEPT ![h] = "none"]
  /\ own' = [own EXCEPT ![h] = NoVec]
  /\ slot_index' = [slot_index EXCEPT ![h] = 0]

DropMediaFreesBare(h) ==           \* mutant: the slot is freed, vector or not
  LET s == slot_index[h] IN
  /\ kind[h] = "media"
  /\ bytes' = IF own[h].sized THEN [bytes EXCEPT ![s] = Cleared(own[h])] ELSE bytes
  /\ free_indices' = Append(free_indices, s)
  /\ Forget(h)
  /\ UNCHANGED <<nslots, view, ref_count, allocated_count, high_watermark,
                 slice, history>>

(* Drop for MediaBuffer returns the vector, unless it has no capacity: the *)
(* early return is taken for a frozen buffer's and leaves the slot out.    *)
DropMedia(h) ==
  LET s == slot_index[h] IN
  /\ kind[h] = "media"
  /\ IF own[h].sized
     THEN /\ bytes' = [bytes EXCEPT ![s] = Cleared(own[h])]
          /\ free_indices' = Append(free_indices, s)
     ELSE UNCHANGED <<bytes, free_indices>>
  /\ Forget(h)
  /\ UNCHANGED <<nslots, view, ref_count, allocated_count, high_watermark,
                 slice, history>>
-----------------------------------------------------------------------------
(* PooledBuffer::as_slice reads pointer and length under the lock and      *)
(* returns; the slice is used, and the handle borrowed, until EndRead.     *)
BeginRead(h) ==
  /\ kind[h] = "pooled" /\ ~slice[h].ptr
  /\ slice' = [slice EXCEPT ![h] = view[slot_index[h]]]
  /\ UNCHANGED <<shared, kind, slot_index, own, history>>

EndRead(h) ==
  /\ slice[h].ptr
  /\ slice' = [slice EXCEPT ![h] = NullView]
  /\ UNCHANGED <<shared, kind, slot_index, own, history>>

CloneCountLost(s) == ref_count     \* mutant: clone does not count itself
CloneCount(s) == [ref_count EXCEPT ![s] = @ + 1]

(* Clone for PooledBuffer: h's clone is g.                                 *)
Clone(h, g) ==
  LET s == slot_index[h] IN
  /\ kind[h] = "pooled" /\ kind[g] = "none"
  /\ ref_count' = CloneCount(s)
  /\ kind' = [kind EXCEPT ![g] = "pooled"]
  /\ slot_index' = [slot_index EXCEPT ![g] = s]
  /\ UNCHANGED <<nslots, bytes, view, free_indices, allocated_count,
                 high_watermark, own, slice, history>>

LastHandleEarly(s) == ref_count[s] <= 2   \* mutant: off by one
LastHandleLate(s)  == ref_count[s] = 0    \* mutant: fetch_sub's result taken for the new count
LastHandle(s)      == ref_count[s] = 1

(* Drop for PooledBuffer: the last handle frees the slot.  A handle that   *)
(* is borrowed for a read cannot be dropped.                               *)
DropPooled(h) ==
  LET s == slot_index[h] IN
  /\ kind[h] = "pooled" /\ ~slice[h].ptr
  /\ ref_count' = [ref_count EXCEPT ![s] = @ - 1]
  /\ IF LastHandle(s)
     THEN /\ view' = [view EXCEPT ![s] = NullView]
          /\ free_indices' = Append(free_indices, s)
     ELSE UNCHANGED <<view, free_indices>>
  /\ Forget(h)
  /\ UNCHANGED <<nslots, bytes, allocated_count, high_watermark, slice, history>>

Next ==
  \/ \E count \in 1 .. MaxSlots : Preallocate(count)
  \/ \E h \in Handle :
       \/ AcquireFree(h) \/ AcquireNew(h)
       \/ TakeVec(h) \/ Freeze(h) \/ DropMedia(h)
       \/ BeginRead(h) \/ EndRead(h) \/ DropPooled(h)
       \/ \E d \in Content : Extend(h, d)
       \/ \E g \in Handle : Clone(h, g)

Spec == Init /\ [][Next]_vars
-----------------------------------------------------------------------------
(* Types: every field stays in the range the Rust type and the pool's use  *)
(* of it give.                                                             *)
TypeOK ==
  /\ nslots \in 0 .. MaxSlots
  /\ bytes \in [SlotId -> Vec \cup {NoVec}]
  /\ view \in [SlotId -> View]
  /\ ref_count \in [SlotId -> Nat]
  /\ free_indices \in Seq(SlotId)
  /\ allocated_count \in Nat /\ high_watermark \in Nat
  /\ kind \in [Handle -> {"none", "media", "pooled"}]
  /\ slot_index \in [Handle -> Nat]
  /\ \A h \in Handle : kind[h] # "none" => slot_index[h] \in SlotId
  /\ own \in [Handle -> Vec \cup {NoVec}]
  /\ slice \in [Handle -> View]
  /\ preallocated \in Nat /\ peak \in Nat /\ emptied \in SUBSET SlotId

(* A slot has one owner: it is on the free stack once, or one MediaBuffer  *)
(* holds it, or PooledBuffers share it, never two of these.  acquire hands *)
(* out a slot on the strength of this alone.                               *)
OneOwner ==
  /\ \A i, j \in 1 .. Len(free_indices) :
        free_indices[i] = free_indices[j] => i = j
  /\ \A s \in Free : Media(s) = {} /\ Pooled(s) = {}
  /\ \A h, g \in Handle :
        kind[h] = "media" /\ kind[g] # "none" /\ slot_index[h] = slot_index[g] => h = g

(* The count in a slot is the number of live PooledBuffers on it, so the   *)
(* last drop, and only the last, frees the slot.                           *)
RefCountExact == \A s \in SlotId : ref_count[s] = Cardinality(Pooled(s))

(* acquire's expect("free slot had no bytes") never fires: whatever freed  *)
(* the slot left a vector in it.                                           *)
FreeSlotsHaveBytes == \A s \in Free : bytes[s] # NoVec

(* as_slice's SAFETY comment: the memory behind a slice handed to a reader *)
(* is owned by the slot and unchanged for as long as the reader uses it,   *)
(* whatever the other handles do after the lock was released.              *)
SliceStable ==
  \A h \in Handle : slice[h].ptr =>
     LET s == slot_index[h] IN
     /\ bytes[s] # NoVec /\ bytes[s].data = slice[h].data
     /\ s \notin Free /\ Media(s) = {}

(* The pool grows past what was preallocated only with demand: its slots   *)
(* never outnumber those preallocated and the most ever out at one time.   *)
(* A slot is lost to it, neither free nor held, only when a client had     *)
(* moved its vector out with as_mut_vec, possibly several owners earlier.  *)
SlotsAccounted ==
  /\ nslots <= preallocated + peak
  /\ \A s \in 0 .. nslots - 1 :
        s \notin Free /\ Media(s) = {} /\ Pooled(s) = {} => s \in emptied

(* The pool implements independent values: no operation on one handle is   *)
(* visible through another, although slots and vectors are shared and      *)
(* reused.                                                                 *)
valueOf == [h \in Handle |->
  IF kind[h] = "none" THEN [held |-> FALSE, mutable |-> FALSE, data |-> Blank]
  ELSE [held |-> TRUE, mutable |-> kind[h] = "media",
        data |-> IF kind[h] = "media" THEN own[h].data ELSE view[slot_index[h]].data]]

Values == INSTANCE BufferValues WITH value <- valueOf
ImplementsValues == Values!Spec
=============================================================================
