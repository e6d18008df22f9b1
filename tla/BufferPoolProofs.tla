-------------------------- MODULE BufferPoolProofs --------------------------
(***************************************************************************)
(* Proofs about BufferPool, for every set of handles, every number of      *)
(* slots and every content: the invariants the runs check, and that the    *)
(* pool implements independent values (BufferValues).                      *)
(***************************************************************************)
EXTENDS BufferPool, FiniteSetTheorems, SequenceTheorems, TLAPS

Elems(f)  == {f[i] : i \in 1 .. Len(f)}
NoDups(f) == \A i, j \in 1 .. Len(f) : f[i] = f[j] => i = j

(* Pushing an index that is not on a stack without duplicates keeps it so. *)
LEMMA PushElems ==
  ASSUME NEW S, NEW f \in Seq(S), NEW s \in S
  PROVE  /\ Append(f, s) \in Seq(S)
         /\ Elems(Append(f, s)) = Elems(f) \cup {s}
         /\ NoDups(f) /\ s \notin Elems(f) => NoDups(Append(f, s))
<1> DEFINE g == Append(f, s)
<1>1. /\ g \in Seq(S) /\ Len(g) = Len(f) + 1 /\ g[Len(f) + 1] = s
      /\ \A i \in 1 .. Len(f) : g[i] = f[i]
  OBVIOUS
<1>2. Len(f) \in Nat
  OBVIOUS
<1> HIDE DEF g
<1>3. Elems(g) = Elems(f) \cup {s}
  <2>1. 1 .. Len(g) = (1 .. Len(f)) \cup {Len(f) + 1}
    BY <1>1, <1>2
  <2> QED BY <2>1, <1>1 DEF Elems
<1>4. ASSUME NoDups(f), s \notin Elems(f) PROVE NoDups(g)
  <2> SUFFICES ASSUME NEW i \in 1 .. Len(g), NEW j \in 1 .. Len(g), g[i] = g[j]
               PROVE  i = j
    BY DEF NoDups
  <2>1. CASE i \in 1 .. Len(f) /\ j \in 1 .. Len(f)
    BY <2>1, <1>1, <1>4 DEF NoDups
  <2>2. CASE i = Len(f) + 1 /\ j \in 1 .. Len(f)
    BY <2>2, <1>1, <1>4 DEF Elems
  <2>3. CASE j = Len(f) + 1 /\ i \in 1 .. Len(f)
    BY <2>3, <1>1, <1>4 DEF Elems
  <2> QED BY <2>1, <2>2, <2>3, <1>1, <1>2
<1> QED BY <1>1, <1>3, <1>4 DEF g

(* Popping a stack without duplicates removes exactly its top.             *)
LEMMA PopElems ==
  ASSUME NEW S, NEW f \in Seq(S), f # <<>>
  PROVE  LET g == SubSeq(f, 1, Len(f) - 1) top == f[Len(f)] IN
         /\ g \in Seq(S) /\ top \in Elems(f) /\ top \in S
         /\ NoDups(f) => Elems(g) = Elems(f) \ {top} /\ NoDups(g)
<1> DEFINE g == SubSeq(f, 1, Len(f) - 1)
           top == f[Len(f)]
<1>1. Len(f) \in Nat \ {0}
  OBVIOUS
<1>2. /\ g \in Seq(S) /\ Len(g) = Len(f) - 1
      /\ \A i \in 1 .. Len(g) : g[i] = f[i]
  <2>1. \A i \in 1 .. Len(f) - 1 : f[i] \in S
    BY <1>1
  <2>2. /\ g \in Seq(S)
        /\ Len(g) = IF 1 <= Len(f) - 1 THEN Len(f) - 1 - 1 + 1 ELSE 0
        /\ \A i \in 1 .. Len(f) - 1 - 1 + 1 : g[i] = f[1 + i - 1]
    BY <1>1, <2>1, 1 \in Int, Len(f) - 1 \in Int, SubSeqProperties
  <2> HIDE DEF g
  <2>3. Len(g) = Len(f) - 1
    <3>1. \A n \in Nat \ {0} : (IF 1 <= n - 1 THEN n - 1 - 1 + 1 ELSE 0) = n - 1
      OBVIOUS
    <3> QED BY <1>1, <2>2, <3>1
  <2>4. ASSUME NEW i \in 1 .. Len(g) PROVE g[i] = f[i]
    <3>1. i \in 1 .. Len(f) - 1 - 1 + 1 /\ 1 + i - 1 = i
      BY <1>1, <2>3
    <3> QED BY <3>1, <2>2
  <2> QED BY <2>2, <2>3, <2>4
<1>3. top \in Elems(f) /\ top \in S
  BY <1>1 DEF Elems
<1> HIDE DEF g
<1>4. ASSUME NoDups(f) PROVE Elems(g) = Elems(f) \ {top} /\ NoDups(g)
  <2>1. 1 .. Len(f) = (1 .. Len(g)) \cup {Len(f)} /\ Len(f) \notin 1 .. Len(g)
    BY <1>1, <1>2
  <2>2. \A i \in 1 .. Len(g) : f[i] # top
    BY <2>1, <1>1, <1>4 DEF NoDups
  <2>3. Elems(g) = Elems(f) \ {top}
    BY <2>1, <2>2, <1>2 DEF Elems
  <2>4. NoDups(g)
    BY <2>1, <1>2, <1>4 DEF NoDups
  <2> QED BY <2>3, <2>4
<1> QED BY <1>2, <1>3, <1>4 DEF g

(* Preallocating pushes the next indices, which no slot has yet.           *)
LEMMA PreallocElems ==
  ASSUME NEW f \in Seq(SlotId), NEW n \in Nat, NEW c \in Nat, n + c <= MaxSlots,
         \A s \in Elems(f) : s < n, NoDups(f)
  PROVE  LET g == f \o [i \in 1 .. c |-> n + i - 1] IN
         /\ g \in Seq(SlotId) /\ NoDups(g)
         /\ Elems(g) = Elems(f) \cup (n .. n + c - 1)
<1> DEFINE r == [i \in 1 .. c |-> n + i - 1]
           g == f \o r
<1>0. MaxSlots \in Nat
  BY PoolConstants
<1>1. r \in Seq(SlotId) /\ Len(r) = c
  BY <1>0 DEF SlotId
<1>2. /\ g \in Seq(SlotId) /\ Len(g) = Len(f) + c
      /\ \A i \in 1 .. Len(f) : g[i] = f[i]
      /\ \A i \in 1 .. c : g[Len(f) + i] = n + i - 1
  BY <1>1
<1>3. Len(f) \in Nat /\ \A i \in 1 .. Len(f) : f[i] \in Elems(f) /\ f[i] \in SlotId
  BY DEF Elems
<1> HIDE DEF g, r
<1>4. \A i \in 1 .. Len(g) : \/ i \in 1 .. Len(f) /\ g[i] = f[i] /\ g[i] < n
                             \/ i - Len(f) \in 1 .. c /\ g[i] = n + (i - Len(f)) - 1
  <2> SUFFICES ASSUME NEW i \in 1 .. Len(g), i \notin 1 .. Len(f)
               PROVE  i - Len(f) \in 1 .. c /\ g[i] = n + (i - Len(f)) - 1
    BY <1>2, <1>3
  <2>1. i - Len(f) \in 1 .. c /\ i = Len(f) + (i - Len(f))
    BY <1>2, <1>3
  <2> QED BY <2>1, <1>2
<1>5. NoDups(g)
  <2> SUFFICES ASSUME NEW i \in 1 .. Len(g), NEW j \in 1 .. Len(g), g[i] = g[j]
               PROVE  i = j
    BY DEF NoDups
  <2>1. CASE i \in 1 .. Len(f) /\ j \in 1 .. Len(f)
    BY <2>1, <1>2 DEF NoDups
  <2>2. CASE i - Len(f) \in 1 .. c \/ j - Len(f) \in 1 .. c
    BY <2>2, <1>2, <1>3, <1>4
  <2> QED BY <2>1, <2>2, <1>4
<1>6. Elems(g) = Elems(f) \cup (n .. n + c - 1)
  <2>1. ASSUME NEW i \in 1 .. Len(g) PROVE g[i] \in Elems(f) \cup (n .. n + c - 1)
    BY <1>3, <1>4
  <2>2. ASSUME NEW s \in Elems(f) PROVE s \in Elems(g)
    <3>1. PICK i \in 1 .. Len(f) : s = f[i]
      BY DEF Elems
    <3> QED BY <3>1, <1>2, <1>3 DEF Elems
  <2>3. ASSUME NEW s \in n .. n + c - 1 PROVE s \in Elems(g)
    <3>1. PICK k \in 1 .. c : k = s - n + 1
      OBVIOUS
    <3>2. n + k - 1 = s /\ k \in Nat /\ k >= 1 /\ k <= c
      BY <3>1
    <3>3. Len(f) + k \in 1 .. Len(g)
      BY <3>2, <1>2, <1>3
    <3>4. g[Len(f) + k] = n + k - 1
      BY <1>2
    <3> QED BY <3>2, <3>3, <3>4 DEF Elems
  <2> QED BY <2>1, <2>2, <2>3 DEF Elems
<1> QED BY <1>2, <1>5, <1>6 DEF g, r
-----------------------------------------------------------------------------
(***************************************************************************)
(* The inductive invariant.  OneOwner alone is not inductive: that a slot  *)
(* freed by a drop is not already free, or that its readers are gone,      *)
(* needs the exact count, and that a reader's slice stays valid needs to   *)
(* know where every vector is.                                             *)
(***************************************************************************)
Held(h) == kind[h] # "none"

SlotsExist ==
  /\ \A s \in Free : s < nslots
  /\ \A h \in Handle : Held(h) => slot_index[h] < nslots

Separate ==
  /\ NoDups(free_indices)
  /\ \A h \in Handle : Held(h) => slot_index[h] \notin Free
  /\ \A h, g \in Handle :
        kind[h] = "media" /\ Held(g) /\ slot_index[h] = slot_index[g] => h = g

VectorPlaces ==
  /\ \A h \in Handle : own[h] # NoVec <=> kind[h] = "media"
  /\ \A s \in Free : bytes[s] # NoVec
  /\ \A h \in Handle : kind[h] = "pooled" =>
        /\ bytes[slot_index[h]] # NoVec
        /\ view[slot_index[h]] = ViewOf(bytes[slot_index[h]])

SliceIsView ==
  \A h \in Handle : slice[h].ptr => kind[h] = "pooled" /\ slice[h] = view[slot_index[h]]

IInv == TypeOK /\ SlotsExist /\ Separate /\ RefCountExact /\ VectorPlaces /\ SliceIsView
LEMMA PooledFinite == \A s : IsFiniteSet(Pooled(s))
<1>1. \A s : Pooled(s) \in SUBSET Handle
  BY DEF Pooled
<1> QED BY <1>1, FS_Subset, PoolConstants

LEMMA FreeIsElems == Free = Elems(free_indices)
BY DEF Free, Elems

LEMMA VecFacts ==
  /\ FreshVec \in Vec /\ EmptiedVec \in Vec
  /\ \A v \in Vec : v # NoVec /\ Cleared(v) \in Vec /\ ViewOf(v) \in View
  /\ NullView \in View /\ ~NullView.ptr
BY NoVecAssumption
   DEF FreshVec, EmptiedVec, Vec, Cleared, ViewOf, View, NullView, Data

LEMMA InitInv == Init => IInv
<1> SUFFICES ASSUME Init PROVE IInv
  OBVIOUS
<1> USE PoolConstants DEF Init
<1>1. TypeOK
  BY VecFacts DEF TypeOK, SlotId
<1>2. Free = {} /\ \A h \in Handle : ~Held(h) /\ kind[h] \notin {"media", "pooled"}
  BY DEF Free, Held
<1>3. SlotsExist /\ Separate
  BY <1>2 DEF SlotsExist, Separate, NoDups
<1>4. VectorPlaces /\ SliceIsView
  BY <1>2, VecFacts DEF VectorPlaces, SliceIsView
<1>5. RefCountExact
  <2>1. \A s \in SlotId : Pooled(s) = {}
    BY <1>2 DEF Pooled
  <2> QED BY <2>1, FS_EmptySet DEF RefCountExact
<1> QED BY <1>1, <1>3, <1>4, <1>5 DEF IInv

(* Where no PooledBuffer appears or goes, the counts stay exact.           *)
LEMMA CountsKept ==
  ASSUME RefCountExact, ref_count' = ref_count,
         \A h \in Handle : kind'[h] = "pooled" <=> kind[h] = "pooled",
         \A h \in Handle : kind[h] = "pooled" => slot_index'[h] = slot_index[h]
  PROVE  RefCountExact'
<1>1. \A s \in SlotId : Pooled(s)' = Pooled(s)
  BY DEF Pooled
<1> QED BY <1>1 DEF RefCountExact

LEMMA PreallocateInv ==
  ASSUME IInv, NEW count \in 1 .. MaxSlots, Preallocate(count)
  PROVE  IInv'
<1> USE PoolConstants DEF IInv, handles
<1>0. /\ kind' = kind /\ slot_index' = slot_index /\ own' = own /\ slice' = slice
      /\ view' = view /\ nslots' = nslots + count
  BY DEF Preallocate
<1>1. /\ nslots \in Nat /\ count \in Nat /\ free_indices \in Seq(SlotId)
      /\ \A s \in Elems(free_indices) : s < nslots
      /\ NoDups(free_indices) /\ nslots + count <= MaxSlots
  BY FreeIsElems DEF TypeOK, SlotsExist, Separate, Preallocate
<1>2. /\ free_indices' \in Seq(SlotId) /\ NoDups(free_indices')
      /\ Free' = Free \cup (nslots .. nslots + count - 1)
  <2>1. Free' = Elems(free_indices')
    BY DEF Free, Elems
  <2> QED BY <1>1, <2>1, FreeIsElems, PreallocElems DEF Preallocate
<1>3. nslots' \in 0 .. MaxSlots /\ nslots' > nslots
  BY <1>1 DEF Preallocate
<1>4. \A h \in Handle : Held(h) => slot_index[h] \in SlotId /\ slot_index[h] < nslots
  BY DEF TypeOK, SlotsExist, Held
<1>5. TypeOK'
  <2>1. /\ bytes' \in [SlotId -> Vec \cup {NoVec}]
        /\ allocated_count' \in Nat /\ high_watermark' \in Nat /\ preallocated' \in Nat
    BY VecFacts, <1>1 DEF TypeOK, Preallocate, Larger
  <2> QED BY <2>1, <1>2, <1>3 DEF TypeOK, Preallocate
<1>6. SlotsExist' /\ Separate'
  <2>1. SlotsExist'
    <3>1. \A s \in Free' : s < nslots'
      <4>1. \A s \in Free : s < nslots /\ s \in Nat
        BY <1>1 DEF SlotsExist, Free, SlotId
      <4> QED BY <1>0, <1>1, <1>2, <4>1
    <3>2. \A h \in Handle : Held(h)' => slot_index'[h] < nslots'
      BY <1>0, <1>1, <1>4 DEF Held, SlotId
    <3> QED BY <3>1, <3>2 DEF SlotsExist
  <2>2. \A h \in Handle : Held(h) => slot_index[h] \notin nslots .. nslots + count - 1
    BY <1>1, <1>4 DEF SlotId
  <2>3. Separate'
    BY <1>0, <1>2, <2>2 DEF Separate, Held
  <2> QED BY <2>1, <2>3
<1>7. RefCountExact'
  BY CountsKept DEF Preallocate
<1>8. VectorPlaces' /\ SliceIsView'
  <2>1. \A s \in Free' : bytes'[s] # NoVec
    <3>1. \A s \in Free : s \in SlotId
      BY <1>1 DEF Free
    <3>2. \A s \in SlotId : bytes'[s] \in {FreshVec, bytes[s]}
      BY DEF Preallocate
    <3>3. \A s \in nslots .. nslots + count - 1 : s \in SlotId /\ bytes'[s] = FreshVec
      BY <1>1 DEF Preallocate, SlotId
    <3> QED BY <1>2, <3>1, <3>2, <3>3, VecFacts DEF VectorPlaces
  <2>2. \A h \in Handle : Held(h) => bytes'[slot_index[h]] = bytes[slot_index[h]]
    BY <1>1, <1>4 DEF Preallocate, SlotId
  <2>3. VectorPlaces'
    BY <1>0, <2>1, <2>2 DEF VectorPlaces, Held
  <2>4. SliceIsView'
    BY <1>0 DEF SliceIsView
  <2> QED BY <2>3, <2>4
<1> QED BY <1>5, <1>6, <1>7, <1>8

(* What checking slot s out to a fresh handle does to the invariant, once  *)
(* s is off the free stack: both acquires end so.                          *)
LEMMA CheckoutInv ==
  ASSUME IInv, NEW h \in Handle, NEW s \in SlotId, NEW v \in Vec,
         kind[h] = "none", Checkout(h, s, v), ref_count' = ref_count, view' = view,
         \A g \in Handle : Held(g) => slot_index[g] # s,
         s \notin Free', Free' \subseteq Free, NoDups(free_indices'),
         nslots' \in 0 .. MaxSlots, nslots' >= nslots, s < nslots',
         \A t \in SlotId \ {s} : bytes'[t] = bytes[t]
  PROVE  SlotsExist' /\ Separate' /\ RefCountExact' /\ VectorPlaces' /\ SliceIsView'
<1> USE PoolConstants DEF IInv
<1>1. /\ kind' = [kind EXCEPT ![h] = "media"]
      /\ slot_index' = [slot_index EXCEPT ![h] = s]
      /\ own' = [own EXCEPT ![h] = Cleared(v)] /\ slice' = slice
      /\ kind \in [Handle -> {"none", "media", "pooled"}]
      /\ slot_index \in [Handle -> Nat] /\ own \in [Handle -> Vec \cup {NoVec}]
      /\ nslots \in Nat
  BY DEF Checkout, TypeOK
<1>2. \A g \in Handle : g # h => /\ kind'[g] = kind[g] /\ slot_index'[g] = slot_index[g]
                                 /\ own'[g] = own[g] /\ (Held(g)' <=> Held(g))
  BY <1>1 DEF Held
<1>3. kind'[h] = "media" /\ slot_index'[h] = s /\ own'[h] = Cleared(v) /\ ~Held(h)
  BY <1>1 DEF Held
<1>4. \A g \in Handle : Held(g) => slot_index[g] \in SlotId
  BY DEF TypeOK, Held
<1>5. \A t \in Free : t \in SlotId
  BY DEF Free, TypeOK
<1>6. SlotsExist' /\ Separate'
  <2>1. SlotsExist'
    BY <1>1, <1>2, <1>3, <1>4, <1>5 DEF SlotsExist, SlotId
  <2>2. Separate'
    BY <1>2, <1>3 DEF Separate, Held
  <2> QED BY <2>1, <2>2
<1>7. RefCountExact'
  BY <1>2, <1>3, CountsKept
<1>8. VectorPlaces'
  BY <1>2, <1>3, <1>4, <1>5, VecFacts DEF VectorPlaces, Held
<1>9. SliceIsView'
  BY <1>1, <1>2 DEF SliceIsView
<1> QED BY <1>6, <1>7, <1>8, <1>9
LEMMA AcquireFreeInv ==
  ASSUME IInv, NEW h \in Handle, AcquireFree(h)
  PROVE  IInv'
<1> DEFINE s == free_indices[Len(free_indices)]
<1>1. free_indices \in Seq(SlotId) /\ free_indices # <<>> /\ NoDups(free_indices)
  BY DEF IInv, TypeOK, Separate, AcquireFree
<1>2. /\ free_indices' \in Seq(SlotId) /\ s \in SlotId /\ s \in Free
      /\ Free' = Free \ {s} /\ NoDups(free_indices')
  <2>1. Free' = Elems(free_indices')
    BY DEF Free, Elems
  <2> QED BY <1>1, <2>1, FreeIsElems, PopElems DEF AcquireFree
<1>3. /\ kind[h] = "none" /\ bytes[s] # NoVec /\ Checkout(h, s, bytes[s])
      /\ bytes' = [bytes EXCEPT ![s] = NoVec] /\ nslots' = nslots
      /\ ref_count' = ref_count /\ view' = view
  BY DEF AcquireFree
<1> HIDE DEF s
<1>4. bytes[s] \in Vec /\ nslots \in 0 .. MaxSlots /\ s < nslots
  BY <1>2, <1>3 DEF IInv, TypeOK, SlotsExist
<1>5. \A t \in SlotId \ {s} : bytes'[t] = bytes[t]
  BY <1>3 DEF IInv, TypeOK
<1>6. SlotsExist' /\ Separate' /\ RefCountExact' /\ VectorPlaces' /\ SliceIsView'
  <2>1. \A g \in Handle : Held(g) => slot_index[g] # s
    BY <1>2 DEF IInv, Separate
  <2>2. nslots' \in 0 .. MaxSlots /\ nslots' >= nslots /\ s < nslots'
    BY <1>3, <1>4, PoolConstants
  <2> QED BY <1>2, <1>3, <1>4, <1>5, <2>1, <2>2, CheckoutInv
<1>7. TypeOK'
  <2>1. peak' \in Nat
    BY <1>1 DEF AcquireFree, Larger, Outstanding, IInv, TypeOK
  <2>2. bytes' \in [SlotId -> Vec \cup {NoVec}]
    BY <1>3 DEF IInv, TypeOK
  <2>3. /\ kind' \in [Handle -> {"none", "media", "pooled"}]
        /\ slot_index' \in [Handle -> Nat] /\ own' \in [Handle -> Vec \cup {NoVec}]
        /\ slice' \in [Handle -> View]
        /\ \A g \in Handle : kind'[g] # "none" => slot_index'[g] \in SlotId
    BY <1>2, <1>3, <1>4, VecFacts DEF IInv, TypeOK, Checkout, SlotId
  <2> QED BY <1>2, <1>3, <2>1, <2>2, <2>3 DEF IInv, TypeOK, AcquireFree
<1> QED BY <1>6, <1>7 DEF IInv

LEMMA AcquireNewInv ==
  ASSUME IInv, NEW h \in Handle, AcquireNew(h)
  PROVE  IInv'
<1>1. /\ kind[h] = "none" /\ Checkout(h, nslots, FreshVec) /\ nslots' = nslots + 1
      /\ bytes' = bytes /\ ref_count' = ref_count /\ view' = view
      /\ free_indices' = free_indices /\ nslots < MaxSlots
      /\ preallocated' = preallocated /\ emptied' = emptied
  BY DEF AcquireNew
<1>2. nslots \in SlotId /\ nslots \in Nat /\ nslots' \in 0 .. MaxSlots
  BY <1>1, PoolConstants DEF IInv, TypeOK, SlotId
<1>3. Free' = Free /\ nslots \notin Free /\ NoDups(free_indices')
  <2>1. Free' = Free
    BY <1>1 DEF Free
  <2>2. nslots \notin Free
    BY <1>2 DEF IInv, SlotsExist
  <2> QED BY <1>1, <2>1, <2>2 DEF IInv, Separate
<1>4. SlotsExist' /\ Separate' /\ RefCountExact' /\ VectorPlaces' /\ SliceIsView'
  <2>1. \A g \in Handle : Held(g) => slot_index[g] # nslots
    BY <1>2 DEF IInv, SlotsExist
  <2>2. nslots' >= nslots /\ nslots < nslots'
    BY <1>1, <1>2
  <2> QED BY <1>1, <1>2, <1>3, <2>1, <2>2, VecFacts, CheckoutInv
<1>5. TypeOK'
  <2>1. allocated_count' \in Nat /\ high_watermark' \in Nat /\ peak' \in Nat
    BY DEF AcquireNew, Larger, Outstanding, IInv, TypeOK
  <2>2. /\ kind' \in [Handle -> {"none", "media", "pooled"}]
        /\ slot_index' \in [Handle -> Nat] /\ own' \in [Handle -> Vec \cup {NoVec}]
        /\ slice' \in [Handle -> View]
        /\ \A g \in Handle : kind'[g] # "none" => slot_index'[g] \in SlotId
    BY <1>1, <1>2, VecFacts DEF IInv, TypeOK, Checkout
  <2> QED BY <1>1, <1>2, <2>1, <2>2 DEF IInv, TypeOK
<1> QED BY <1>4, <1>5 DEF IInv

(* Writes to a MediaBuffer touch nothing but its own vector.               *)
LEMMA WriteInv ==
  ASSUME IInv, NEW h \in Handle, NEW v \in Vec,
         kind[h] = "media", own' = [own EXCEPT ![h] = v],
         UNCHANGED <<shared, kind, slot_index, slice, preallocated, peak>>,
         emptied' \in SUBSET SlotId
  PROVE  IInv'
<1> USE DEF IInv, shared
<1>1. TypeOK'
  BY DEF TypeOK
<1>2. Free' = Free
  BY DEF Free
<1>3. SlotsExist' /\ Separate' /\ SliceIsView'
  BY <1>2 DEF SlotsExist, Separate, SliceIsView, Held, NoDups
<1>4. VectorPlaces'
  BY <1>2, VecFacts DEF VectorPlaces, TypeOK
<1>5. RefCountExact'
  BY CountsKept
<1> QED BY <1>1, <1>3, <1>4, <1>5

LEMMA FreezeInv ==
  ASSUME IInv, NEW h \in Handle, Freeze(h)
  PROVE  IInv'
<1>0. PICK s \in SlotId : s = slot_index[h]
  BY DEF Freeze, IInv, TypeOK
<1>1. /\ kind[h] = "media" /\ s \in SlotId /\ s < nslots /\ s \notin Free
      /\ own[h] \in Vec /\ own[h] # NoVec
      /\ \A g \in Handle : Held(g) /\ slot_index[g] = s => g = h
  BY <1>0, VecFacts DEF IInv, TypeOK, SlotsExist, Separate, VectorPlaces, Held, Freeze
<1>2. /\ view' = [view EXCEPT ![s] = ViewOf(own[h])]
      /\ ref_count' = [ref_count EXCEPT ![s] = 1]
      /\ bytes' = [bytes EXCEPT ![s] = own[h]]
      /\ kind' = [kind EXCEPT ![h] = "pooled"]
      /\ own' = [own EXCEPT ![h] = NoVec]
      /\ nslots' = nslots /\ free_indices' = free_indices
      /\ slot_index' = slot_index /\ slice' = slice /\ Free' = Free
  BY <1>0 DEF Freeze, Free
<1>3. /\ kind \in [Handle -> {"none", "media", "pooled"}]
      /\ own \in [Handle -> Vec \cup {NoVec}]
      /\ bytes \in [SlotId -> Vec \cup {NoVec}] /\ view \in [SlotId -> View]
      /\ ref_count \in [SlotId -> Nat] /\ slot_index \in [Handle -> Nat]
  BY DEF IInv, TypeOK
<1>4. TypeOK'
  <2>1. /\ view' \in [SlotId -> View] /\ bytes' \in [SlotId -> Vec \cup {NoVec}]
        /\ ref_count' \in [SlotId -> Nat]
    BY <1>1, <1>2, <1>3, VecFacts
  <2>2. \A g \in Handle : kind'[g] # "none" => slot_index'[g] \in SlotId
    BY <1>0, <1>1, <1>2, <1>3 DEF IInv, TypeOK
  <2> QED BY <1>2, <1>3, <2>1, <2>2 DEF IInv, TypeOK, Freeze, history
<1>5. \A g \in Handle : Held(g)' <=> Held(g)
  BY <1>1, <1>2, <1>3 DEF Held
<1>6. SlotsExist' /\ Separate'
  BY <1>1, <1>2, <1>3, <1>5 DEF IInv, SlotsExist, Separate, Held
<1>7. RefCountExact'
  <2>1. Pooled(s)' = {h}
    BY <1>0, <1>1, <1>2, <1>3, <1>5 DEF Pooled, Held
  <2>2. \A t \in SlotId \ {s} : Pooled(t)' = Pooled(t)
    BY <1>0, <1>1, <1>2, <1>3 DEF Pooled
  <2>3. ref_count'[s] = Cardinality(Pooled(s)')
    BY <1>1, <1>2, <1>3, <2>1, FS_Singleton
  <2>4. \A t \in SlotId \ {s} : ref_count'[t] = Cardinality(Pooled(t)')
    BY <1>1, <1>2, <1>3, <2>2 DEF IInv, RefCountExact
  <2> QED BY <2>3, <2>4 DEF RefCountExact
<1>8. VectorPlaces'
  <2>1. \A g \in Handle \ {h} : Held(g) => slot_index[g] \in SlotId \ {s}
    BY <1>1 DEF IInv, TypeOK, Held
  <2>2. \A g \in Handle \ {h} : Held(g) => /\ bytes'[slot_index[g]] = bytes[slot_index[g]]
                                           /\ view'[slot_index[g]] = view[slot_index[g]]
    BY <1>2, <1>3, <2>1
  <2>3. \A t \in Free : bytes'[t] # NoVec
    BY <1>1, <1>2, <1>3 DEF IInv, VectorPlaces
  <2>4. bytes'[s] = own[h] /\ view'[s] = ViewOf(own[h])
    BY <1>1, <1>2, <1>3
  <2> QED BY <1>0, <1>1, <1>2, <1>3, <2>2, <2>3, <2>4 DEF IInv, VectorPlaces, Held
<1>9. SliceIsView'
  <2>1. \A g \in Handle : slice[g].ptr => g # h /\ Held(g) /\ slot_index[g] \in SlotId \ {s}
    BY <1>1 DEF IInv, SliceIsView, Held, TypeOK
  <2> QED BY <1>2, <1>3, <2>1 DEF IInv, SliceIsView
<1> QED BY <1>4, <1>6, <1>7, <1>8, <1>9 DEF IInv
(* Forgetting a handle: what the drops do to every other handle.           *)
LEMMA ForgetFacts ==
  ASSUME TypeOK, NEW h \in Handle, Forget(h)
  PROVE  /\ kind' \in [Handle -> {"none", "media", "pooled"}]
         /\ slot_index' \in [Handle -> Nat] /\ own' \in [Handle -> Vec \cup {NoVec}]
         /\ kind'[h] = "none" /\ own'[h] = NoVec /\ ~Held(h)'
         /\ \A g \in Handle \ {h} : /\ kind'[g] = kind[g] /\ own'[g] = own[g]
                                    /\ slot_index'[g] = slot_index[g]
                                    /\ Held(g)' <=> Held(g)
BY DEF TypeOK, Forget, Held

LEMMA DropMediaInv ==
  ASSUME IInv, NEW h \in Handle, DropMedia(h)
  PROVE  IInv'
<1> DEFINE s == slot_index[h]
<1>1. /\ kind[h] = "media" /\ s \in SlotId /\ s < nslots /\ s \notin Free
      /\ own[h] \in Vec /\ Cleared(own[h]) \in Vec /\ Cleared(own[h]) # NoVec
      /\ \A g \in Handle : Held(g) /\ slot_index[g] = s => g = h
  BY VecFacts DEF IInv, TypeOK, SlotsExist, Separate, VectorPlaces, Held, DropMedia
<1>2. /\ nslots' = nslots /\ view' = view /\ ref_count' = ref_count /\ slice' = slice
      /\ allocated_count' = allocated_count /\ high_watermark' = high_watermark
      /\ preallocated' = preallocated /\ peak' = peak /\ emptied' = emptied
      /\ Forget(h)
  BY DEF DropMedia, history
<1>3. \/ /\ bytes' = [bytes EXCEPT ![s] = Cleared(own[h])]
         /\ free_indices' = Append(free_indices, s)
      \/ bytes' = bytes /\ free_indices' = free_indices
  BY DEF DropMedia
<1>4. /\ free_indices' \in Seq(SlotId) /\ NoDups(free_indices')
      /\ Free' \subseteq Free \cup {s}
      /\ s \in Free' => bytes' = [bytes EXCEPT ![s] = Cleared(own[h])]
      /\ bytes' \in [SlotId -> Vec \cup {NoVec}]
      /\ \A t \in SlotId \ {s} : bytes'[t] = bytes[t]
  <2> HIDE DEF s
  <2>1. Free' = Elems(free_indices') /\ free_indices \in Seq(SlotId) /\ NoDups(free_indices)
    BY DEF Free, Elems, IInv, TypeOK, Separate
  <2>2. bytes \in [SlotId -> Vec \cup {NoVec}]
    BY DEF IInv, TypeOK
  <2>3. CASE bytes' = bytes /\ free_indices' = free_indices
    BY <1>1, <2>1, <2>2, <2>3, FreeIsElems
  <2>4. CASE /\ bytes' = [bytes EXCEPT ![s] = Cleared(own[h])]
             /\ free_indices' = Append(free_indices, s)
    BY <1>1, <2>1, <2>2, <2>4, FreeIsElems, PushElems
  <2> QED BY <1>3, <2>3, <2>4
<1>5. /\ kind' \in [Handle -> {"none", "media", "pooled"}]
      /\ slot_index' \in [Handle -> Nat] /\ own' \in [Handle -> Vec \cup {NoVec}]
      /\ kind'[h] = "none" /\ own'[h] = NoVec /\ ~Held(h)'
      /\ \A g \in Handle \ {h} : /\ kind'[g] = kind[g] /\ own'[g] = own[g]
                                 /\ slot_index'[g] = slot_index[g]
                                 /\ Held(g)' <=> Held(g)
  BY <1>2, ForgetFacts DEF IInv
<1>6. \A g \in Handle \ {h} : Held(g) => slot_index[g] \in SlotId \ {s}
  BY <1>1 DEF IInv, TypeOK, Held
<1> HIDE DEF s
<1>7. TypeOK'
  <2>1. \A g \in Handle : kind'[g] # "none" => slot_index'[g] \in SlotId
    BY <1>5, <1>6 DEF Held
  <2> QED BY <1>2, <1>4, <1>5, <2>1 DEF IInv, TypeOK
<1>8. SlotsExist'
  BY <1>1, <1>2, <1>4, <1>5 DEF IInv, SlotsExist
<1>9. Separate'
  BY <1>4, <1>5, <1>6, SMTT(30) DEF IInv, Separate, Held
<1>10. RefCountExact'
  BY <1>1, <1>2, <1>5, CountsKept DEF IInv
<1>11. VectorPlaces'
  <2>1. \A t \in Free' : bytes'[t] # NoVec
    <3>1. \A t \in Free : t \in SlotId /\ bytes[t] # NoVec
      <4>1. \A t \in Free : t \in SlotId
        BY DEF Free, IInv, TypeOK
      <4> QED BY <4>1 DEF IInv, VectorPlaces
    <3>2. s \in Free' => bytes'[s] # NoVec
      BY <1>1, <1>4 DEF IInv, TypeOK
    <3> QED BY <1>1, <1>4, <3>1, <3>2
  <2>2. \A g \in Handle : own'[g] # NoVec <=> kind'[g] = "media"
    BY <1>5 DEF IInv, VectorPlaces
  <2>3. \A g \in Handle : kind'[g] = "pooled" =>
          /\ bytes'[slot_index'[g]] # NoVec
          /\ view'[slot_index'[g]] = ViewOf(bytes'[slot_index'[g]])
    <3> SUFFICES ASSUME NEW g \in Handle \ {h}, kind[g] = "pooled"
                 PROVE  /\ bytes'[slot_index[g]] # NoVec
                        /\ view'[slot_index[g]] = ViewOf(bytes'[slot_index[g]])
      BY <1>5
    <3> QED BY <1>2, <1>4, <1>6 DEF IInv, VectorPlaces, Held
  <2> QED BY <2>1, <2>2, <2>3 DEF VectorPlaces
<1>12. SliceIsView'
  BY <1>1, <1>2, <1>5 DEF IInv, SliceIsView
<1> QED BY <1>7, <1>8, <1>9, <1>10, <1>11, <1>12 DEF IInv

LEMMA ReadInv ==
  ASSUME IInv, NEW h \in Handle, BeginRead(h) \/ EndRead(h)
  PROVE  IInv'
<1> USE DEF BeginRead, EndRead, shared, history, IInv
<1>1. /\ kind' = kind /\ slot_index' = slot_index /\ Free' = Free
      /\ \/ slice' = [slice EXCEPT ![h] = view[slot_index[h]]] /\ kind[h] = "pooled"
         \/ slice' = [slice EXCEPT ![h] = NullView]
  BY DEF Free
<1>2. TypeOK'
  <2>1. slice' \in [Handle -> View]
    BY <1>1, VecFacts DEF TypeOK
  <2> QED BY <2>1 DEF TypeOK
<1>3. SlotsExist' /\ Separate' /\ VectorPlaces'
  BY <1>1 DEF SlotsExist, Separate, VectorPlaces, Held, NoDups
<1>4. RefCountExact'
  BY CountsKept
<1>5. SliceIsView'
  BY <1>1, VecFacts DEF SliceIsView, TypeOK
<1> QED BY <1>2, <1>3, <1>4, <1>5

LEMMA CloneInv ==
  ASSUME IInv, NEW h \in Handle, NEW g \in Handle, Clone(h, g)
  PROVE  IInv'
<1>0. PICK s \in SlotId : s = slot_index[h]
  BY DEF Clone, IInv, TypeOK
<1>1. kind[h] = "pooled" /\ kind[g] = "none" /\ s \in SlotId /\ s < nslots /\ s \notin Free
  BY <1>0 DEF Clone, IInv, TypeOK, SlotsExist, Separate, Held
<1>2. /\ ref_count' = [ref_count EXCEPT ![s] = @ + 1]
      /\ kind' = [kind EXCEPT ![g] = "pooled"]
      /\ slot_index' = [slot_index EXCEPT ![g] = s]
      /\ nslots' = nslots /\ bytes' = bytes /\ view' = view
      /\ free_indices' = free_indices /\ own' = own /\ slice' = slice /\ Free' = Free
  BY <1>0 DEF Clone, CloneCount, Free
<1>3. /\ kind \in [Handle -> {"none", "media", "pooled"}]
      /\ slot_index \in [Handle -> Nat] /\ ref_count \in [SlotId -> Nat]
  BY DEF IInv, TypeOK
<1>4. /\ kind'[g] = "pooled" /\ slot_index'[g] = s /\ Held(g)'
      /\ \A k \in Handle \ {g} : /\ kind'[k] = kind[k] /\ slot_index'[k] = slot_index[k]
                                 /\ Held(k)' <=> Held(k)
  BY <1>2, <1>3 DEF Held
<1>5. TypeOK'
  <2>1. \A k \in Handle : kind'[k] # "none" => slot_index'[k] \in SlotId
    BY <1>1, <1>4 DEF IInv, TypeOK
  <2>2. kind' \in [Handle -> {"none", "media", "pooled"}] /\ slot_index' \in [Handle -> Nat]
        /\ ref_count' \in [SlotId -> Nat]
    BY <1>1, <1>2, <1>3 DEF SlotId
  <2> QED BY <1>2, <2>1, <2>2 DEF IInv, TypeOK, Clone, history
<1>6. SlotsExist' /\ Separate'
  <2>1. SlotsExist'
    BY <1>1, <1>2, <1>4 DEF IInv, SlotsExist
  <2>2. \A k \in Handle : kind[k] = "media" => slot_index[k] # s /\ k # g
    BY <1>0, <1>1 DEF IInv, Separate, Held
  <2>3. Separate'
    BY <1>1, <1>2, <1>4, <2>2 DEF IInv, Separate, Held
  <2> QED BY <2>1, <2>3
<1>7. RefCountExact'
  <2>1. Pooled(s)' = Pooled(s) \cup {g} /\ g \notin Pooled(s)
    BY <1>1, <1>4 DEF Pooled
  <2>2. \A t \in SlotId \ {s} : Pooled(t)' = Pooled(t)
    BY <1>1, <1>4 DEF Pooled
  <2>3. ref_count'[s] = Cardinality(Pooled(s)')
    BY <1>1, <1>2, <1>3, <2>1, PooledFinite, FS_AddElement, ZenonT(30) DEF IInv, RefCountExact
  <2>4. \A t \in SlotId \ {s} : ref_count'[t] = Cardinality(Pooled(t)')
    BY <1>1, <1>2, <1>3, <2>2 DEF IInv, RefCountExact
  <2> QED BY <2>3, <2>4 DEF RefCountExact
<1>8. VectorPlaces'
  <2>1. bytes[s] # NoVec /\ view[s] = ViewOf(bytes[s])
    BY <1>0, <1>1 DEF IInv, VectorPlaces
  <2> QED BY <1>1, <1>2, <1>4, <2>1 DEF IInv, VectorPlaces
<1>9. SliceIsView'
  BY <1>1, <1>2, <1>4 DEF IInv, SliceIsView
<1> QED BY <1>5, <1>6, <1>7, <1>8, <1>9 DEF IInv

(* The last handle of a slot is alone on it: this is what makes it safe to *)
(* free the slot, and it follows from the exact count.                     *)
LEMMA LastHandleAlone ==
  ASSUME IInv, NEW h \in Handle, kind[h] = "pooled", ref_count[slot_index[h]] = 1
  PROVE  Pooled(slot_index[h]) = {h}
<1>1. slot_index[h] \in SlotId /\ h \in Pooled(slot_index[h])
  BY DEF IInv, TypeOK, Pooled
<1>2. Cardinality(Pooled(slot_index[h])) = 1
  BY <1>1 DEF IInv, RefCountExact
<1>3. \E x : Pooled(slot_index[h]) = {x}
  BY <1>2, PooledFinite, FS_Singleton
<1> QED BY <1>1, <1>3

LEMMA DropPooledInv ==
  ASSUME IInv, NEW h \in Handle, DropPooled(h)
  PROVE  IInv'
<1>0. PICK s \in SlotId : s = slot_index[h]
  BY DEF DropPooled, IInv, TypeOK
<1>1. /\ kind[h] = "pooled" /\ ~slice[h].ptr /\ s \in SlotId /\ s < nslots /\ s \notin Free
      /\ bytes[s] # NoVec
  BY <1>0 DEF DropPooled, IInv, TypeOK, SlotsExist, Separate, VectorPlaces, Held
<1>2. /\ nslots' = nslots /\ bytes' = bytes /\ slice' = slice
      /\ ref_count' = [ref_count EXCEPT ![s] = @ - 1] /\ Forget(h)
      /\ allocated_count' = allocated_count /\ high_watermark' = high_watermark
      /\ preallocated' = preallocated /\ peak' = peak /\ emptied' = emptied
  BY <1>0 DEF DropPooled, history
<1>3. \/ /\ ref_count[s] = 1 /\ view' = [view EXCEPT ![s] = NullView]
         /\ free_indices' = Append(free_indices, s)
      \/ ref_count[s] # 1 /\ view' = view /\ free_indices' = free_indices
  BY <1>0 DEF DropPooled, LastHandle
<1>4. /\ kind' \in [Handle -> {"none", "media", "pooled"}]
      /\ slot_index' \in [Handle -> Nat] /\ own' \in [Handle -> Vec \cup {NoVec}]
      /\ kind'[h] = "none" /\ own'[h] = NoVec /\ ~Held(h)'
      /\ \A g \in Handle \ {h} : /\ kind'[g] = kind[g] /\ own'[g] = own[g]
                                 /\ slot_index'[g] = slot_index[g]
                                 /\ Held(g)' <=> Held(g)
  BY <1>2, ForgetFacts DEF IInv
<1>5. h \in Pooled(s) /\ Cardinality(Pooled(s)) = ref_count[s] /\ ref_count[s] \in Nat \ {0}
  <2>1. h \in Pooled(s) /\ Pooled(s) # {}
    BY <1>0, <1>1 DEF Pooled
  <2>2. Cardinality(Pooled(s)) = ref_count[s] /\ ref_count[s] \in Nat
    BY <1>1 DEF IInv, RefCountExact, TypeOK
  <2> QED BY <2>1, <2>2, PooledFinite, FS_EmptySet
<1>6. ref_count[s] = 1 => \A g \in Handle \ {h} : Held(g) => slot_index[g] # s
  <2> SUFFICES ASSUME ref_count[s] = 1, NEW g \in Handle \ {h}, Held(g), slot_index[g] = s
               PROVE  FALSE
    OBVIOUS
  <2>1. Pooled(s) = {h}
    BY <1>0, <1>1, LastHandleAlone
  <2>2. kind[g] # "media"
    BY <1>0, <1>1 DEF IInv, Separate, Held
  <2>3. g \in Pooled(s)
    BY <2>2 DEF Pooled, Held, IInv, TypeOK
  <2> QED BY <2>1, <2>3
<1>7. /\ free_indices' \in Seq(SlotId) /\ NoDups(free_indices')
      /\ ref_count[s] = 1 => Free' = Free \cup {s}
      /\ ref_count[s] # 1 => Free' = Free
  <2>1. Free' = Elems(free_indices') /\ free_indices \in Seq(SlotId) /\ NoDups(free_indices)
    BY DEF Free, Elems, IInv, TypeOK, Separate
  <2>2. CASE ref_count[s] = 1
    <3>1. free_indices' = Append(free_indices, s) /\ s \notin Elems(free_indices)
      BY <1>1, <1>3, <2>2, FreeIsElems
    <3> QED BY <1>1, <2>1, <2>2, <3>1, FreeIsElems, PushElems
  <2>3. CASE ref_count[s] # 1
    BY <1>3, <2>1, <2>3, FreeIsElems
  <2> QED BY <2>2, <2>3
<1>8. TypeOK'
  <2>1. \A g \in Handle : kind'[g] # "none" => slot_index'[g] \in SlotId
    BY <1>4 DEF Held, IInv, TypeOK
  <2>2. view' \in [SlotId -> View]
    BY <1>3, VecFacts DEF IInv, TypeOK
  <2>3. ref_count' \in [SlotId -> Nat]
    <3>1. ref_count[s] - 1 \in Nat /\ ref_count \in [SlotId -> Nat]
      BY <1>5 DEF IInv, TypeOK
    <3> QED BY <1>2, <3>1
  <2> QED BY <1>2, <1>4, <1>7, <2>1, <2>2, <2>3 DEF IInv, TypeOK
<1>9. SlotsExist'
  BY <1>1, <1>2, <1>4, <1>7 DEF IInv, SlotsExist
<1>10. Separate'
  BY <1>4, <1>6, <1>7 DEF IInv, Separate, Held
<1>11. RefCountExact'
  <2>1. Pooled(s)' = Pooled(s) \ {h}
    BY <1>1, <1>4 DEF Pooled
  <2>2. \A t \in SlotId \ {s} : Pooled(t)' = Pooled(t)
    BY <1>0, <1>1, <1>4 DEF Pooled
  <2>3. ref_count'[s] = Cardinality(Pooled(s)')
    <3>1. ref_count'[s] = ref_count[s] - 1
      BY <1>1, <1>2 DEF IInv, TypeOK
    <3>2. Cardinality(Pooled(s) \ {h}) = Cardinality(Pooled(s)) - 1
      BY <1>5, PooledFinite, FS_RemoveElement
    <3> QED BY <1>5, <2>1, <3>1, <3>2
  <2>4. \A t \in SlotId \ {s} : ref_count'[t] = Cardinality(Pooled(t)')
    BY <1>1, <1>2, <2>2 DEF IInv, RefCountExact, TypeOK
  <2> QED BY <2>3, <2>4 DEF RefCountExact
<1>12. VectorPlaces'
  <2>1. \A t \in Free' : bytes'[t] # NoVec
    BY <1>1, <1>2, <1>7 DEF IInv, VectorPlaces
  <2>2. \A g \in Handle : own'[g] # NoVec <=> kind'[g] = "media"
    BY <1>4 DEF IInv, VectorPlaces
  <2>3. \A g \in Handle \ {h} : Held(g) => view'[slot_index[g]] = view[slot_index[g]]
    BY <1>1, <1>3, <1>6 DEF IInv, TypeOK, Held
  <2> QED BY <1>2, <1>4, <2>1, <2>2, <2>3 DEF IInv, VectorPlaces, Held
<1>13. SliceIsView'
  <2>1. \A g \in Handle : slice[g].ptr => g # h /\ Held(g)
    BY <1>1 DEF IInv, SliceIsView, Held
  <2>2. \A g \in Handle \ {h} : Held(g) => view'[slot_index[g]] = view[slot_index[g]]
    BY <1>1, <1>3, <1>6 DEF IInv, TypeOK, Held
  <2> QED BY <1>2, <1>4, <2>1, <2>2 DEF IInv, SliceIsView
<1> QED BY <1>8, <1>9, <1>10, <1>11, <1>12, <1>13 DEF IInv
-----------------------------------------------------------------------------
LEMMA StutterInv == ASSUME IInv, UNCHANGED vars PROVE IInv'
<1> USE DEF vars, shared, handles, history, IInv
<1>1. TypeOK'
  BY DEF TypeOK
<1>2. Free' = Free
  BY DEF Free
<1>3. SlotsExist' /\ Separate' /\ VectorPlaces' /\ SliceIsView'
  BY <1>2 DEF SlotsExist, Separate, VectorPlaces, SliceIsView, Held, NoDups
<1>4. RefCountExact'
  BY CountsKept
<1> QED BY <1>1, <1>3, <1>4

LEMMA NextInv == IInv /\ [Next]_vars => IInv'
<1> SUFFICES ASSUME IInv, [Next]_vars PROVE IInv'
  OBVIOUS
<1>1. ASSUME NEW count \in 1 .. MaxSlots, Preallocate(count) PROVE IInv'
  BY <1>1, PreallocateInv
<1>2. ASSUME NEW h \in Handle, AcquireFree(h) PROVE IInv'
  BY <1>2, AcquireFreeInv
<1>3. ASSUME NEW h \in Handle, AcquireNew(h) PROVE IInv'
  BY <1>3, AcquireNewInv
<1>4. ASSUME NEW h \in Handle, TakeVec(h) PROVE IInv'
  <2>1. emptied' \in SUBSET SlotId
    BY <1>4 DEF TakeVec, IInv, TypeOK
  <2> QED BY <1>4, <2>1, VecFacts, WriteInv DEF TakeVec
<1>5. ASSUME NEW h \in Handle, NEW d \in Content, Extend(h, d) PROVE IInv'
  <2>1. [sized |-> TRUE, data |-> d] \in Vec /\ emptied' \in SUBSET SlotId
    BY <1>5 DEF Vec, Data, Extend, history, IInv, TypeOK
  <2> QED BY <1>5, <2>1, WriteInv DEF Extend, history
<1>6. ASSUME NEW h \in Handle, Freeze(h) PROVE IInv'
  BY <1>6, FreezeInv
<1>7. ASSUME NEW h \in Handle, DropMedia(h) PROVE IInv'
  BY <1>7, DropMediaInv
<1>8. ASSUME NEW h \in Handle, BeginRead(h) \/ EndRead(h) PROVE IInv'
  BY <1>8, ReadInv
<1>9. ASSUME NEW h \in Handle, NEW g \in Handle, Clone(h, g) PROVE IInv'
  BY <1>9, CloneInv
<1>10. ASSUME NEW h \in Handle, DropPooled(h) PROVE IInv'
  BY <1>10, DropPooledInv
<1>11. CASE UNCHANGED vars
  BY <1>11, StutterInv
<1> QED BY <1>1, <1>2, <1>3, <1>4, <1>5, <1>6, <1>7, <1>8, <1>9, <1>10, <1>11 DEF Next

(* Every reachable state satisfies the inductive invariant.                *)
THEOREM Invariance == Spec => []IInv
BY InitInv, NextInv, PTL DEF Spec

(* The pool's state always has its type.                                   *)
THEOREM TypeCorrect == Spec => []TypeOK
<1>1. IInv => TypeOK
  BY DEF IInv
<1> QED BY <1>1, Invariance, PTL

(* No slot ever has two owners (BufferPool::acquire and both drops).       *)
THEOREM OneOwnerHolds == Spec => []OneOwner
<1>1. IInv => OneOwner
  <2> SUFFICES ASSUME IInv PROVE OneOwner
    OBVIOUS
  <2>1. \A s \in Free : Media(s) = {} /\ Pooled(s) = {}
    BY DEF IInv, Separate, Media, Pooled, Held
  <2> QED BY <2>1 DEF IInv, Separate, NoDups, OneOwner, Held
<1> QED BY <1>1, Invariance, PTL

(* The atomic count in a slot is exact (PooledBuffer's Clone and Drop).    *)
THEOREM RefCountHolds == Spec => []RefCountExact
<1>1. IInv => RefCountExact
  BY DEF IInv
<1> QED BY <1>1, Invariance, PTL

(* acquire's expect never panics, so the pool mutex is never poisoned.     *)
THEOREM AcquireNeverPanics == Spec => []FreeSlotsHaveBytes
<1>1. IInv => FreeSlotsHaveBytes
  BY DEF IInv, VectorPlaces, FreeSlotsHaveBytes
<1> QED BY <1>1, Invariance, PTL

(* The SAFETY comment of PooledBuffer::as_slice: a slice read outside the  *)
(* lock points to memory its slot owns and nobody changes.                 *)
THEOREM SlicesAreStable == Spec => []SliceStable
<1>1. IInv => SliceStable
  <2> SUFFICES ASSUME IInv, NEW h \in Handle, slice[h].ptr,
                      NEW s \in SlotId, s = slot_index[h]
               PROVE  /\ bytes[s] # NoVec /\ bytes[s].data = slice[h].data
                      /\ s \notin Free /\ Media(s) = {}
    BY DEF SliceStable, IInv, TypeOK, SliceIsView
  <2>1. kind[h] = "pooled" /\ slice[h] = view[s]
    BY DEF IInv, SliceIsView
  <2>2. bytes[s] # NoVec /\ view[s] = ViewOf(bytes[s])
    BY <2>1 DEF IInv, VectorPlaces
  <2>3. s \notin Free /\ Media(s) = {}
    <3>1. Held(h)
      BY <2>1 DEF Held
    <3>2. \A g \in Handle : kind[g] = "media" /\ slot_index[g] = s => g = h
      BY <3>1 DEF IInv, Separate
    <3> QED BY <2>1, <3>1, <3>2 DEF IInv, Separate, Media
  <2> QED BY <2>1, <2>2, <2>3 DEF ViewOf
<1> QED BY <1>1, Invariance, PTL
-----------------------------------------------------------------------------
(***************************************************************************)
(* Accounting.  A slot is somewhere, or a client emptied it: that a drop   *)
(* which leaves its slot out finds a vector without capacity only after    *)
(* such a client needs the history of every vector, in its slot or out.    *)
(***************************************************************************)
Grown == allocated_count = nslots /\ nslots <= preallocated + peak

Sized ==
  /\ \A s \in SlotId : bytes[s] # NoVec => bytes[s].sized \/ s \in emptied
  /\ \A h \in Handle : kind[h] = "media" => own[h].sized \/ slot_index[h] \in emptied

Present ==
  \A s \in 0 .. nslots - 1 :
     s \in Free \/ s \in emptied \/ \E h \in Handle : Held(h) /\ slot_index[h] = s

Accounts == Grown /\ Sized /\ Present

LEMMA GrownStep == IInv /\ Grown /\ [Next]_vars => Grown'
<1> SUFFICES ASSUME IInv, Grown, [Next]_vars PROVE Grown'
  OBVIOUS
<1>1. /\ nslots \in Nat /\ allocated_count \in Nat /\ preallocated \in Nat /\ peak \in Nat
      /\ Len(free_indices) \in Nat
  BY PoolConstants DEF IInv, TypeOK
<1>2. CASE UNCHANGED <<nslots, allocated_count, preallocated, peak>>
  BY <1>2 DEF Grown
<1>3. ASSUME NEW count \in 1 .. MaxSlots, Preallocate(count) PROVE Grown'
  BY <1>1, <1>3, PoolConstants DEF Grown, Preallocate
<1>4. ASSUME NEW h \in Handle, AcquireFree(h) PROVE Grown'
  BY <1>1, <1>4 DEF Grown, AcquireFree, Larger, Outstanding
<1>5. ASSUME NEW h \in Handle, AcquireNew(h) PROVE Grown'
  <2>1. Outstanding = allocated_count
    BY <1>1, <1>5 DEF AcquireNew, PoolExhausted, Outstanding
  <2> QED BY <1>1, <1>5, <2>1 DEF Grown, AcquireNew, Larger
<1> QED BY <1>2, <1>3, <1>4, <1>5
     DEF Next, vars, shared, history, TakeVec, Freeze, DropMedia, BeginRead, EndRead,
         DropPooled, Extend, Clone

(* A slot stays present while no handle leaves it and it leaves no stack.  *)
LEMMA PresentKept ==
  ASSUME Present, nslots' = nslots, Free \subseteq Free', emptied \subseteq emptied',
         \A h \in Handle : Held(h) => Held(h)' /\ slot_index'[h] = slot_index[h]
  PROVE  Present'
BY DEF Present

LEMMA PresentPreallocate ==
  ASSUME IInv, Present, NEW count \in 1 .. MaxSlots, Preallocate(count)
  PROVE  Present'
<1>1. /\ nslots \in Nat /\ count \in Nat /\ free_indices \in Seq(SlotId)
      /\ \A s \in Elems(free_indices) : s < nslots
      /\ NoDups(free_indices) /\ nslots + count <= MaxSlots
  BY PoolConstants, FreeIsElems DEF IInv, TypeOK, SlotsExist, Separate, Preallocate
<1>2. Free' = Free \cup (nslots .. nslots + count - 1)
  <2>1. Free' = Elems(free_indices')
    BY DEF Free, Elems
  <2> QED BY <1>1, <2>1, FreeIsElems, PreallocElems DEF Preallocate
<1>3. nslots' = nslots + count /\ emptied' = emptied
      /\ \A h \in Handle : (Held(h) <=> Held(h)') /\ slot_index'[h] = slot_index[h]
  BY DEF Preallocate, handles, Held
<1>4. \A s \in 0 .. nslots' - 1 : s \in 0 .. nslots - 1 \/ s \in nslots .. nslots + count - 1
  BY <1>1, <1>3
<1> QED BY <1>2, <1>3, <1>4 DEF Present

LEMMA PresentCheckout ==
  ASSUME IInv, Present, NEW h \in Handle, NEW s, NEW v, kind[h] = "none", Checkout(h, s, v),
         Free \subseteq Free' \cup {s}, emptied' = emptied,
         \A t \in 0 .. nslots' - 1 : t \in 0 .. nslots - 1 \/ t = s
  PROVE  Present'
<1>1. kind'[h] = "media" /\ slot_index'[h] = s
      /\ \A g \in Handle \ {h} : kind'[g] = kind[g] /\ slot_index'[g] = slot_index[g]
  BY DEF IInv, TypeOK, Checkout
<1>2. Held(h)' /\ ~Held(h) /\ \A g \in Handle \ {h} : Held(g)' <=> Held(g)
  BY <1>1 DEF Held
<1> QED BY <1>1, <1>2 DEF Present

(* A drop frees the slot, or leaves it to another handle, or to the client *)
(* that emptied it.                                                        *)
LEMMA PresentDrop ==
  ASSUME IInv, Present, NEW h \in Handle, NEW s, s = slot_index[h], Forget(h),
         nslots' = nslots, Free \subseteq Free', emptied' = emptied,
         \/ s \in Free' \/ s \in emptied
         \/ \E g \in Handle \ {h} : Held(g) /\ slot_index[g] = s
  PROVE  Present'
<1>1. \A g \in Handle \ {h} : slot_index'[g] = slot_index[g] /\ (Held(g)' <=> Held(g))
  BY ForgetFacts DEF IInv
<1> SUFFICES ASSUME NEW t \in 0 .. nslots - 1
             PROVE  t \in Free' \/ t \in emptied \/ \E g \in Handle : Held(g)' /\ slot_index'[g] = t
  BY DEF Present
<1>2. CASE t = s
  BY <1>1, <1>2
<1>3. CASE t # s
  BY <1>1, <1>3 DEF Present
<1> QED BY <1>2, <1>3

LEMMA PushGrows ==
  ASSUME NEW s, free_indices \in Seq(SlotId), s \in SlotId,
         free_indices' = Append(free_indices, s)
  PROVE  Free' = Free \cup {s}
<1>1. Free' = Elems(free_indices')
  BY DEF Free, Elems
<1> QED BY <1>1, FreeIsElems, PushElems

LEMMA PresentStep == IInv /\ Sized /\ Present /\ [Next]_vars => Present'
<1> SUFFICES ASSUME IInv, Sized, Present, [Next]_vars PROVE Present'
  OBVIOUS
<1>0. free_indices \in Seq(SlotId) /\ nslots \in Nat
  BY PoolConstants DEF IInv, TypeOK
<1>1. ASSUME NEW count \in 1 .. MaxSlots, Preallocate(count) PROVE Present'
  BY <1>1, PresentPreallocate
<1>2. ASSUME NEW h \in Handle, AcquireFree(h) PROVE Present'
  <2>1. PICK s : s = free_indices[Len(free_indices)]
    OBVIOUS
  <2>2. Free' = Free \ {s}
    <3>1. Free' = Elems(free_indices') /\ NoDups(free_indices)
      BY DEF Free, Elems, IInv, Separate
    <3> QED BY <1>0, <1>2, <2>1, <3>1, FreeIsElems, PopElems DEF AcquireFree
  <2>3. kind[h] = "none" /\ Checkout(h, s, bytes[s]) /\ nslots' = nslots /\ emptied' = emptied
    BY <1>2, <2>1 DEF AcquireFree
  <2> QED BY <2>2, <2>3, PresentCheckout
<1>3. ASSUME NEW h \in Handle, AcquireNew(h) PROVE Present'
  <2>1. /\ kind[h] = "none" /\ Checkout(h, nslots, FreshVec) /\ nslots' = nslots + 1
        /\ Free' = Free /\ emptied' = emptied
    BY <1>3 DEF AcquireNew, Free
  <2>2. \A t \in 0 .. nslots' - 1 : t \in 0 .. nslots - 1 \/ t = nslots
    BY <1>0, <2>1
  <2> QED BY <2>1, <2>2, PresentCheckout
<1>4. ASSUME NEW h \in Handle,
             TakeVec(h) \/ BeginRead(h) \/ EndRead(h) \/ \E d \in Content : Extend(h, d)
      PROVE  Present'
  <2>1. /\ nslots' = nslots /\ free_indices' = free_indices /\ emptied \subseteq emptied'
        /\ kind' = kind /\ slot_index' = slot_index
    BY <1>4 DEF TakeVec, BeginRead, EndRead, Extend, shared, history
  <2> QED BY <2>1, PresentKept DEF Free, Held
<1>5. ASSUME NEW h \in Handle, Freeze(h) PROVE Present'
  <2>1. /\ nslots' = nslots /\ free_indices' = free_indices /\ emptied' = emptied
        /\ slot_index' = slot_index /\ kind' = [kind EXCEPT ![h] = "pooled"]
    BY <1>5 DEF Freeze, history
  <2>2. \A g \in Handle : Held(g) => Held(g)'
    BY <2>1 DEF Held, IInv, TypeOK
  <2> QED BY <2>1, <2>2, PresentKept DEF Free
<1>6. ASSUME NEW h \in Handle, NEW g \in Handle, Clone(h, g) PROVE Present'
  <2>1. /\ nslots' = nslots /\ free_indices' = free_indices /\ emptied' = emptied
        /\ kind[g] = "none" /\ kind' = [kind EXCEPT ![g] = "pooled"]
        /\ slot_index' = [slot_index EXCEPT ![g] = slot_index[h]]
    BY <1>6 DEF Clone, history
  <2>2. \A k \in Handle : Held(k) => Held(k)' /\ slot_index'[k] = slot_index[k]
    BY <2>1 DEF Held, IInv, TypeOK
  <2> QED BY <2>1, <2>2, PresentKept DEF Free
<1>7. ASSUME NEW h \in Handle, DropMedia(h) PROVE Present'
  <2>1. PICK s \in SlotId : s = slot_index[h]
    BY <1>7 DEF DropMedia, IInv, TypeOK
  <2>2. /\ Forget(h) /\ nslots' = nslots /\ emptied' = emptied /\ kind[h] = "media"
        /\ IF own[h].sized THEN free_indices' = Append(free_indices, s)
                           ELSE free_indices' = free_indices
    BY <1>7, <2>1 DEF DropMedia, history
  <2>3. CASE own[h].sized
    <3>1. Free' = Free \cup {s}
      BY <1>0, <2>2, <2>3, PushGrows
    <3> QED BY <2>1, <2>2, <3>1, PresentDrop
  <2>4. CASE ~own[h].sized
    <3>1. Free' = Free /\ s \in emptied
      BY <2>1, <2>2, <2>4 DEF Free, Sized
    <3> QED BY <2>1, <2>2, <3>1, PresentDrop
  <2> QED BY <2>3, <2>4
<1>8. ASSUME NEW h \in Handle, DropPooled(h) PROVE Present'
  <2>1. PICK s \in SlotId : s = slot_index[h]
    BY <1>8 DEF DropPooled, IInv, TypeOK
  <2>2. /\ Forget(h) /\ nslots' = nslots /\ emptied' = emptied /\ kind[h] = "pooled"
        /\ IF ref_count[s] = 1 THEN free_indices' = Append(free_indices, s)
                               ELSE free_indices' = free_indices
    BY <1>8, <2>1 DEF DropPooled, LastHandle, history
  <2>3. CASE ref_count[s] = 1
    <3>1. Free' = Free \cup {s}
      BY <1>0, <2>2, <2>3, PushGrows
    <3> QED BY <2>1, <2>2, <3>1, PresentDrop
  <2>4. CASE ref_count[s] # 1
    <3>1. Free' = Free
      BY <2>2, <2>4 DEF Free
    <3>2. h \in Pooled(s) /\ Pooled(s) # {h}
      <4>1. h \in Pooled(s) /\ Cardinality(Pooled(s)) # 1
        BY <2>1, <2>2, <2>4 DEF Pooled, IInv, RefCountExact
      <4> QED BY <4>1, FS_Singleton
    <3>3. PICK g \in Pooled(s) : g # h
      BY <3>2
    <3>4. g \in Handle \ {h} /\ Held(g) /\ slot_index[g] = s
      BY <3>3 DEF Pooled, Held
    <3> QED BY <2>1, <2>2, <3>1, <3>4, PresentDrop
  <2> QED BY <2>3, <2>4
<1>9. CASE UNCHANGED vars
  BY <1>9, PresentKept DEF vars, shared, handles, history, Free, Held
<1> QED BY <1>1, <1>2, <1>3, <1>4, <1>5, <1>6, <1>7, <1>8, <1>9 DEF Next

(* A vector loses its capacity only to a client, and wherever it goes its  *)
(* slot is remembered.                                                     *)
LEMMA SizedStep == IInv /\ Sized /\ [Next]_vars => Sized'
<1> SUFFICES ASSUME IInv, Sized, [Next]_vars PROVE Sized'
  OBVIOUS
<1>0. /\ kind \in [Handle -> {"none", "media", "pooled"}] /\ slot_index \in [Handle -> Nat]
      /\ own \in [Handle -> Vec \cup {NoVec}] /\ bytes \in [SlotId -> Vec \cup {NoVec}]
  BY DEF IInv, TypeOK
<1>1. \A v \in Vec : Cleared(v).sized = v.sized
  BY DEF Cleared, Vec
<1>2. ASSUME NEW count \in 1 .. MaxSlots, Preallocate(count) PROVE Sized'
  <2>1. \A s \in SlotId : bytes'[s] \in {FreshVec, bytes[s]}
    BY <1>2 DEF Preallocate
  <2> QED BY <1>2, <2>1 DEF Sized, Preallocate, handles, FreshVec
<1>3. ASSUME NEW h \in Handle, AcquireFree(h) PROVE Sized'
  <2>1. PICK s \in SlotId : s = free_indices[Len(free_indices)]
    BY <1>3, PopElems DEF AcquireFree, IInv, TypeOK
  <2>2. /\ bytes[s] \in Vec /\ bytes[s] # NoVec /\ Checkout(h, s, bytes[s])
        /\ bytes' = [bytes EXCEPT ![s] = NoVec] /\ emptied' = emptied
    BY <1>0, <1>3, <2>1 DEF AcquireFree
  <2>3. own'[h].sized = bytes[s].sized /\ slot_index'[h] = s
    BY <1>0, <1>1, <2>2 DEF Checkout
  <2>4. \A g \in Handle \ {h} : /\ kind'[g] = kind[g] /\ own'[g] = own[g]
                                /\ slot_index'[g] = slot_index[g]
    BY <1>0, <2>2 DEF Checkout
  <2> QED BY <1>0, <2>2, <2>3, <2>4 DEF Sized
<1>4. ASSUME NEW h \in Handle, AcquireNew(h) PROVE Sized'
  <2>1. Checkout(h, nslots, FreshVec) /\ bytes' = bytes /\ emptied' = emptied
    BY <1>4 DEF AcquireNew
  <2>2. own'[h].sized
    BY <1>0, <2>1 DEF Checkout, Cleared, FreshVec
  <2>3. \A g \in Handle \ {h} : /\ kind'[g] = kind[g] /\ own'[g] = own[g]
                                /\ slot_index'[g] = slot_index[g]
    BY <1>0, <2>1 DEF Checkout
  <2> QED BY <2>1, <2>2, <2>3 DEF Sized
<1>5. ASSUME NEW h \in Handle, TakeVec(h) PROVE Sized'
  <2>1. /\ own' = [own EXCEPT ![h] = EmptiedVec] /\ emptied' = emptied \cup {slot_index[h]}
        /\ bytes' = bytes /\ kind' = kind /\ slot_index' = slot_index
    BY <1>5 DEF TakeVec, shared
  <2> QED BY <1>0, <2>1 DEF Sized
<1>6. ASSUME NEW h \in Handle, NEW d \in Content, Extend(h, d) PROVE Sized'
  BY <1>0, <1>6 DEF Sized, Extend, shared, history
<1>7. ASSUME NEW h \in Handle, Freeze(h) PROVE Sized'
  <2>1. PICK s \in SlotId : s = slot_index[h]
    BY <1>7 DEF Freeze, IInv, TypeOK
  <2>2. /\ kind[h] = "media" /\ kind' = [kind EXCEPT ![h] = "pooled"]
        /\ bytes' = [bytes EXCEPT ![s] = own[h]] /\ own' = [own EXCEPT ![h] = NoVec]
        /\ slot_index' = slot_index /\ emptied' = emptied
    BY <1>7, <2>1 DEF Freeze, history
  <2>3. own[h].sized \/ s \in emptied
    BY <2>1, <2>2 DEF Sized
  <2> QED BY <1>0, <2>2, <2>3 DEF Sized
<1>8. ASSUME NEW h \in Handle, DropMedia(h) PROVE Sized'
  <2>1. PICK s \in SlotId : s = slot_index[h]
    BY <1>8 DEF DropMedia, IInv, TypeOK
  <2>2. /\ Forget(h) /\ emptied' = emptied /\ own[h] \in Vec
        /\ bytes' \in {bytes, [bytes EXCEPT ![s] = Cleared(own[h])]}
        /\ own[h].sized \/ bytes' = bytes
    BY <1>8, <2>1 DEF DropMedia, history, IInv, TypeOK, VectorPlaces
  <2>3. \A g \in Handle : kind'[g] = "media" =>
          kind[g] = "media" /\ own'[g] = own[g] /\ slot_index'[g] = slot_index[g]
    BY <2>2, ForgetFacts DEF IInv
  <2> QED BY <1>0, <1>1, <2>2, <2>3 DEF Sized
<1>9. ASSUME NEW h \in Handle, DropPooled(h) PROVE Sized'
  <2>1. Forget(h) /\ emptied' = emptied /\ bytes' = bytes
    BY <1>9 DEF DropPooled, history
  <2>2. \A g \in Handle : kind'[g] = "media" =>
          kind[g] = "media" /\ own'[g] = own[g] /\ slot_index'[g] = slot_index[g]
    BY <2>1, ForgetFacts DEF IInv
  <2> QED BY <2>1, <2>2 DEF Sized
<1>10. ASSUME NEW h \in Handle, NEW g \in Handle, Clone(h, g) PROVE Sized'
  BY <1>0, <1>10 DEF Sized, Clone, history
<1>11. CASE UNCHANGED <<bytes, kind, slot_index, own, emptied>>
  BY <1>11 DEF Sized
<1> QED BY <1>2, <1>3, <1>4, <1>5, <1>6, <1>7, <1>8, <1>9, <1>10, <1>11
     DEF Next, vars, shared, handles, history, BeginRead, EndRead

(* The pool grows only with demand and loses a slot only to a client that  *)
(* moved its vector out (BufferPool::acquire, preallocate, both drops).    *)
THEOREM SlotsAreAccounted == Spec => []SlotsAccounted
<1>1. Init => Accounts
  <2> SUFFICES ASSUME Init PROVE Accounts
    OBVIOUS
  <2>1. Grown /\ Present
    BY DEF Init, Grown, Present
  <2>2. Sized
    BY DEF Init, Sized
  <2> QED BY <2>1, <2>2 DEF Accounts
<1>2. IInv /\ Accounts /\ [Next]_vars => Accounts'
  BY GrownStep, SizedStep, PresentStep DEF Accounts
<1>3. IInv /\ Accounts => SlotsAccounted
  <2> SUFFICES ASSUME IInv, Accounts, NEW s \in 0 .. nslots - 1,
                      s \notin Free, Media(s) = {}, Pooled(s) = {}
               PROVE  s \in emptied
    BY DEF Accounts, Grown, SlotsAccounted
  <2>1. \A h \in Handle : Held(h) => slot_index[h] # s
    BY DEF Media, Pooled, Held, IInv, TypeOK
  <2> QED BY <2>1 DEF Accounts, Present
<1> QED BY <1>1, <1>2, <1>3, Invariance, PTL DEF Spec
-----------------------------------------------------------------------------
(***************************************************************************)
(* Refinement: every step of the pool is a step of BufferValues on the     *)
(* handles' values, or changes none of them.                               *)
(***************************************************************************)
LEMMA ValueFacts ==
  /\ valueOf = [h \in Handle |-> valueOf[h]]
  /\ \A h \in Handle :
       /\ kind[h] = "none" => valueOf[h] = Values!NoValue
       /\ kind[h] = "media" => valueOf[h] = Values!Value(TRUE, own[h].data)
       /\ kind[h] = "pooled" => valueOf[h] = Values!Value(FALSE, view[slot_index[h]].data)
BY DEF valueOf, Values!NoValue, Values!Value

LEMMA ValueFactsNext ==
  /\ valueOf' = [h \in Handle |-> valueOf'[h]]
  /\ \A h \in Handle :
       /\ kind'[h] = "none" => valueOf'[h] = Values!NoValue
       /\ kind'[h] = "media" => valueOf'[h] = Values!Value(TRUE, own'[h].data)
       /\ kind'[h] = "pooled" => valueOf'[h] = Values!Value(FALSE, view'[slot_index'[h]].data)
BY DEF valueOf, Values!NoValue, Values!Value

(* A handle keeps its value when it, and the view of its slot, are kept.   *)
LEMMA ValueKept ==
  ASSUME NEW g \in Handle, kind'[g] = kind[g], own'[g] = own[g],
         slot_index'[g] = slot_index[g],
         kind[g] \notin {"none", "media"} => view'[slot_index[g]] = view[slot_index[g]]
  PROVE  valueOf'[g] = valueOf[g]
<1> DEFINE data == IF kind[g] = "media" THEN own[g].data ELSE view[slot_index[g]].data
           data1 == IF kind'[g] = "media" THEN own'[g].data ELSE view'[slot_index'[g]].data
<1>1. valueOf[g] = IF kind[g] = "none" THEN [held |-> FALSE, mutable |-> FALSE, data |-> Blank]
                   ELSE [held |-> TRUE, mutable |-> kind[g] = "media", data |-> data]
  BY DEF valueOf
<1>2. valueOf'[g] = IF kind'[g] = "none" THEN [held |-> FALSE, mutable |-> FALSE, data |-> Blank]
                    ELSE [held |-> TRUE, mutable |-> kind'[g] = "media", data |-> data1]
  BY DEF valueOf
<1>3. CASE kind[g] = "none"
  BY <1>1, <1>2, <1>3
<1>4. CASE kind[g] = "media"
  BY <1>1, <1>2, <1>4
<1>5. CASE kind[g] \notin {"none", "media"}
  BY <1>1, <1>2, <1>5
<1> QED BY <1>3, <1>4, <1>5

LEMMA ValueUpdate ==
  ASSUME NEW h \in Handle, NEW v, valueOf'[h] = v,
         \A g \in Handle \ {h} : valueOf'[g] = valueOf[g]
  PROVE  valueOf' = [valueOf EXCEPT ![h] = v]
<1>1. [valueOf EXCEPT ![h] = v] = [g \in Handle |-> IF g = h THEN v ELSE valueOf[g]]
  BY ValueFacts
<1>2. valueOf' = [g \in Handle |-> IF g = h THEN v ELSE valueOf[g]]
  BY ValueFactsNext
<1> QED BY <1>1, <1>2

LEMMA ValuesKept ==
  ASSUME \A g \in Handle : valueOf'[g] = valueOf[g]
  PROVE  valueOf' = valueOf
BY ValueFacts, ValueFactsNext

(* Every other handle keeps its value when the view of s alone changes and *)
(* none of them reads s.                                                   *)
LEMMA OthersKept ==
  ASSUME IInv, NEW h \in Handle, NEW s \in SlotId,
         \A g \in Handle \ {h} : /\ kind'[g] = kind[g] /\ own'[g] = own[g]
                                 /\ slot_index'[g] = slot_index[g],
         \A t \in SlotId \ {s} : view'[t] = view[t],
         view'[s] = view[s] \/ \A g \in Handle \ {h} : Held(g) => slot_index[g] # s
  PROVE  \A g \in Handle \ {h} : valueOf'[g] = valueOf[g]
<1> SUFFICES ASSUME NEW g \in Handle \ {h} PROVE valueOf'[g] = valueOf[g]
  OBVIOUS
<1>1. kind[g] \notin {"none", "media"} => slot_index[g] \in SlotId /\ Held(g)
  BY DEF IInv, TypeOK, Held
<1>2. kind[g] \notin {"none", "media"} => view'[slot_index[g]] = view[slot_index[g]]
  BY <1>1
<1> QED BY <1>2, ValueKept

LEMMA CheckoutValue ==
  ASSUME IInv, NEW h \in Handle, NEW s, NEW v \in Vec, kind[h] = "none",
         Checkout(h, s, v), view' = view
  PROVE  Values!Next
<1>1. /\ kind'[h] = "media" /\ own'[h] = Cleared(v)
      /\ \A g \in Handle \ {h} : /\ kind'[g] = kind[g] /\ own'[g] = own[g]
                                 /\ slot_index'[g] = slot_index[g]
  BY DEF IInv, TypeOK, Checkout
<1>2. valueOf[h] = Values!NoValue /\ valueOf'[h] = Values!Value(TRUE, Blank)
  BY <1>1, ValueFacts, ValueFactsNext DEF Cleared, Vec
<1>3. \A g \in Handle \ {h} : valueOf'[g] = valueOf[g]
  BY <1>1, ValueKept
<1>4. Values!Create(h)
  <2>1. valueOf' = [valueOf EXCEPT ![h] = Values!Value(TRUE, Blank)]
    BY <1>2, <1>3, ValueUpdate
  <2> QED BY <1>2, <2>1 DEF Values!Create, Values!NoValue
<1> QED BY <1>4 DEF Values!Next

LEMMA WriteValue ==
  ASSUME IInv, NEW h \in Handle, NEW v \in Vec, kind[h] = "media",
         own' = [own EXCEPT ![h] = v], kind' = kind, slot_index' = slot_index, view' = view
  PROVE  Values!Next
<1>1. own'[h] = v /\ \A g \in Handle \ {h} : own'[g] = own[g]
  BY DEF IInv, TypeOK
<1>2. valueOf[h].mutable /\ valueOf'[h] = Values!Value(TRUE, v.data)
  BY <1>1, ValueFacts, ValueFactsNext DEF Values!Value
<1>3. \A g \in Handle \ {h} : valueOf'[g] = valueOf[g]
  BY <1>1, ValueKept
<1>4. v.data \in Content \cup {Blank}
  BY DEF Vec, Data
<1>5. Values!Write(h, v.data)
  BY <1>2, <1>3, ValueUpdate DEF Values!Write
<1> QED BY <1>4, <1>5 DEF Values!Next

LEMMA FreezeValue ==
  ASSUME IInv, NEW h \in Handle, Freeze(h)
  PROVE  Values!Next
<1>0. PICK s \in SlotId : s = slot_index[h]
  BY DEF Freeze, IInv, TypeOK
<1>1. /\ kind[h] = "media" /\ kind'[h] = "pooled" /\ slot_index' = slot_index
      /\ view'[s] = ViewOf(own[h]) /\ \A t \in SlotId \ {s} : view'[t] = view[t]
      /\ \A g \in Handle \ {h} : kind'[g] = kind[g] /\ own'[g] = own[g]
  BY <1>0 DEF IInv, TypeOK, Freeze
<1>2. \A g \in Handle \ {h} : Held(g) => slot_index[g] # s
  BY <1>0, <1>1 DEF IInv, Separate
<1>3. \A g \in Handle \ {h} : valueOf'[g] = valueOf[g]
  BY <1>1, <1>2, OthersKept
<1>4. valueOf[h] = Values!Value(TRUE, own[h].data)
      /\ valueOf'[h] = Values!Value(FALSE, own[h].data)
  <2>1. view'[s].data = own[h].data /\ slot_index'[h] = s
    BY <1>0, <1>1 DEF ViewOf
  <2> QED BY <1>1, <2>1, ValueFacts, ValueFactsNext
<1>5. Values!Freeze(h)
  BY <1>3, <1>4, ValueUpdate DEF Values!Freeze, Values!Value
<1> QED BY <1>5 DEF Values!Next

LEMMA CloneValue ==
  ASSUME IInv, NEW h \in Handle, NEW g \in Handle, Clone(h, g)
  PROVE  Values!Next
<1>1. /\ kind[h] = "pooled" /\ kind[g] = "none" /\ kind'[g] = "pooled"
      /\ slot_index'[g] = slot_index[h] /\ view' = view
      /\ \A k \in Handle \ {g} : /\ kind'[k] = kind[k] /\ own'[k] = own[k]
                                 /\ slot_index'[k] = slot_index[k]
  BY DEF IInv, TypeOK, Clone
<1>2. \A k \in Handle \ {g} : valueOf'[k] = valueOf[k]
  BY <1>1, ValueKept
<1>3. /\ valueOf[h] = Values!Value(FALSE, view[slot_index[h]].data)
      /\ valueOf'[g] = valueOf[h] /\ valueOf[g] = Values!NoValue
  BY <1>1, ValueFacts, ValueFactsNext
<1>4. Values!Clone(h, g)
  BY <1>2, <1>3, ValueUpdate DEF Values!Clone, Values!Value, Values!NoValue
<1> QED BY <1>4 DEF Values!Next

LEMMA DropValue ==
  ASSUME IInv, NEW h \in Handle, DropMedia(h) \/ DropPooled(h)
  PROVE  Values!Next
<1>0. PICK s \in SlotId : s = slot_index[h]
  BY DEF DropMedia, DropPooled, IInv, TypeOK
<1>1. /\ kind'[h] = "none" /\ Held(h)
      /\ \A g \in Handle \ {h} : /\ kind'[g] = kind[g] /\ own'[g] = own[g]
                                 /\ slot_index'[g] = slot_index[g]
  BY ForgetFacts DEF DropMedia, DropPooled, IInv, Held
<1>2. \A t \in SlotId \ {s} : view'[t] = view[t]
  BY <1>0 DEF DropMedia, DropPooled, IInv, TypeOK
<1>3. view'[s] = view[s] \/ \A g \in Handle \ {h} : Held(g) => slot_index[g] # s
  <2> SUFFICES ASSUME DropPooled(h), ref_count[s] = 1, NEW g \in Handle \ {h}, Held(g),
                      slot_index[g] = s
               PROVE  FALSE
    BY <1>0 DEF DropMedia, DropPooled, LastHandle
  <2>1. Pooled(s) = {h} /\ kind[h] = "pooled"
    BY <1>0, LastHandleAlone DEF DropPooled
  <2>2. kind[g] # "media"
    BY <1>0, <1>1 DEF IInv, Separate
  <2>3. g \in Pooled(s)
    BY <2>2 DEF Pooled, Held, IInv, TypeOK
  <2> QED BY <2>1, <2>3
<1>4. \A g \in Handle \ {h} : valueOf'[g] = valueOf[g]
  BY <1>1, <1>2, <1>3, OthersKept
<1>5. valueOf[h].held /\ valueOf'[h] = Values!NoValue
  <2>1. kind[h] \in {"media", "pooled"}
    BY <1>1 DEF Held, IInv, TypeOK
  <2> QED BY <1>1, <2>1, ValueFacts, ValueFactsNext DEF Values!Value
<1>6. Values!Drop(h)
  BY <1>4, <1>5, ValueUpdate DEF Values!Drop
<1> QED BY <1>6 DEF Values!Next

LEMMA RefinementStep == IInv /\ [Next]_vars => [Values!Next]_valueOf
<1> SUFFICES ASSUME IInv, [Next]_vars PROVE [Values!Next]_valueOf
  OBVIOUS
<1>1. ASSUME NEW count \in 1 .. MaxSlots, Preallocate(count) PROVE valueOf' = valueOf
  BY <1>1, ValueKept, ValuesKept DEF Preallocate, handles
<1>2. ASSUME NEW h \in Handle, AcquireFree(h) PROVE Values!Next
  <2>1. bytes[free_indices[Len(free_indices)]] \in Vec
    <3>1. free_indices[Len(free_indices)] \in SlotId
      BY <1>2, PopElems DEF AcquireFree, IInv, TypeOK
    <3> QED BY <1>2, <3>1 DEF AcquireFree, IInv, TypeOK
  <2> QED BY <1>2, <2>1, CheckoutValue DEF AcquireFree
<1>3. ASSUME NEW h \in Handle, AcquireNew(h) PROVE Values!Next
  BY <1>3, VecFacts, CheckoutValue DEF AcquireNew
<1>4. ASSUME NEW h \in Handle, TakeVec(h) PROVE Values!Next
  BY <1>4, VecFacts, WriteValue DEF TakeVec, shared
<1>5. ASSUME NEW h \in Handle, NEW d \in Content, Extend(h, d) PROVE Values!Next
  <2>1. [sized |-> TRUE, data |-> d] \in Vec
    BY DEF Vec, Data
  <2> QED BY <1>5, <2>1, WriteValue DEF Extend, shared
<1>6. ASSUME NEW h \in Handle, Freeze(h) PROVE Values!Next
  BY <1>6, FreezeValue
<1>7. ASSUME NEW h \in Handle, DropMedia(h) \/ DropPooled(h) PROVE Values!Next
  BY <1>7, DropValue
<1>8. ASSUME NEW h \in Handle, BeginRead(h) \/ EndRead(h) PROVE valueOf' = valueOf
  BY <1>8, ValueKept, ValuesKept DEF BeginRead, EndRead, shared
<1>9. ASSUME NEW h \in Handle, NEW g \in Handle, Clone(h, g) PROVE Values!Next
  BY <1>9, CloneValue
<1>10. CASE UNCHANGED vars
  BY <1>10, ValueKept, ValuesKept DEF vars, shared, handles
<1> QED BY <1>1, <1>2, <1>3, <1>4, <1>5, <1>6, <1>7, <1>8, <1>9, <1>10 DEF Next

(* The pool implements one independent value per handle: sharing slots,    *)
(* counting references and reusing vectors is invisible to its users.      *)
THEOREM PoolImplementsValues == Spec => ImplementsValues
<1>1. Init => Values!Init
  <2> SUFFICES ASSUME Init PROVE Values!Init
    OBVIOUS
  <2>1. \A h \in Handle : valueOf[h] = Values!NoValue
    BY ValueFacts DEF Init
  <2> QED BY <2>1, ValueFacts DEF Values!Init
<1> QED BY <1>1, Invariance, RefinementStep, PTL DEF Spec, ImplementsValues, Values!Spec
=============================================================================
