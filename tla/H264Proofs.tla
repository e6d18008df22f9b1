----------------------------- MODULE H264Proofs -----------------------------
(***************************************************************************)
(* What an attempt sends for an H.264 packet has the packet's units, for   *)
(* any stream (StreamConstants): UnitsKept.  The operators of H264 recurse *)
(* over the bytes of a payload; each such recursion has a solution, and    *)
(* only one (Recursion, OneRecursion: of two that differ, take the place   *)
(* nearest the end where they do), and what the solution is follows by the *)
(* least place where it would be something else.                           *)
(*   - UnitsJoin: the units of bytes put together are those of the one,    *)
(*     then those of the other, when the other begins with a start code;   *)
(*   - AvccConverts: so avcc_to_annex_b keeps the units;                   *)
(*   - ScanFinds, TypesAgree: annex_b_parameter_sets finds the parameter   *)
(*     sets there are;                                                     *)
(*   - AvccAmbiguous: only the lengths of Ambiguous read as start codes.   *)
(* A step of an attempt normalizes a packet of its stream with the         *)
(* configuration of that stream's extradata (PInv); the rest is those.     *)
(***************************************************************************)
EXTENDS IngestProofs
-----------------------------------------------------------------------------
(* A recursive definition over D: where i is in T the value is made from   *)
(* the one at next[i], which is nearer the end, and elsewhere it is given. *)
Descends(D, M, rank, R, T, next, step, base) ==
  /\ M \in Nat /\ rank \in [D -> 0 .. M] /\ T \in SUBSET D
  /\ next \in [T -> D] /\ step \in [T -> [R -> R]] /\ base \in [D -> R]
  /\ \A i \in T : rank[next[i]] < rank[i]
Solves(f, D, T, next, step, base) ==
  \A i \in D : f[i] = IF i \in T THEN step[i][f[next[i]]] ELSE base[i]

(* A function exists that solves it.                                       *)
LEMMA Recursion ==
  ASSUME NEW D, NEW M, NEW rank, NEW R, NEW T, NEW next, NEW step, NEW base,
         Descends(D, M, rank, R, T, next, step, base)
  PROVE  \E f \in [D -> R] : Solves(f, D, T, next, step, base)
<1> SUFFICES ASSUME M \in Nat, rank \in [D -> 0 .. M], T \in SUBSET D,
                    next \in [T -> D], step \in [T -> [R -> R]], base \in [D -> R],
                    \A i \in T : rank[next[i]] < rank[i]
             PROVE  \E f \in [D -> R] : \A i \in D :
                      f[i] = IF i \in T THEN step[i][f[next[i]]] ELSE base[i]
  BY DEF Descends, Solves
<1> DEFINE Near(k) == {i \in D : rank[i] <= k}
           Good(f, k) == \A i \in Near(k) : f[i] = IF i \in T THEN step[i][f[next[i]]] ELSE base[i]
           Upto(k) == \E f \in [D -> R] : Good(f, k)
           Fails == {k \in 0 .. M : ~Upto(k)}
<1>1. Upto(M) => \E f \in [D -> R] : \A i \in D : f[i] = IF i \in T THEN step[i][f[next[i]]] ELSE base[i]
  <2>1. \A i \in D : rank[i] <= M
    OBVIOUS
  <2>2. Near(M) = D
    BY <2>1
  <2> HIDE DEF Near
  <2> QED BY <2>2
<1> SUFFICES ASSUME Fails # {} PROVE FALSE
  <2>1. M \in 0 .. M
    OBVIOUS
  <2> HIDE DEF Upto
  <2> QED BY <1>1, <2>1
<1>2. PICK k \in Fails : \A j \in Fails : k <= j
  <2>1. Fails \subseteq Nat
    OBVIOUS
  <2> HIDE DEF Fails
  <2> QED BY <2>1, LeastPlace
<1>3. k \in 0 .. M /\ ~Upto(k)
  BY <1>2
<1>4. PICK g \in [D -> R] : k # 0 => Good(g, k - 1)
  <2>1. CASE k = 0
    BY <2>1
  <2>2. CASE k # 0
    <3>1. k - 1 \in 0 .. M /\ ~(k <= k - 1)
      BY <1>3, <2>2
    <3>2. Upto(k - 1)
      <4> HIDE DEF Upto
      <4> QED BY <1>2, <3>1
    <3> HIDE DEF Good
    <3> QED BY <3>2
  <2> QED BY <2>1, <2>2
<1> DEFINE f == [i \in D |-> IF rank[i] = k THEN (IF i \in T THEN step[i][g[next[i]]] ELSE base[i]) ELSE g[i]]
<1>5. f \in [D -> R]
  <2>1. ASSUME NEW i \in T PROVE step[i][g[next[i]]] \in R
    <3>1. g[next[i]] \in R /\ step[i] \in [R -> R]
      OBVIOUS
    <3> QED BY <3>1
  <2> QED BY <2>1
<1>6. ASSUME NEW i \in D, rank[i] <= k
      PROVE  f[i] = IF i \in T THEN step[i][f[next[i]]] ELSE base[i]
  <2>1. i \in T => next[i] \in D /\ rank[next[i]] \in 0 .. M /\ rank[i] \in 0 .. M /\ rank[next[i]] < rank[i]
    OBVIOUS
  <2>2. i \in T => f[next[i]] = g[next[i]]
    <3>1. i \in T => next[i] \in D /\ rank[next[i]] # k
      BY <1>3, <1>6, <2>1
    <3> QED BY <3>1
  <2>3. CASE rank[i] = k
    BY <2>2, <2>3
  <2>4. CASE rank[i] # k
    <3>1. rank[i] \in 0 .. M /\ k # 0 /\ rank[i] <= k - 1
      <4>1. rank[i] \in 0 .. M
        OBVIOUS
      <4> QED BY <1>3, <1>6, <2>4, <4>1
    <3>2. i \in Near(k - 1)
      BY <3>1
    <3>3. g[i] = IF i \in T THEN step[i][g[next[i]]] ELSE base[i]
      BY <1>4, <3>1, <3>2
    <3>4. f[i] = g[i]
      BY <2>4
    <3> HIDE DEF f
    <3> QED BY <2>2, <3>3, <3>4
  <2> QED BY <2>3, <2>4
<1> HIDE DEF f
<1>7. Upto(k)
  BY <1>5, <1>6
<1> QED BY <1>3, <1>7

(* It is the only one.                                                     *)
LEMMA OneRecursion ==
  ASSUME NEW D, NEW M, NEW rank, NEW R, NEW T, NEW next, NEW step, NEW base,
         Descends(D, M, rank, R, T, next, step, base),
         NEW f \in [D -> R], Solves(f, D, T, next, step, base),
         NEW g, \A i \in D \ T : g[i] = base[i],
         \A i \in T : g[next[i]] \in R => g[i] = step[i][g[next[i]]]
  PROVE  \A i \in D : g[i] = f[i]
<1>0. /\ M \in Nat /\ rank \in [D -> 0 .. M] /\ T \in SUBSET D
      /\ next \in [T -> D] /\ step \in [T -> [R -> R]] /\ base \in [D -> R]
      /\ \A i \in T : rank[next[i]] < rank[i]
      /\ \A i \in D : f[i] = IF i \in T THEN step[i][f[next[i]]] ELSE base[i]
  BY DEF Descends, Solves
<1> USE <1>0
<1> DEFINE Fails == {rank[i] : i \in {j \in D : g[j] # f[j]}}
<1> SUFFICES ASSUME Fails # {} PROVE FALSE
  OBVIOUS
<1>1. PICK k \in Fails : \A j \in Fails : k <= j
  <2>1. Fails \subseteq Nat
    OBVIOUS
  <2> HIDE DEF Fails
  <2> QED BY <2>1, LeastPlace
<1>2. PICK i \in D : g[i] # f[i] /\ rank[i] = k
  BY <1>1
<1>3. i \in T
  BY <1>2
<1>4. next[i] \in D /\ rank[next[i]] \in 0 .. M /\ rank[i] \in 0 .. M /\ rank[next[i]] < rank[i]
  BY <1>3
<1>5. rank[next[i]] \notin Fails
  <2> HIDE DEF Fails
  <2> QED BY <1>1, <1>2, <1>4
<1>6. g[next[i]] = f[next[i]]
  BY <1>4, <1>5
<1>7. f[next[i]] \in R
  BY <1>4
<1> QED BY <1>2, <1>3, <1>6, <1>7
-----------------------------------------------------------------------------
(* Start codes and the units between them.                                 *)
LEMMA BytesAt ==
  ASSUME NEW b \in Seq(Byte)
  PROVE  Len(b) \in Nat /\ DOMAIN b = 1 .. Len(b) /\ \A i \in 1 .. Len(b) : b[i] \in 0 .. 255
BY LenProperties, ElementOfSeq DEF Byte

LEMMA StartAt ==
  ASSUME NEW b \in Seq(Byte), NEW i \in 1 .. Len(b) - 2
  PROVE  SubSeq(b, i, i + 2) = ShortStartCode <=> b[i] = 0 /\ b[i + 1] = 0 /\ b[i + 2] = 1
<1> DEFINE s == SubSeq(b, i, i + 2)
<1>1. i \in Int /\ i + 2 \in Int /\ (i + 2) - i + 1 = 3 /\ i <= i + 2
  BY BytesAt
<1>2. ASSUME NEW j \in i .. i + 2 PROVE b[j] \in Byte
  <2>1. Len(b) \in Nat
    BY BytesAt
  <2>2. j \in 1 .. Len(b)
    BY <2>1
  <2> QED BY <2>2, BytesAt DEF Byte
<1>3. s \in Seq(Byte) /\ Len(s) = 3 /\ \A k \in 1 .. 3 : s[k] = b[i + k - 1]
  <2> DEFINE e == i + 2
  <2>1. i \in Int /\ e \in Int /\ e - i + 1 = 3 /\ i <= e /\ s = SubSeq(b, i, e)
    BY <1>1
  <2>2. \A j \in i .. e : b[j] \in Byte
    BY <1>2
  <2> HIDE DEF e, s
  <2>3. /\ SubSeq(b, i, e) \in Seq(Byte) /\ Len(SubSeq(b, i, e)) = IF i <= e THEN e - i + 1 ELSE 0
        /\ \A k \in 1 .. e - i + 1 : SubSeq(b, i, e)[k] = b[i + k - 1]
    BY <2>1, <2>2, SubSeqProperties
  <2> QED BY <2>1, <2>3
<1> HIDE DEF s
<1>4. i + 1 - 1 = i /\ i + 2 - 1 = i + 1 /\ i + 3 - 1 = i + 2
  BY BytesAt
<1>5. s[1] = b[i] /\ s[2] = b[i + 1] /\ s[3] = b[i + 2]
  BY <1>3, <1>4
<1>6. DOMAIN s = 1 .. 3
  BY <1>3, LenProperties
<1>7. s = <<s[1], s[2], s[3]>>
  BY <1>3, <1>6
<1> QED BY <1>5, <1>7 DEF ShortStartCode, s

LEMMA StartsAre ==
  ASSUME NEW b \in Seq(Byte)
  PROVE  \A i : i \in Starts(b) <=> i \in 1 .. Len(b) - 2 /\ b[i] = 0 /\ b[i + 1] = 0 /\ b[i + 2] = 1
BY StartAt DEF Starts

LEMMA CodeAt ==
  ASSUME NEW b \in Seq(Byte), NEW i \in 1 .. Len(b) - 3
  PROVE  SubSeq(b, i, i + 3) = StartCode <=>
           b[i] = 0 /\ b[i + 1] = 0 /\ b[i + 2] = 0 /\ b[i + 3] = 1
<1> DEFINE s == SubSeq(b, i, i + 3)
<1>1. i \in Int /\ i + 3 \in Int /\ (i + 3) - i + 1 = 4 /\ i <= i + 3
  BY BytesAt
<1>2. ASSUME NEW j \in i .. i + 3 PROVE b[j] \in Byte
  <2>1. Len(b) \in Nat
    BY BytesAt
  <2>2. j \in 1 .. Len(b)
    BY <2>1
  <2> QED BY <2>2, BytesAt DEF Byte
<1>3. s \in Seq(Byte) /\ Len(s) = 4 /\ \A k \in 1 .. 4 : s[k] = b[i + k - 1]
  <2> DEFINE e == i + 3
  <2>1. i \in Int /\ e \in Int /\ e - i + 1 = 4 /\ i <= e /\ s = SubSeq(b, i, e)
    BY <1>1
  <2>2. \A j \in i .. e : b[j] \in Byte
    BY <1>2
  <2> HIDE DEF e, s
  <2>3. /\ SubSeq(b, i, e) \in Seq(Byte) /\ Len(SubSeq(b, i, e)) = IF i <= e THEN e - i + 1 ELSE 0
        /\ \A k \in 1 .. e - i + 1 : SubSeq(b, i, e)[k] = b[i + k - 1]
    BY <2>1, <2>2, SubSeqProperties
  <2> QED BY <2>1, <2>3
<1> HIDE DEF s
<1>4. i + 1 - 1 = i /\ i + 2 - 1 = i + 1 /\ i + 3 - 1 = i + 2 /\ i + 4 - 1 = i + 3
  BY BytesAt
<1>5. s[1] = b[i] /\ s[2] = b[i + 1] /\ s[3] = b[i + 2] /\ s[4] = b[i + 3]
  BY <1>3, <1>4
<1>6. DOMAIN s = 1 .. 4
  BY <1>3, LenProperties
<1>7. s = <<s[1], s[2], s[3], s[4]>>
  BY <1>3, <1>6
<1> QED BY <1>5, <1>7 DEF StartCode, s

(* A payload that looks like Annex B begins with a start code.             *)
LEMMA AnnexBStarts ==
  ASSUME NEW b \in Seq(Byte), LooksLikeAnnexB(b)
  PROVE  /\ Len(b) >= 3 /\ b[1] = 0 /\ b[2] = 0
         /\ \/ b[3] = 1 /\ 1 \in Starts(b)
            \/ b[3] = 0 /\ 2 \in Starts(b) /\ 1 \notin Starts(b)
<1>0. Len(b) \in Nat
  BY BytesAt
<1>1. CASE IsPrefix(StartCode, b)
  <2>1. Len(StartCode) = 4 /\ SubSeq(StartCode, 1, 4) = StartCode
    <3>1. StartCode \in Seq(Byte) /\ Len(StartCode) = 4
      BY DEF StartCode, Byte
    <3> QED BY <3>1, SubSeqFull
  <2>2. Len(b) >= 4 /\ SubSeq(b, 1, 4) = StartCode
    BY <1>0, <1>1, <2>1 DEF IsPrefix
  <2>3. 1 \in 1 .. Len(b) - 3 /\ 1 + 3 = 4
    BY <1>0, <2>2
  <2>4. b[1] = 0 /\ b[2] = 0 /\ b[3] = 0 /\ b[4] = 1
    BY <2>2, <2>3, CodeAt
  <2>5. 2 \in Starts(b)
    BY <1>0, <2>2, <2>4, StartsAre
  <2>6. 1 \notin Starts(b)
    BY <2>4, StartsAre
  <2> QED BY <1>0, <2>2, <2>4, <2>5, <2>6
<1>2. CASE IsPrefix(ShortStartCode, b)
  <2>1. Len(ShortStartCode) = 3 /\ SubSeq(ShortStartCode, 1, 3) = ShortStartCode
    <3>1. ShortStartCode \in Seq(Byte) /\ Len(ShortStartCode) = 3
      BY DEF ShortStartCode, Byte
    <3> QED BY <3>1, SubSeqFull
  <2>2. Len(b) >= 3 /\ SubSeq(b, 1, 3) = ShortStartCode
    BY <1>0, <1>2, <2>1 DEF IsPrefix
  <2>3. 1 \in 1 .. Len(b) - 2 /\ 1 + 2 = 3
    BY <1>0, <2>2
  <2>4. b[1] = 0 /\ b[2] = 0 /\ b[3] = 1
    BY <2>2, <2>3, StartAt
  <2>5. 1 \in Starts(b)
    BY <2>2, <2>3 DEF Starts
  <2> QED BY <2>2, <2>4, <2>5
<1> QED BY <1>1, <1>2 DEF LooksLikeAnnexB

(* The first and the last of numbers.                                      *)
LEMMA LeastIs ==
  ASSUME NEW T, T \subseteq Nat, NEW m \in T, \A j \in T : m <= j
  PROVE  Min(T) = m
<1> DEFINE c == CHOOSE x \in T : \A y \in T : x =< y
<1>1. c \in T /\ \A y \in T : c <= y
  OBVIOUS
<1>2. Min(T) = c
  BY DEF Min
<1> HIDE DEF c
<1>3. c <= m /\ m <= c /\ c \in Nat /\ m \in Nat
  BY <1>1
<1> QED BY <1>2, <1>3

LEMMA GreatestIs ==
  ASSUME NEW T, T \subseteq Nat, NEW m \in T, \A j \in T : m >= j
  PROVE  Max(T) = m
<1> DEFINE c == CHOOSE x \in T : \A y \in T : x >= y
<1>1. c \in T /\ \A y \in T : c >= y
  OBVIOUS
<1>2. Max(T) = c
  BY DEF Max
<1> HIDE DEF c
<1>3. c >= m /\ m >= c /\ c \in Nat /\ m \in Nat
  BY <1>1
<1> QED BY <1>2, <1>3

LEMMA GreatestPlace ==
  ASSUME NEW T, NEW n \in Nat, T \subseteq 0 .. n, T # {}
  PROVE  \E i \in T : \A j \in T : i >= j
<1> DEFINE U == {k \in 0 .. n : n - k \in T}
<1>1. U \subseteq Nat /\ U # {}
  <2>1. PICK x \in T : TRUE
    OBVIOUS
  <2>2. x \in 0 .. n
    BY <2>1
  <2>3. n - x \in 0 .. n /\ n - (n - x) = x
    BY <2>2
  <2>4. n - x \in U
    BY <2>1, <2>3
  <2>5. U \subseteq 0 .. n /\ 0 .. n \subseteq Nat
    OBVIOUS
  <2> HIDE DEF U
  <2> QED BY <2>4, <2>5
<1>2. PICK k \in U : \A j \in U : k <= j
  <2> HIDE DEF U
  <2> QED BY <1>1, LeastPlace
<1>3. k \in 0 .. n /\ n - k \in T
  BY <1>2
<1>4. ASSUME NEW j \in T PROVE n - k >= j
  <2>1. j \in 0 .. n /\ n - j \in 0 .. n /\ n - (n - j) = j
    OBVIOUS
  <2>2. n - j \in U
    BY <2>1
  <2> HIDE DEF U
  <2>3. k <= n - j
    BY <1>2, <2>2
  <2> QED BY <1>3, <2>1, <2>3
<1> QED BY <1>3, <1>4

(* Where the unit behind a start code stops, and where it ends.            *)
StopsAt(b, i, s) ==
  /\ s \in i + 2 .. Len(b) /\ \A j \in i + 1 .. s : j \notin Starts(b)
  /\ s = Len(b) \/ s + 1 \in Starts(b)
LastsTo(b, i, l) ==
  /\ l \in i + 2 .. StopAt(b, i) /\ (b[l] # 0 \/ l = i + 2)
  /\ \A j \in l + 1 .. StopAt(b, i) : b[j] = 0

LEMMA StopIs ==
  ASSUME NEW b \in Seq(Byte), NEW i \in Starts(b)
  PROVE  /\ StopsAt(b, i, StopAt(b, i))
         /\ \A s : StopsAt(b, i, s) => StopAt(b, i) = s
<1> DEFINE following == {j \in Starts(b) : j > i}
<1>1. /\ Len(b) \in Nat /\ i \in 1 .. Len(b) - 2 /\ b[i + 2] = 1
      /\ \A j \in Starts(b) : j \in 1 .. Len(b) - 2 /\ b[j] = 0 /\ b[j + 1] = 0
  BY BytesAt, StartsAre
<1>2. \A j \in Starts(b) : j # i + 1 /\ j # i + 2
  <2>1. \A j \in Starts(b) : j = i + 1 => j + 1 = i + 2
    BY <1>1
  <2> QED BY <1>1, <2>1
<1>3. StopAt(b, i) = IF following = {} THEN Len(b) ELSE Min(following) - 1
  BY DEF StopAt
<1>4. following \subseteq Nat
  <2>1. \A j \in Starts(b) : j \in Nat
    BY <1>1
  <2> QED BY <2>1
<1>5. ASSUME NEW s, StopsAt(b, i, s) PROVE StopAt(b, i) = s
  <2>1. s \in i + 2 .. Len(b) /\ (\A j \in i + 1 .. s : j \notin Starts(b)) /\ (s = Len(b) \/ s + 1 \in Starts(b))
    BY <1>5 DEF StopsAt
  <2>2. \A j \in following : j \notin i + 1 .. s /\ j > i /\ j \in 1 .. Len(b) - 2
    BY <1>1, <2>1
  <2>3. \A j \in following : j >= s + 1 /\ j <= Len(b) - 2
    BY <1>1, <2>1, <2>2
  <2>4. CASE s + 1 \in Starts(b)
    <3>1. s + 1 \in following /\ s + 1 > i
      BY <1>1, <2>1, <2>4
    <3>2. Min(following) = s + 1
      <4> HIDE DEF following
      <4>1. \A j \in following : s + 1 <= j
        BY <1>4, <2>1, <2>3, <1>1
      <4> QED BY <1>4, <3>1, <4>1, LeastIs
    <3> HIDE DEF following
    <3> QED BY <1>1, <1>3, <2>1, <3>1, <3>2
  <2>5. CASE s = Len(b)
    <3>1. following = {}
      <4> HIDE DEF following
      <4> QED BY <1>1, <1>4, <2>3, <2>5
    <3> QED BY <1>3, <2>5, <3>1
  <2> QED BY <2>1, <2>4, <2>5
<1>6. \E s : StopsAt(b, i, s)
  <2>1. CASE following = {}
    <3>1. \A j \in i + 1 .. Len(b) : j \notin Starts(b)
      BY <1>1, <2>1
    <3> QED BY <1>1, <3>1 DEF StopsAt
  <2>2. CASE following # {}
    <3>1. PICK m \in following : \A j \in following : m <= j
      <4> HIDE DEF following
      <4> QED BY <1>4, <2>2, LeastPlace
    <3>2. m \in Starts(b) /\ m > i /\ m # i + 1 /\ m # i + 2 /\ m \in 1 .. Len(b) - 2
      BY <1>1, <1>2
    <3>3. m - 1 \in i + 2 .. Len(b) /\ m - 1 + 1 = m
      BY <1>1, <3>2
    <3>4. ASSUME NEW j \in i + 1 .. m - 1, j \in Starts(b) PROVE FALSE
      <4>1. j \in following /\ ~(m <= j)
        BY <1>1, <3>2, <3>4
      <4> HIDE DEF following
      <4> QED BY <3>1, <4>1
    <3>5. StopsAt(b, i, m - 1)
      <4>1. \A j \in i + 1 .. m - 1 : j \notin Starts(b)
        BY <3>4
      <4> QED BY <3>2, <3>3, <4>1 DEF StopsAt
    <3> QED BY <3>5
  <2> QED BY <2>1, <2>2
<1> QED BY <1>5, <1>6

LEMMA LastIs ==
  ASSUME NEW b \in Seq(Byte), NEW i \in Starts(b)
  PROVE  /\ LastsTo(b, i, LastAt(b, i))
         /\ \A l : LastsTo(b, i, l) => LastAt(b, i) = l
<1> DEFINE n == StopAt(b, i)
           T == {j \in i + 2 .. n : b[j] # 0 \/ j = i + 2}
<1>1. Len(b) \in Nat /\ i \in Nat /\ n \in i + 2 .. Len(b)
  <2> HIDE DEF n
  <2>1. Len(b) \in Nat /\ i \in 1 .. Len(b) - 2
    BY BytesAt, StartsAre
  <2> QED BY <2>1, StopIs DEF StopsAt, n
<1>2. LastAt(b, i) = Max(T)
  BY DEF LastAt
<1> HIDE DEF n
<1>3. T \subseteq Nat /\ T \subseteq 0 .. n /\ n \in Nat /\ i + 2 \in T
  BY <1>1
<1>4. PICK m \in T : \A j \in T : m >= j
  <2> HIDE DEF T
  <2>1. T # {}
    BY <1>3
  <2> QED BY <1>3, <2>1, GreatestPlace
<1>5. Max(T) = m
  <2> HIDE DEF T
  <2> QED BY <1>3, <1>4, GreatestIs
<1>6. LastsTo(b, i, m)
  <2>1. m \in i + 2 .. n /\ (b[m] # 0 \/ m = i + 2)
    BY <1>4
  <2>2. ASSUME NEW j \in m + 1 .. n PROVE b[j] = 0
    <3>1. j \in i + 2 .. n /\ ~(m >= j)
      BY <1>1, <2>1
    <3> QED BY <1>4, <3>1
  <2> QED BY <2>1, <2>2 DEF LastsTo, n
<1>7. ASSUME NEW l, LastsTo(b, i, l) PROVE LastAt(b, i) = l
  <2>1. l \in i + 2 .. n /\ (b[l] # 0 \/ l = i + 2) /\ \A j \in l + 1 .. n : b[j] = 0
    BY <1>7 DEF LastsTo, n
  <2>2. l \in T
    BY <2>1
  <2>3. ASSUME NEW j \in T PROVE l >= j
    <3>1. j \in i + 2 .. n /\ (b[j] # 0 \/ j = i + 2)
      OBVIOUS
    <3>2. j \notin l + 1 .. n
      BY <1>1, <2>1, <3>1
    <3> QED BY <1>1, <2>1, <3>1, <3>2
  <2>4. Max(T) = l
    <3> HIDE DEF T
    <3> QED BY <1>3, <2>2, <2>3, GreatestIs
  <2> QED BY <1>2, <2>4
<1> QED BY <1>2, <1>5, <1>6, <1>7
-----------------------------------------------------------------------------
UnitFits(b, i) ==
  /\ LastAt(b, i) \in i + 2 .. Len(b)
  /\ UnitAt(b, i) \in Seq(Byte) /\ Len(UnitAt(b, i)) = LastAt(b, i) - i - 2
  /\ \A k \in 1 .. LastAt(b, i) - i - 2 : UnitAt(b, i)[k] = b[i + 2 + k]

LEMMA UnitIs == ASSUME NEW b \in Seq(Byte), NEW i \in Starts(b) PROVE UnitFits(b, i)
<1> DEFINE l == LastAt(b, i)
<1>1. Len(b) \in Nat /\ i \in 1 .. Len(b) - 2
  BY BytesAt, StartsAre
<1>2. l \in i + 2 .. Len(b)
  <2>1. StopAt(b, i) \in i + 2 .. Len(b) /\ l \in i + 2 .. StopAt(b, i)
    BY StopIs, LastIs DEF StopsAt, LastsTo
  <2> HIDE DEF l
  <2> QED BY <1>1, <2>1
<1>3. UnitAt(b, i) = SubSeq(b, i + 3, l)
  BY DEF UnitAt
<1> HIDE DEF l
<1>4. i + 3 \in Int /\ l \in Int /\ l - (i + 3) + 1 = l - i - 2
  BY <1>1, <1>2
<1>5. ASSUME NEW j \in i + 3 .. l PROVE b[j] \in Byte
  <2>1. j \in 1 .. Len(b)
    BY <1>1, <1>2
  <2> QED BY <2>1, BytesAt DEF Byte
<1>6. /\ UnitAt(b, i) \in Seq(Byte)
      /\ Len(UnitAt(b, i)) = IF i + 3 <= l THEN l - (i + 3) + 1 ELSE 0
      /\ \A k \in 1 .. l - (i + 3) + 1 : UnitAt(b, i)[k] = b[i + 3 + k - 1]
  BY <1>3, <1>4, <1>5, SubSeqProperties
<1>7. Len(UnitAt(b, i)) = l - i - 2
  BY <1>1, <1>2, <1>6
<1>8. ASSUME NEW k \in 1 .. l - i - 2 PROVE UnitAt(b, i)[k] = b[i + 2 + k]
  <2>1. i + 3 + k - 1 = i + 2 + k
    BY <1>1
  <2> QED BY <1>4, <1>6, <2>1
<1> QED BY <1>2, <1>6, <1>7, <1>8 DEF UnitFits, l

(* Two units of the same bytes are the same.                               *)
LEMMA SameUnit ==
  ASSUME NEW a \in Seq(Byte), NEW b \in Seq(Byte), NEW n \in Nat,
         NEW i \in Starts(a), n + i \in Starts(b), LastAt(b, n + i) = n + LastAt(a, i),
         \A k \in i + 3 .. LastAt(a, i) : a[k] = b[n + k]
  PROVE  UnitAt(b, n + i) = UnitAt(a, i)
<1>1. UnitFits(a, i) /\ UnitFits(b, n + i)
  BY UnitIs
<1>2. i \in Nat /\ LastAt(a, i) \in i + 2 .. Len(a) /\ Len(a) \in Nat
  BY <1>1, StartsAre, BytesAt DEF UnitFits
<1> DEFINE m == LastAt(a, i) - i - 2
<1>3. m \in Nat /\ LastAt(b, n + i) - (n + i) - 2 = m
  BY <1>2
<1>4. /\ UnitAt(a, i) \in Seq(Byte) /\ Len(UnitAt(a, i)) = m
      /\ UnitAt(b, n + i) \in Seq(Byte) /\ Len(UnitAt(b, n + i)) = m
      /\ \A k \in 1 .. m : UnitAt(a, i)[k] = a[i + 2 + k] /\ UnitAt(b, n + i)[k] = b[n + i + 2 + k]
  BY <1>1, <1>3 DEF UnitFits
<1>5. ASSUME NEW k \in 1 .. m PROVE UnitAt(a, i)[k] = UnitAt(b, n + i)[k]
  <2>1. i + 2 + k \in i + 3 .. LastAt(a, i) /\ n + (i + 2 + k) = n + i + 2 + k
    BY <1>2, <1>3
  <2> QED BY <1>4, <2>1
<1> HIDE DEF m
<1> QED BY <1>4, <1>5, SeqEqual

(* Bytes joined: each half keeps its start codes, if the second begins     *)
(* with one.                                                               *)
Joins(b) == b = <<>> \/ LooksLikeAnnexB(b)

LEMMA JoinBytes ==
  ASSUME NEW a \in Seq(Byte), NEW b \in Seq(Byte)
  PROVE  /\ a \o b \in Seq(Byte) /\ Len(a \o b) = Len(a) + Len(b)
         /\ Len(a) \in Nat /\ Len(b) \in Nat
         /\ \A i \in 1 .. Len(a) : (a \o b)[i] = a[i]
         /\ \A j \in 1 .. Len(b) : (a \o b)[Len(a) + j] = b[j]
<1>1. /\ a \o b \in Seq(Byte) /\ Len(a \o b) = Len(a) + Len(b) /\ Len(a) \in Nat /\ Len(b) \in Nat
      /\ \A i \in 1 .. Len(a) + Len(b) :
           (a \o b)[i] = IF i <= Len(a) THEN a[i] ELSE b[i - Len(a)]
  BY ConcatProperties, LenProperties
<1>2. ASSUME NEW j \in 1 .. Len(b) PROVE (a \o b)[Len(a) + j] = b[j]
  <2>1. Len(a) + j \in 1 .. Len(a) + Len(b) /\ ~(Len(a) + j <= Len(a)) /\ Len(a) + j - Len(a) = j
    BY <1>1
  <2> QED BY <1>1, <2>1
<1>3. ASSUME NEW i \in 1 .. Len(a) PROVE (a \o b)[i] = a[i]
  <2>1. i \in 1 .. Len(a) + Len(b) /\ i <= Len(a)
    BY <1>1
  <2> QED BY <1>1, <2>1
<1> QED BY <1>1, <1>2, <1>3

LEMMA JoinStarts ==
  ASSUME NEW a \in Seq(Byte), NEW b \in Seq(Byte), Joins(b)
  PROVE  /\ \A i \in 1 .. Len(a) : i \in Starts(a \o b) <=> i \in Starts(a)
         /\ \A j \in 1 .. Len(b) : Len(a) + j \in Starts(a \o b) <=> j \in Starts(b)
<1> DEFINE c == a \o b
           n == Len(a)
           m == Len(b)
<1>1. /\ c \in Seq(Byte) /\ Len(c) = n + m /\ n \in Nat /\ m \in Nat
      /\ (\A i \in 1 .. n : c[i] = a[i]) /\ \A j \in 1 .. m : c[n + j] = b[j]
  BY JoinBytes
<1>2. m # 0 => m >= 3 /\ b[1] = 0 /\ b[2] = 0
  <2>1. b = <<>> => m = 0
    OBVIOUS
  <2> QED BY <2>1, AnnexBStarts DEF Joins
<1>3. /\ \A i : i \in Starts(c) <=> i \in 1 .. Len(c) - 2 /\ c[i] = 0 /\ c[i + 1] = 0 /\ c[i + 2] = 1
      /\ \A i : i \in Starts(a) <=> i \in 1 .. n - 2 /\ a[i] = 0 /\ a[i + 1] = 0 /\ a[i + 2] = 1
      /\ \A i : i \in Starts(b) <=> i \in 1 .. m - 2 /\ b[i] = 0 /\ b[i + 1] = 0 /\ b[i + 2] = 1
  BY <1>1, StartsAre
<1> HIDE DEF c, n, m
<1>4. ASSUME NEW i \in 1 .. n PROVE i \in Starts(c) <=> i \in Starts(a)
  <2>1. CASE i <= n - 2
    <3>1. c[i] = a[i] /\ c[i + 1] = a[i + 1] /\ c[i + 2] = a[i + 2] /\ i \in 1 .. n - 2 /\ i \in 1 .. Len(c) - 2
      BY <1>1, <2>1
    <3> QED BY <1>3, <3>1
  <2>2. CASE i > n - 2
    <3>1. i \notin Starts(a)
      BY <1>1, <1>3, <2>2
    <3>2. CASE i = n
      <4>1. m # 0 => i + 2 = n + 2 /\ c[n + 2] = b[2]
        BY <1>1, <1>2, <3>2
      <4>2. ASSUME i \in Starts(c) PROVE FALSE
        <5>1. i \in 1 .. Len(c) - 2 /\ c[i + 2] = 1
          BY <1>3, <4>2
        <5>2. m # 0
          BY <1>1, <3>2, <5>1
        <5> QED BY <1>2, <3>2, <4>1, <5>1, <5>2
      <4> QED BY <3>1, <4>2
    <3>3. CASE i = n - 1
      <4>1. m # 0 => i + 2 = n + 1 /\ c[n + 1] = b[1]
        BY <1>1, <1>2, <3>3
      <4>2. i \in Starts(c) => c[i + 2] = 1 /\ m # 0
        <5> SUFFICES ASSUME i \in Starts(c) PROVE c[i + 2] = 1 /\ m # 0
          OBVIOUS
        <5>1. i \in 1 .. Len(c) - 2 /\ c[i + 2] = 1
          BY <1>3
        <5>2. Len(c) = n + m /\ n \in Nat /\ m \in Nat
          BY <1>1
        <5> QED BY <3>3, <5>1, <5>2
      <4>3. i \in Starts(c) => FALSE
        BY <1>2, <4>1, <4>2
      <4> QED BY <3>1, <4>3
    <3> QED BY <1>1, <2>2, <3>2, <3>3
  <2> QED BY <1>1, <2>1, <2>2
<1>5. ASSUME NEW j \in 1 .. m PROVE n + j \in Starts(c) <=> j \in Starts(b)
  <2>1. CASE j <= m - 2
    <3>1. /\ j \in 1 .. m /\ j + 1 \in 1 .. m /\ j + 2 \in 1 .. m
          /\ n + j + 1 = n + (j + 1) /\ n + j + 2 = n + (j + 2)
          /\ j \in 1 .. m - 2 /\ n + j \in 1 .. Len(c) - 2
      BY <1>1, <2>1
    <3>2. c[n + j] = b[j] /\ c[n + j + 1] = b[j + 1] /\ c[n + j + 2] = b[j + 2]
      <4>1. c[n + j] = b[j] /\ c[n + (j + 1)] = b[j + 1] /\ c[n + (j + 2)] = b[j + 2]
        BY <1>1, <3>1
      <4> QED BY <3>1, <4>1
    <3> QED BY <1>3, <3>1, <3>2
  <2>2. CASE j > m - 2
    <3>1. j \notin Starts(b) /\ n + j \notin Starts(c)
      BY <1>1, <1>3, <2>2
    <3> QED BY <3>1
  <2> QED BY <1>1, <2>1, <2>2
<1> QED BY <1>4, <1>5 DEF c, n, m
-----------------------------------------------------------------------------
(* The units of joined bytes, at the places they had.                      *)
LEMMA JoinUnits ==
  ASSUME NEW a \in Seq(Byte), NEW b \in Seq(Byte), Joins(b)
  PROVE  /\ \A i \in Starts(a) : UnitAt(a \o b, i) = UnitAt(a, i)
         /\ \A j \in Starts(b) : UnitAt(a \o b, Len(a) + j) = UnitAt(b, j)
<1> DEFINE c == a \o b
           n == Len(a)
           m == Len(b)
<1>1. /\ c \in Seq(Byte) /\ Len(c) = n + m /\ n \in Nat /\ m \in Nat
      /\ (\A i \in 1 .. n : c[i] = a[i]) /\ \A j \in 1 .. m : c[n + j] = b[j]
  BY JoinBytes
<1>2. /\ \A i \in 1 .. n : i \in Starts(c) <=> i \in Starts(a)
      /\ \A j \in 1 .. m : n + j \in Starts(c) <=> j \in Starts(b)
  BY JoinStarts
<1>3. m # 0 => m >= 3 /\ b[1] = 0 /\ (1 \in Starts(b) \/ (2 \in Starts(b) /\ 1 \notin Starts(b)))
  <2>1. b = <<>> => m = 0
    OBVIOUS
  <2> QED BY <2>1, AnnexBStarts DEF Joins
<1>4. (\A i \in Starts(a) : i \in 1 .. n - 2) /\ (\A j \in Starts(b) : j \in 1 .. m - 2)
  BY StartsAre
<1> HIDE DEF c, n, m
<1>5. ASSUME NEW i \in Starts(a) PROVE UnitAt(c, i) = UnitAt(a, i)
  <2> DEFINE s == StopAt(a, i)
             l == LastAt(a, i)
  <2>1. /\ s \in i + 2 .. n /\ (\A j \in i + 1 .. s : j \notin Starts(a))
        /\ s = n \/ s + 1 \in Starts(a)
    BY StopIs DEF StopsAt, n
  <2>2. l \in i + 2 .. s /\ (a[l] # 0 \/ l = i + 2) /\ \A j \in l + 1 .. s : a[j] = 0
    BY LastIs DEF LastsTo
  <2> HIDE DEF s, l
  <2>3. i \in Starts(c) /\ i \in Nat /\ i <= n
    BY <1>1, <1>2, <1>4
  <2>4. \A j \in i + 1 .. s : j \notin Starts(c)
    BY <1>1, <1>2, <2>1, <2>3
  <2>5. \A j \in 1 .. s : c[j] = a[j]
    BY <1>1, <2>1, <2>3
  <2>6. StopAt(c, i) = s \/ (StopAt(c, i) = s + 1 /\ c[s + 1] = 0)
    <3>1. CASE s + 1 \in Starts(a) \/ m = 0 \/ (s = n /\ 1 \in Starts(b))
      <4>1. s = n + m \/ s + 1 \in Starts(c)
        <5>1. CASE s + 1 \in Starts(a)
          <6>1. s + 1 \in 1 .. n
            BY <1>1, <1>4, <5>1
          <6> QED BY <1>2, <5>1, <6>1
        <5>2. CASE s + 1 \notin Starts(a) /\ m = 0
          BY <1>1, <2>1, <5>2
        <5>3. CASE s = n /\ 1 \in Starts(b)
          <6>1. 1 \in 1 .. m
            BY <1>1, <1>4, <5>3
          <6> QED BY <1>2, <5>3, <6>1
        <5> QED BY <3>1, <5>1, <5>2, <5>3
      <4>2. s \in i + 2 .. Len(c)
        BY <1>1, <2>1, <2>3
      <4>3. StopsAt(c, i, s)
        BY <1>1, <2>4, <4>1, <4>2 DEF StopsAt
      <4> QED BY <1>1, <2>3, <4>3, StopIs
    <3>2. CASE s = n /\ m # 0 /\ 1 \notin Starts(b)
      <4>1. 2 \in Starts(b) /\ b[1] = 0 /\ m >= 3 /\ 1 \in 1 .. m /\ 2 \in 1 .. m
        BY <1>1, <1>3, <3>2
      <4>2. c[s + 1] = 0 /\ n + 2 \in Starts(c) /\ n + 1 \notin Starts(c)
        BY <1>1, <1>2, <3>2, <4>1
      <4>3. s + 1 \in i + 2 .. Len(c) /\ s + 1 + 1 = n + 2
        BY <1>1, <2>1, <2>3, <3>2, <4>1
      <4>4. \A j \in i + 1 .. s + 1 : j \notin Starts(c)
        <5> SUFFICES ASSUME NEW j \in i + 1 .. s + 1 PROVE j \in i + 1 .. s \/ j = n + 1
          BY <2>4, <4>2
        <5> QED BY <1>1, <2>3, <3>2
      <4>5. StopsAt(c, i, s + 1)
        BY <4>2, <4>3, <4>4 DEF StopsAt
      <4> QED BY <1>1, <2>3, <4>2, <4>5, StopIs
    <3> QED BY <2>1, <3>1, <3>2
  <2>7. LastAt(c, i) = l
    <3>1. l \in i + 2 .. StopAt(c, i)
      BY <1>1, <2>1, <2>2, <2>3, <2>6
    <3>2. c[l] # 0 \/ l = i + 2
      <4>1. l \in 1 .. s
        BY <1>1, <2>1, <2>2, <2>3
      <4> QED BY <2>2, <2>5, <4>1
    <3>3. ASSUME NEW j \in l + 1 .. StopAt(c, i) PROVE c[j] = 0
      <4>1. j \in l + 1 .. s \/ (j = s + 1 /\ c[s + 1] = 0)
        BY <1>1, <2>1, <2>2, <2>3, <2>6
      <4>2. j \in l + 1 .. s => j \in 1 .. s
        BY <1>1, <2>1, <2>2, <2>3
      <4> QED BY <2>2, <2>5, <4>1, <4>2
    <3>4. LastsTo(c, i, l)
      BY <3>1, <3>2, <3>3 DEF LastsTo
    <3> QED BY <1>1, <2>3, <3>4, LastIs
  <2>8. \A k \in i + 3 .. l : a[k] = c[0 + k]
    <3> SUFFICES ASSUME NEW k \in i + 3 .. l PROVE k \in 1 .. s /\ 0 + k = k
      BY <2>5
    <3> QED BY <1>1, <2>1, <2>2, <2>3
  <2>9. 0 + i = i /\ 0 + l = l /\ 0 \in Nat
    BY <1>1, <2>1, <2>2, <2>3
  <2>10. 0 + i \in Starts(c) /\ LastAt(c, 0 + i) = 0 + LastAt(a, i)
    BY <2>3, <2>7, <2>9 DEF l
  <2>11. \A k \in i + 3 .. LastAt(a, i) : a[k] = c[0 + k]
    BY <2>8 DEF l
  <2>12. UnitAt(c, 0 + i) = UnitAt(a, i)
    BY <1>1, <2>9, <2>10, <2>11, SameUnit
  <2> QED BY <2>9, <2>12
<1>6. ASSUME NEW i \in Starts(b) PROVE UnitAt(c, n + i) = UnitAt(b, i)
  <2> DEFINE s == StopAt(b, i)
             l == LastAt(b, i)
  <2>1. /\ s \in i + 2 .. m /\ (\A j \in i + 1 .. s : j \notin Starts(b))
        /\ s = m \/ s + 1 \in Starts(b)
    BY StopIs DEF StopsAt, m
  <2>2. l \in i + 2 .. s /\ (b[l] # 0 \/ l = i + 2) /\ \A j \in l + 1 .. s : b[j] = 0
    BY LastIs DEF LastsTo
  <2> HIDE DEF s, l
  <2>3. n + i \in Starts(c) /\ i \in Nat /\ i \in 1 .. m
    BY <1>1, <1>2, <1>4
  <2>4. ASSUME NEW j \in n + i + 1 .. n + s PROVE j \notin Starts(c)
    <3>1. j - n \in i + 1 .. s /\ j - n \in 1 .. m /\ n + (j - n) = j
      BY <1>1, <2>1, <2>3
    <3> QED BY <1>2, <2>1, <3>1
  <2>5. n + s = Len(c) \/ n + s + 1 \in Starts(c)
    <3>1. CASE s = m
      BY <1>1, <3>1
    <3>2. CASE s + 1 \in Starts(b)
      <4>1. s + 1 \in 1 .. m /\ n + (s + 1) = n + s + 1
        BY <1>1, <1>4, <2>1, <2>3, <3>2
      <4> QED BY <1>2, <3>2, <4>1
    <3> QED BY <2>1, <3>1, <3>2
  <2>6. StopAt(c, n + i) = n + s
    <3>1. n + s \in n + i + 2 .. Len(c)
      BY <1>1, <2>1, <2>3
    <3>2. StopsAt(c, n + i, n + s)
      BY <2>4, <2>5, <3>1 DEF StopsAt
    <3> QED BY <1>1, <2>3, <3>2, StopIs
  <2>7. LastAt(c, n + i) = n + l
    <3>1. n + l \in n + i + 2 .. n + s
      BY <1>1, <2>1, <2>2, <2>3
    <3>2. c[n + l] # 0 \/ n + l = n + i + 2
      <4>1. l \in 1 .. m
        BY <1>1, <2>1, <2>2, <2>3
      <4>2. c[n + l] = b[l]
        BY <1>1, <4>1
      <4>3. l = i + 2 => n + l = n + i + 2
        BY <1>1, <2>3
      <4> QED BY <2>2, <4>2, <4>3
    <3>3. ASSUME NEW j \in n + l + 1 .. n + s PROVE c[j] = 0
      <4>1. j - n \in l + 1 .. s /\ j - n \in 1 .. m /\ n + (j - n) = j
        BY <1>1, <2>1, <2>2, <2>3
      <4>2. c[n + (j - n)] = b[j - n]
        BY <1>1, <4>1
      <4> QED BY <2>2, <4>1, <4>2
    <3>4. LastsTo(c, n + i, n + l)
      BY <2>6, <3>1, <3>2, <3>3 DEF LastsTo
    <3> QED BY <1>1, <2>3, <3>4, LastIs
  <2>8. \A k \in i + 3 .. l : b[k] = c[n + k]
    <3> SUFFICES ASSUME NEW k \in i + 3 .. l PROVE k \in 1 .. m
      BY <1>1
    <3> QED BY <1>1, <2>1, <2>2, <2>3
  <2> QED BY <1>1, <2>3, <2>7, <2>8, SameUnit DEF l
<1> QED BY <1>5, <1>6 DEF c, n
-----------------------------------------------------------------------------
(* The units of bytes, from a place on: those from the first start code    *)
(* there on.                                                               *)
FirstFrom(b, i, s) == s \in Starts(b) /\ s >= i /\ \A j \in Starts(b) : j >= i => s <= j
UnitsFrom(b, f) ==
  /\ f \in [1 .. Len(b) + 1 -> Seq(Seq(Byte))]
  /\ \A i \in 1 .. Len(b) + 1 : (\A j \in Starts(b) : ~(j >= i)) => f[i] = <<>>
  /\ \A i \in 1 .. Len(b) + 1 : \A s : FirstFrom(b, i, s) => f[i] = <<UnitAt(b, s)>> \o f[s + 1]

LEMMA FirstExists ==
  ASSUME NEW b \in Seq(Byte), NEW i
  PROVE  (\A j \in Starts(b) : ~(j >= i)) \/ \E s : FirstFrom(b, i, s)
<1> DEFINE ahead == {j \in Starts(b) : j >= i}
<1>1. ahead \subseteq Nat
  <2>1. Len(b) \in Nat /\ \A j \in Starts(b) : j \in 1 .. Len(b) - 2
    BY BytesAt, StartsAre
  <2> QED BY <2>1
<1>2. CASE ahead # {}
  <2>1. PICK s \in ahead : \A j \in ahead : s <= j
    <3> HIDE DEF ahead
    <3> QED BY <1>1, <1>2, LeastPlace
  <2>2. FirstFrom(b, i, s)
    BY <2>1 DEF FirstFrom
  <2> QED BY <2>2
<1> QED BY <1>2

LEMMA UnitsOfFrom ==
  ASSUME NEW b \in Seq(Byte)
  PROVE  \E f : UnitsFrom(b, f) /\ UnitsOf(b) = f[1]
<1> DEFINE D == 1 .. Len(b) + 1
           R == Seq(Seq(Byte))
           Ahead(i) == {j \in Starts(b) : j >= i}
           T == {i \in D : Ahead(i) # {}}
           next == [i \in T |-> Min(Ahead(i)) + 1]
           step == [i \in T |-> [r \in R |-> <<UnitAt(b, Min(Ahead(i)))>> \o r]]
           base == [i \in D |-> <<>>]
           M == Len(b) + 1
           rank == [i \in D |-> M - i]
           IsFrom(g) == g = [i \in D |-> LET ahead == {j \in Starts(b) : j >= i} IN
                               IF ahead = {} THEN <<>> ELSE <<UnitAt(b, Min(ahead))>> \o g[Min(ahead) + 1]]
           chosen == CHOOSE g : IsFrom(g)
<1>0. UnitsOf(b) = chosen[1]
  BY DEF UnitsOf
<1>1. Len(b) \in Nat /\ \A j \in Starts(b) : j \in 1 .. Len(b) - 2 /\ j \in Nat
  <2>1. Len(b) \in Nat /\ \A j \in Starts(b) : j \in 1 .. Len(b) - 2
    BY BytesAt, StartsAre
  <2> QED BY <2>1
<1>2. ASSUME NEW i \in D, NEW s, FirstFrom(b, i, s)
      PROVE  i \in T /\ Min(Ahead(i)) = s /\ s \in Starts(b) /\ s >= i /\ s + 1 \in D
  <2>1. s \in Ahead(i) /\ \A j \in Ahead(i) : s <= j
    BY <1>2 DEF FirstFrom
  <2>2. Ahead(i) \subseteq Nat
    BY <1>1
  <2>3. Min(Ahead(i)) = s
    <3> HIDE DEF Ahead
    <3> QED BY <2>1, <2>2, LeastIs
  <2>4. s \in 1 .. Len(b) - 2
    BY <1>1, <2>1
  <2> QED BY <1>1, <2>1, <2>3, <2>4
<1>3. ASSUME NEW i \in T PROVE \E s : FirstFrom(b, i, s)
  BY FirstExists
<1>4. ASSUME NEW i \in T
      PROVE  Min(Ahead(i)) + 1 \in D /\ Min(Ahead(i)) >= i /\ Min(Ahead(i)) \in Starts(b)
  <2>1. PICK s : FirstFrom(b, i, s)
    BY <1>3
  <2> HIDE DEF Ahead, FirstFrom, D
  <2>2. i \in D
    OBVIOUS
  <2>3. Min(Ahead(i)) = s /\ s \in Starts(b) /\ s >= i /\ s + 1 \in D
    BY <1>2, <2>1, <2>2
  <2> QED BY <2>3
<1>5. next \in [T -> D]
  <2> HIDE DEF T, D, Ahead
  <2> QED BY <1>4
<1>6. step \in [T -> [R -> R]]
  <2>1. ASSUME NEW i \in T, NEW r \in R PROVE <<UnitAt(b, Min(Ahead(i)))>> \o r \in R
    <3>1. UnitAt(b, Min(Ahead(i))) \in Seq(Byte)
      <4> HIDE DEF T, D, Ahead
      <4> QED BY <1>4, UnitIs DEF UnitFits
    <3>2. <<UnitAt(b, Min(Ahead(i)))>> \in R
      <4> HIDE DEF T, D, Ahead
      <4> QED BY <3>1
    <3> HIDE DEF T, D, Ahead
    <3> QED BY <3>2, ConcatProperties
  <2> HIDE DEF T, D, Ahead, R
  <2> QED BY <2>1
<1>7. base \in [D -> R]
  BY EmptySeq
<1>8. rank \in [D -> 0 .. M] /\ M \in Nat
  BY <1>1
<1>9. \A i \in T : rank[next[i]] < rank[i]
  <2> SUFFICES ASSUME NEW i \in T PROVE rank[next[i]] < rank[i]
    OBVIOUS
  <2>1. next[i] = Min(Ahead(i)) + 1 /\ i \in D
    OBVIOUS
  <2>2. Min(Ahead(i)) + 1 \in D /\ Min(Ahead(i)) >= i /\ Min(Ahead(i)) \in Nat
    <3> HIDE DEF T, D, Ahead
    <3> QED BY <1>1, <1>4
  <2> HIDE DEF next, Ahead
  <2> QED BY <1>1, <2>1, <2>2
<1>10. T \in SUBSET D
  OBVIOUS
<1> DEFINE Recurs == Descends(D, M, rank, R, T, next, step, base)
<1>11. Recurs
  <2> HIDE DEF T, D, M, Ahead, R, next, step, base, rank
  <2> QED BY <1>5, <1>6, <1>7, <1>8, <1>9, <1>10 DEF Descends
<1>12. PICK f \in [D -> R] : Solves(f, D, T, next, step, base)
  <2> HIDE DEF T, D, M, Ahead, R, next, step, base, rank
  <2> QED BY <1>11, Recursion
<1>13. f \in [D -> R] /\ \A i \in D : f[i] = IF i \in T THEN step[i][f[next[i]]] ELSE base[i]
  <2> HIDE DEF T, D, M, Ahead, R, next, step, base, rank
  <2> QED BY <1>12 DEF Solves
<1>14. ASSUME NEW i \in T
       PROVE  f[i] = <<UnitAt(b, Min(Ahead(i)))>> \o f[Min(Ahead(i)) + 1]
  <2>1. i \in D /\ f[i] = step[i][f[next[i]]]
    <3> HIDE DEF step, next, base
    <3> QED BY <1>10, <1>13
  <2>2. next[i] = Min(Ahead(i)) + 1 /\ f[next[i]] \in R
    <3>1. next[i] \in D
      <4> HIDE DEF next, T, D
      <4> QED BY <1>5
    <3> HIDE DEF D, Ahead, R
    <3> QED BY <3>1, <1>13
  <2> HIDE DEF R, Ahead, T, next
  <2> QED BY <2>1, <2>2
<1>15. \A i \in D \ T : f[i] = <<>>
  <2> HIDE DEF step, next, T
  <2> QED BY <1>13
<1>16. IsFrom(f)
  <2>1. \A i \in D : f[i] = IF Ahead(i) = {} THEN <<>> ELSE <<UnitAt(b, Min(Ahead(i)))>> \o f[Min(Ahead(i)) + 1]
    <3> SUFFICES ASSUME NEW i \in D
                 PROVE  f[i] = IF Ahead(i) = {} THEN <<>> ELSE <<UnitAt(b, Min(Ahead(i)))>> \o f[Min(Ahead(i)) + 1]
      OBVIOUS
    <3>1. i \in T <=> Ahead(i) # {}
      OBVIOUS
    <3> HIDE DEF T, Ahead, D
    <3> QED BY <1>14, <1>15, <3>1
  <2> HIDE DEF R
  <2> QED BY <1>13, <2>1
<1>17. IsFrom(chosen)
  <2> HIDE DEF IsFrom
  <2> QED BY <1>16
<1> HIDE DEF chosen
<1>18. \A i \in D : chosen[i] = IF Ahead(i) = {} THEN <<>> ELSE <<UnitAt(b, Min(Ahead(i)))>> \o chosen[Min(Ahead(i)) + 1]
  BY <1>17
<1>19. \A i \in D : chosen[i] = f[i]
  <2>1. \A i \in D \ T : chosen[i] = base[i]
    BY <1>18
  <2>2. ASSUME NEW i \in T, chosen[next[i]] \in R PROVE chosen[i] = step[i][chosen[next[i]]]
    <3>1. i \in D /\ Ahead(i) # {} /\ next[i] = Min(Ahead(i)) + 1
      OBVIOUS
    <3>2. chosen[i] = <<UnitAt(b, Min(Ahead(i)))>> \o chosen[next[i]]
      <4> HIDE DEF D, Ahead, T, next
      <4> QED BY <1>18, <3>1
    <3> HIDE DEF next, R, Ahead, T
    <3> QED BY <2>2, <3>2
  <2> HIDE DEF T, D, M, Ahead, R, next, step, base, rank
  <2> QED BY <1>11, <1>12, <2>1, <2>2, OneRecursion
<1>20. UnitsOf(b) = f[1]
  <2>1. 1 \in D
    BY <1>1
  <2> QED BY <1>0, <1>19, <2>1
<1>21. UnitsFrom(b, f)
  <2>1. \A i \in D : (\A j \in Starts(b) : ~(j >= i)) => f[i] = <<>>
    <3> SUFFICES ASSUME NEW i \in D, \A j \in Starts(b) : ~(j >= i) PROVE f[i] = <<>>
      OBVIOUS
    <3>1. i \notin T
      OBVIOUS
    <3> HIDE DEF T, D
    <3> QED BY <1>15, <3>1
  <2>2. ASSUME NEW i \in D, NEW s, FirstFrom(b, i, s) PROVE f[i] = <<UnitAt(b, s)>> \o f[s + 1]
    <3> HIDE DEF T, D, Ahead
    <3>1. i \in T /\ Min(Ahead(i)) = s
      BY <1>2, <2>2
    <3> QED BY <1>14, <3>1
  <2> QED BY <1>13, <2>1, <2>2 DEF UnitsFrom
<1> QED BY <1>20, <1>21
-----------------------------------------------------------------------------
(* A place in joined bytes that is past the first ones.                    *)
LEMMA PlaceBehind ==
  ASSUME NEW n \in Nat, NEW m \in Nat, NEW i \in 1 .. m + 1, NEW x \in 1 .. (n + m) - 2, x >= n + i
  PROVE  x - n \in 1 .. m /\ n + (x - n) = x /\ x - n >= i
OBVIOUS

(* The units of joined bytes are those of the one and those of the other.  *)
LEMMA UnitsJoin ==
  ASSUME NEW a \in Seq(Byte), NEW b \in Seq(Byte), Joins(b)
  PROVE  /\ UnitsOf(a \o b) = UnitsOf(a) \o UnitsOf(b)
         /\ UnitsOf(a) \in Seq(Seq(Byte)) /\ UnitsOf(b) \in Seq(Seq(Byte))
<1> DEFINE c == a \o b
           n == Len(a)
           m == Len(b)
           R == Seq(Seq(Byte))
<1>1. c \in Seq(Byte) /\ Len(c) = n + m /\ n \in Nat /\ m \in Nat
  BY JoinBytes
<1>2. /\ \A i \in 1 .. n : i \in Starts(c) <=> i \in Starts(a)
      /\ \A j \in 1 .. m : n + j \in Starts(c) <=> j \in Starts(b)
  BY JoinStarts
<1>3. /\ \A i \in Starts(a) : UnitAt(c, i) = UnitAt(a, i) /\ UnitAt(a, i) \in Seq(Byte)
      /\ \A j \in Starts(b) : UnitAt(c, n + j) = UnitAt(b, j) /\ UnitAt(b, j) \in Seq(Byte)
  BY JoinUnits, UnitIs DEF UnitFits
<1>4. /\ \A i \in Starts(a) : i \in 1 .. n - 2
      /\ \A j \in Starts(b) : j \in 1 .. m - 2
      /\ \A k \in Starts(c) : k \in 1 .. Len(c) - 2
  BY <1>1, StartsAre
<1>5. PICK fa : UnitsFrom(a, fa) /\ UnitsOf(a) = fa[1]
  BY UnitsOfFrom
<1>6. PICK fb : UnitsFrom(b, fb) /\ UnitsOf(b) = fb[1]
  BY UnitsOfFrom
<1>7. PICK fc : UnitsFrom(c, fc) /\ UnitsOf(c) = fc[1]
  BY <1>1, UnitsOfFrom
<1> HIDE DEF c, n, m
<1>8. /\ \A i \in 1 .. n + 1 : fa[i] \in R
      /\ \A i \in 1 .. m + 1 : fb[i] \in R
      /\ \A i \in 1 .. n + m + 1 : fc[i] \in R
  BY <1>1, <1>5, <1>6, <1>7 DEF UnitsFrom, n, m
<1>9. ASSUME NEW j \in 1 .. m + 1 PROVE fc[n + j] = fb[j]
  <2> DEFINE Fails == {k \in 0 .. m : fc[n + (m + 1 - k)] # fb[m + 1 - k]}
  <2>0. Fails = {} => fc[n + j] = fb[j]
    <3>1. m + 1 - j \in 0 .. m /\ m + 1 - (m + 1 - j) = j
      BY <1>1
    <3> QED BY <3>1
  <2> SUFFICES ASSUME Fails # {} PROVE FALSE
    BY <2>0
  <2>1. PICK k \in Fails : \A x \in Fails : k <= x
    <3>1. Fails \subseteq Nat
      OBVIOUS
    <3> HIDE DEF Fails
    <3> QED BY <3>1, LeastPlace
  <2>2. PICK i : i = m + 1 - k
    OBVIOUS
  <2>3. k \in 0 .. m /\ fc[n + i] # fb[i] /\ i \in 1 .. m + 1 /\ n + i \in 1 .. n + m + 1
    BY <1>1, <2>1, <2>2
  <2>4. ASSUME NEW x \in 1 .. m + 1, x > i PROVE fc[n + x] = fb[x]
    <3>1. m + 1 - x \in 0 .. m /\ m + 1 - (m + 1 - x) = x /\ ~(k <= m + 1 - x)
      BY <1>1, <2>2, <2>3, <2>4
    <3>2. m + 1 - x \notin Fails
      <4> HIDE DEF Fails
      <4> QED BY <2>1, <3>1
    <3> QED BY <3>1, <3>2
  <2>5. CASE \A s \in Starts(b) : ~(s >= i)
    <3>1. \A s \in Starts(c) : ~(s >= n + i)
      <4> SUFFICES ASSUME NEW s \in Starts(c), s >= n + i PROVE FALSE
        OBVIOUS
      <4>1. s \in 1 .. (n + m) - 2
        BY <1>1, <1>4
      <4>2. s - n \in 1 .. m /\ n + (s - n) = s /\ s - n >= i
        BY <1>1, <2>3, <4>1, PlaceBehind
      <4> QED BY <1>2, <2>5, <4>2
    <3>2. fb[i] = <<>>
      BY <1>6, <2>3, <2>5 DEF UnitsFrom, m
    <3>3. n + i \in 1 .. Len(c) + 1
      BY <1>1, <2>3
    <3>4. fc[n + i] = <<>>
      BY <1>7, <3>1, <3>3 DEF UnitsFrom
    <3> QED BY <2>3, <3>2, <3>4
  <2>6. CASE \E s : FirstFrom(b, i, s)
    <3>1. PICK s : FirstFrom(b, i, s)
      BY <2>6
    <3>2. s \in Starts(b) /\ s >= i /\ (\A x \in Starts(b) : x >= i => s <= x) /\ s \in 1 .. m - 2
      BY <1>4, <3>1 DEF FirstFrom
    <3>3. s \in 1 .. m /\ n + s \in Starts(c) /\ n + s >= n + i /\ s + 1 \in 1 .. m + 1 /\ s + 1 > i
          /\ n + (s + 1) = n + s + 1 /\ n + i \in 1 .. Len(c) + 1
      <4>1. s \in 1 .. m
        BY <1>1, <3>2
      <4>2. n + s \in Starts(c)
        BY <1>2, <3>2, <4>1
      <4>3. i \in Nat /\ i \in 1 .. m + 1 /\ s \in Nat /\ s >= i /\ s \in 1 .. m - 2
        BY <2>3, <3>2, <4>1
      <4>4. s + 1 \in 1 .. m + 1 /\ s + 1 > i /\ n + (s + 1) = n + s + 1 /\ n + s >= n + i
        BY <1>1, <4>3
      <4>5. n + i \in 1 .. Len(c) + 1
        BY <1>1, <4>3
      <4> QED BY <4>1, <4>2, <4>4, <4>5
    <3>4. ASSUME NEW x \in Starts(c), x >= n + i PROVE n + s <= x
      <4>1. x - n \in 1 .. m /\ n + (x - n) = x /\ x - n >= i
        <5>1. x \in 1 .. (n + m) - 2
          BY <1>1, <1>4
        <5> QED BY <1>1, <2>3, <3>4, <5>1, PlaceBehind
      <4>2. s <= x - n
        BY <1>2, <3>2, <4>1
      <4> QED BY <1>1, <3>3, <4>1, <4>2
    <3>5. FirstFrom(c, n + i, n + s)
      BY <3>3, <3>4 DEF FirstFrom
    <3>6. fc[n + i] = <<UnitAt(c, n + s)>> \o fc[n + s + 1]
      BY <1>7, <3>3, <3>5 DEF UnitsFrom
    <3>7. fb[i] = <<UnitAt(b, s)>> \o fb[s + 1]
      BY <1>6, <2>3, <3>1 DEF UnitsFrom, m
    <3>8. fc[n + s + 1] = fb[s + 1]
      BY <2>4, <3>3
    <3> QED BY <1>3, <2>3, <3>2, <3>6, <3>7, <3>8
  <2> QED BY <2>5, <2>6, FirstExists
<1>10. ASSUME NEW j \in 1 .. n + 1 PROVE fc[j] = fa[j] \o fb[1]
  <2> DEFINE Fails == {k \in 0 .. n : fc[n + 1 - k] # fa[n + 1 - k] \o fb[1]}
  <2>0. Fails = {} => fc[j] = fa[j] \o fb[1]
    <3>1. n + 1 - j \in 0 .. n /\ n + 1 - (n + 1 - j) = j
      BY <1>1
    <3> QED BY <3>1
  <2> SUFFICES ASSUME Fails # {} PROVE FALSE
    BY <2>0
  <2>1. PICK k \in Fails : \A x \in Fails : k <= x
    <3>1. 0 .. n \subseteq Nat
      BY <1>1
    <3>2. Fails \subseteq 0 .. n
      BY Zenon
    <3> HIDE DEF Fails
    <3> QED BY <3>1, <3>2, LeastPlace
  <2>2. PICK i : i = n + 1 - k
    OBVIOUS
  <2>3. k \in 0 .. n /\ fc[i] # fa[i] \o fb[1] /\ i \in 1 .. n + 1 /\ i \in 1 .. n + m + 1
    <3>1. k \in 0 .. n /\ fc[n + 1 - k] # fa[n + 1 - k] \o fb[1]
      BY <2>1
    <3>2. fc[i] # fa[i] \o fb[1]
      BY <2>2, <3>1
    <3>3. i \in 1 .. n + 1 /\ i \in 1 .. n + m + 1
      BY <1>1, <2>2, <3>1
    <3> QED BY <3>1, <3>2, <3>3
  <2>4. ASSUME NEW x \in 1 .. n + 1, x > i PROVE fc[x] = fa[x] \o fb[1]
    <3>1. n + 1 - x \in 0 .. n /\ n + 1 - (n + 1 - x) = x /\ ~(k <= n + 1 - x)
      BY <1>1, <2>2, <2>3, <2>4
    <3>2. n + 1 - x \notin Fails
      <4> HIDE DEF Fails
      <4> QED BY <2>1, <3>1
    <3> QED BY <3>1, <3>2
  <2>5. fb[1] \in R /\ fc[n + 1] = fb[1]
    <3>1. 1 \in 1 .. m + 1
      BY <1>1
    <3> QED BY <1>8, <1>9, <3>1
  <2>6. CASE \A s \in Starts(a) : ~(s >= i)
    <3>1. fa[i] = <<>>
      BY <1>5, <2>3, <2>6 DEF UnitsFrom, n
    <3>2. fa[i] \o fb[1] = fb[1]
      BY <2>5, <3>1, ConcatEmptySeq
    <3>3. \A s \in Starts(c) : s >= i => s >= n + 1
      <4> SUFFICES ASSUME NEW s \in Starts(c), s >= i, ~(s >= n + 1) PROVE FALSE
        OBVIOUS
      <4>1. s \in 1 .. n
        BY <1>1, <1>4
      <4> QED BY <1>2, <2>6, <4>1
    <3>4. i <= n + 1 /\ i \in 1 .. Len(c) + 1 /\ n + 1 \in 1 .. Len(c) + 1
      BY <1>1, <2>3
    <3>5. fc[i] = fc[n + 1]
      <4>1. CASE \A s \in Starts(c) : ~(s >= i)
        <5>1. \A s \in Starts(c) : ~(s >= n + 1)
          <6> SUFFICES ASSUME NEW s \in Starts(c), s >= n + 1 PROVE s >= i
            BY <4>1
          <6> QED BY <1>1, <1>4, <2>3
        <5> QED BY <1>7, <3>4, <4>1, <5>1 DEF UnitsFrom
      <4>2. CASE \E s : FirstFrom(c, i, s)
        <5>1. PICK s : FirstFrom(c, i, s)
          BY <4>2
        <5>2. s \in Starts(c) /\ s >= n + 1 /\ \A x \in Starts(c) : x >= i => s <= x
          BY <3>3, <5>1 DEF FirstFrom
        <5>3. FirstFrom(c, n + 1, s)
          <6>1. \A x \in Starts(c) : x >= n + 1 => x >= i
            <7> SUFFICES ASSUME NEW x \in Starts(c), x >= n + 1 PROVE x >= i
              OBVIOUS
            <7> QED BY <1>1, <1>4, <2>3
          <6> QED BY <5>2, <6>1 DEF FirstFrom
        <5> QED BY <1>7, <3>4, <5>1, <5>3 DEF UnitsFrom
      <4> QED BY <1>1, <4>1, <4>2, FirstExists
    <3> QED BY <2>3, <2>5, <3>2, <3>5
  <2>7. CASE \E s : FirstFrom(a, i, s)
    <3>1. PICK s : FirstFrom(a, i, s)
      BY <2>7
    <3>2. s \in Starts(a) /\ s >= i /\ (\A x \in Starts(a) : x >= i => s <= x) /\ s \in 1 .. n - 2
      BY <1>4, <3>1 DEF FirstFrom
    <3>3. s \in 1 .. n /\ s \in Starts(c) /\ s + 1 \in 1 .. n + 1 /\ s + 1 > i /\ i \in 1 .. Len(c) + 1
      BY <1>1, <1>2, <2>3, <3>2
    <3>4. ASSUME NEW x \in Starts(c), x >= i PROVE s <= x
      <4>1. CASE x <= n
        <5>1. x \in 1 .. n
          BY <1>1, <1>4, <4>1
        <5> QED BY <1>2, <3>2, <3>4, <5>1
      <4>2. CASE ~(x <= n)
        BY <1>1, <1>4, <3>3, <4>2
      <4> QED BY <4>1, <4>2
    <3>5. FirstFrom(c, i, s)
      BY <3>2, <3>3, <3>4 DEF FirstFrom
    <3>6. fc[i] = <<UnitAt(c, s)>> \o fc[s + 1]
      BY <1>7, <3>3, <3>5 DEF UnitsFrom
    <3>7. fa[i] = <<UnitAt(a, s)>> \o fa[s + 1]
      BY <1>5, <2>3, <3>1 DEF UnitsFrom, n
    <3>8. fc[s + 1] = fa[s + 1] \o fb[1] /\ fa[s + 1] \in R
      BY <1>8, <2>4, <3>3
    <3>9. <<UnitAt(a, s)>> \in R /\ UnitAt(c, s) = UnitAt(a, s)
      BY <1>3, <3>2
    <3>10. (<<UnitAt(a, s)>> \o fa[s + 1]) \o fb[1] = <<UnitAt(a, s)>> \o (fa[s + 1] \o fb[1])
      <4> DEFINE x == <<UnitAt(a, s)>>
                 y == fa[s + 1]
                 z == fb[1]
                 Unit == Seq(Byte)
      <4>1. x \in Seq(Unit) /\ y \in Seq(Unit) /\ z \in Seq(Unit)
        BY <2>5, <3>8, <3>9
      <4> HIDE DEF R, x, y, z, Unit
      <4>2. (x \o y) \o z = x \o (y \o z)
        BY <4>1, ConcatAssociative, SMTT(30)
      <4> QED BY <4>2 DEF x, y, z
    <3> QED BY <2>3, <3>6, <3>7, <3>8, <3>9, <3>10
  <2> QED BY <2>6, <2>7, FirstExists
<1>11. UnitsOf(c) = UnitsOf(a) \o UnitsOf(b)
  <2>1. 1 \in 1 .. n + 1
    BY <1>1
  <2> QED BY <1>5, <1>6, <1>7, <1>10, <2>1
<1>12. UnitsOf(a) \in R /\ UnitsOf(b) \in R
  <2>1. 1 \in 1 .. n + 1 /\ 1 \in 1 .. m + 1
    BY <1>1
  <2> QED BY <1>5, <1>6, <1>8, <2>1
<1> QED BY <1>11, <1>12 DEF c
-----------------------------------------------------------------------------
(* One unit behind a start code.                                           *)
LEMMA CodeBytes ==
  /\ StartCode \in Seq(Byte) /\ Len(StartCode) = 4
  /\ StartCode[1] = 0 /\ StartCode[2] = 0 /\ StartCode[3] = 0 /\ StartCode[4] = 1
BY DEF StartCode, Byte

LEMMA CodeFirst ==
  ASSUME NEW u \in Seq(Byte)
  PROVE  /\ StartCode \o u \in Seq(Byte) /\ Len(StartCode \o u) = 4 + Len(u) /\ Len(u) \in Nat
         /\ LooksLikeAnnexB(StartCode \o u)
<1> DEFINE b == StartCode \o u
<1>1. b \in Seq(Byte) /\ Len(b) = 4 + Len(u) /\ Len(u) \in Nat /\ \A i \in 1 .. 4 : b[i] = StartCode[i]
  <2>1. StartCode \in Seq(Byte) /\ Len(StartCode) = 4
    BY CodeBytes
  <2> HIDE DEF b
  <2>2. /\ b \in Seq(Byte) /\ Len(b) = Len(StartCode) + Len(u) /\ Len(u) \in Nat
        /\ \A i \in 1 .. Len(StartCode) : b[i] = StartCode[i]
    BY <2>1, JoinBytes DEF b
  <2> QED BY <2>1, <2>2
<1> HIDE DEF b
<1>2. b[1] = 0 /\ b[2] = 0 /\ b[3] = 0 /\ b[4] = 1
  BY <1>1, CodeBytes
<1>3. SubSeq(b, 1, 4) = StartCode
  <2>1. 1 \in 1 .. Len(b) - 3 /\ 1 + 3 = 4 /\ 1 + 1 = 2 /\ 1 + 2 = 3
    BY <1>1
  <2> QED BY <1>1, <1>2, <2>1, CodeAt
<1>4. SubSeq(StartCode, 1, 4) = StartCode
  BY CodeBytes, SubSeqFull
<1>5. IsPrefix(StartCode, b)
  BY <1>1, <1>3, <1>4, CodeBytes DEF IsPrefix
<1> QED BY <1>1, <1>5 DEF LooksLikeAnnexB, b

LEMMA OneUnit == ASSUME NEW u, Clean(u) PROVE UnitsOf(StartCode \o u) = <<u>>
<1> DEFINE b == StartCode \o u
           n == Len(u)
<1>1. u \in Seq(Byte) /\ u # <<>> /\ u[n] # 0 /\ Starts(u) = {}
  BY DEF Clean
<1>2. /\ b \in Seq(Byte) /\ Len(b) = 4 + n /\ n \in Nat
      /\ (\A i \in 1 .. 4 : b[i] = StartCode[i]) /\ \A j \in 1 .. n : b[4 + j] = u[j]
  <2>1. StartCode \in Seq(Byte) /\ Len(StartCode) = 4
    BY CodeBytes
  <2> HIDE DEF b
  <2>2. /\ b \in Seq(Byte) /\ Len(b) = Len(StartCode) + Len(u) /\ Len(u) \in Nat
        /\ \A i \in 1 .. Len(StartCode) : b[i] = StartCode[i]
        /\ \A j \in 1 .. Len(u) : b[Len(StartCode) + j] = u[j]
    BY <1>1, <2>1, JoinBytes DEF b
  <2> QED BY <2>1, <2>2
<1> HIDE DEF b
<1>3. b[1] = 0 /\ b[2] = 0 /\ b[3] = 0 /\ b[4] = 1
  BY <1>2, CodeBytes
<1>4. n >= 1
  BY <1>1, EmptySeq
<1>5. \A j : j \notin 1 .. n - 2 \/ u[j] # 0 \/ u[j + 1] # 0 \/ u[j + 2] # 1
  BY <1>1, StartsAre
<1> HIDE DEF n
<1>6. \A i : i \in Starts(b) <=> i \in 1 .. Len(b) - 2 /\ b[i] = 0 /\ b[i + 1] = 0 /\ b[i + 2] = 1
  BY <1>2, StartsAre
<1>7. 2 \in Starts(b)
  BY <1>2, <1>3, <1>4, <1>6
<1>8. ASSUME NEW i \in Starts(b), i # 2 PROVE FALSE
  <2>1. i \in 1 .. n + 2 /\ b[i] = 0 /\ b[i + 1] = 0 /\ b[i + 2] = 1
    BY <1>2, <1>6
  <2>2. i # 1 /\ i # 3 /\ i # 4
    <3>1. 1 + 2 = 3 /\ 3 + 1 = 4
      OBVIOUS
    <3> QED BY <1>3, <2>1, <3>1
  <2>3. i - 4 \in 1 .. n - 2 /\ i - 4 \in 1 .. n /\ i - 3 \in 1 .. n /\ i - 2 \in 1 .. n
    BY <1>2, <1>8, <2>1, <2>2
  <2>4. b[4 + (i - 4)] = u[i - 4] /\ b[4 + (i - 3)] = u[i - 3] /\ b[4 + (i - 2)] = u[i - 2]
    BY <1>2, <2>3
  <2>5. /\ 4 + (i - 4) = i /\ 4 + (i - 3) = i + 1 /\ 4 + (i - 2) = i + 2
        /\ i - 4 + 1 = i - 3 /\ i - 4 + 2 = i - 2
    BY <2>1
  <2> QED BY <1>5, <2>1, <2>3, <2>4, <2>5
<1>9. StopAt(b, 2) = 4 + n
  <2>1. StopsAt(b, 2, 4 + n)
    <3>1. 4 + n \in 2 + 2 .. Len(b) /\ 4 + n = Len(b)
      BY <1>2
    <3>2. \A j \in 2 + 1 .. 4 + n : j \notin Starts(b)
      BY <1>2, <1>8
    <3> QED BY <3>1, <3>2 DEF StopsAt
  <2> QED BY <1>2, <1>7, <2>1, StopIs
<1>10. LastAt(b, 2) = 4 + n
  <2>1. n \in 1 .. n
    BY <1>2, <1>4
  <2>2. b[4 + n] # 0
    BY <1>1, <1>2, <2>1 DEF n
  <2>3. 4 + n \in 2 + 2 .. StopAt(b, 2) /\ \A j \in 4 + n + 1 .. StopAt(b, 2) : b[j] = 0
    BY <1>2, <1>9
  <2>4. LastsTo(b, 2, 4 + n)
    BY <2>2, <2>3 DEF LastsTo
  <2> QED BY <1>2, <1>7, <2>4, LastIs
<1>11. UnitAt(b, 2) = u
  <2>1. UnitFits(b, 2)
    BY <1>2, <1>7, UnitIs
  <2>2. 4 + n - 2 - 2 = n /\ \A k \in 1 .. n : 2 + 2 + k = 4 + k
    BY <1>2
  <2>3. /\ UnitAt(b, 2) \in Seq(Byte) /\ Len(UnitAt(b, 2)) = n
        /\ \A k \in 1 .. n : UnitAt(b, 2)[k] = b[4 + k]
    <3>1. /\ UnitAt(b, 2) \in Seq(Byte) /\ Len(UnitAt(b, 2)) = 4 + n - 2 - 2
          /\ \A k \in 1 .. 4 + n - 2 - 2 : UnitAt(b, 2)[k] = b[2 + 2 + k]
      <4>1. /\ UnitAt(b, 2) \in Seq(Byte) /\ Len(UnitAt(b, 2)) = LastAt(b, 2) - 2 - 2
            /\ \A k \in 1 .. LastAt(b, 2) - 2 - 2 : UnitAt(b, 2)[k] = b[2 + 2 + k]
        BY <2>1 DEF UnitFits
      <4>2. LastAt(b, 2) - 2 - 2 = 4 + n - 2 - 2
        BY <1>2, <1>10
      <4> QED BY <4>1, <4>2, Zenon
    <3> QED BY <2>2, <3>1
  <2>4. \A k \in 1 .. Len(u) : UnitAt(b, 2)[k] = u[k]
    BY <1>2, <2>3 DEF n
  <2> QED BY <1>1, <2>3, <2>4, SeqEqual DEF n
<1>12. PICK f : UnitsFrom(b, f) /\ UnitsOf(b) = f[1]
  BY <1>2, UnitsOfFrom
<1>13. FirstFrom(b, 1, 2)
  BY <1>7, <1>8 DEF FirstFrom
<1>14. f[1] = <<UnitAt(b, 2)>> \o f[2 + 1]
  <2>1. 1 \in 1 .. Len(b) + 1
    BY <1>2
  <2> QED BY <1>12, <1>13, <2>1 DEF UnitsFrom
<1>15. f[3] = <<>>
  <2>1. 3 \in 1 .. Len(b) + 1 /\ \A j \in Starts(b) : ~(j >= 3)
    BY <1>2, <1>8
  <2> QED BY <1>12, <2>1 DEF UnitsFrom
<1>16. UnitsOf(b) = <<u>> \o <<>>
  <2>1. 2 + 1 = 3
    OBVIOUS
  <2> QED BY <1>11, <1>12, <1>14, <1>15, <2>1
<1>17. <<u>> \o <<>> = <<u>>
  <2>1. <<u>> \in Seq(Seq(Byte))
    BY <1>1
  <2> QED BY <2>1, ConcatEmptySeq
<1> QED BY <1>16, <1>17 DEF b
-----------------------------------------------------------------------------
(* The scan for start codes: it finds the first, and with it the zero      *)
(* before it if the scan has not passed that.                              *)
LEMMA FindNone ==
  ASSUME NEW b \in Seq(Byte), NEW o \in 1 .. Len(b) + 1, \A s \in Starts(b) : ~(s >= o)
  PROVE  FindStartCode(b, o) = <<>>
<1> DEFINE At(i, code) == /\ i + Len(code) - 1 <= Len(b)
                          /\ SubSeq(b, i, i + Len(code) - 1) = code
           found == {i \in o .. Len(b) : At(i, StartCode) \/ At(i, ShortStartCode)}
<1>1. Len(b) \in Nat /\ Len(StartCode) = 4 /\ Len(ShortStartCode) = 3
  BY BytesAt, CodeBytes DEF ShortStartCode
<1>2. ASSUME NEW i \in o .. Len(b), At(i, StartCode) PROVE FALSE
  <2>1. i \in 1 .. Len(b) - 3 /\ i + 4 - 1 = i + 3
    BY <1>1, <1>2
  <2>2. b[i + 1] = 0 /\ b[i + 2] = 0 /\ b[i + 3] = 1
    BY <1>1, <1>2, <2>1, CodeAt
  <2>3. i + 1 \in 1 .. Len(b) - 2 /\ i + 1 + 1 = i + 2 /\ i + 1 + 2 = i + 3 /\ i + 1 >= o
    BY <1>1, <2>1
  <2>4. i + 1 \in Starts(b)
    BY <2>2, <2>3, StartsAre
  <2> QED BY <2>3, <2>4
<1>3. ASSUME NEW i \in o .. Len(b), At(i, ShortStartCode) PROVE FALSE
  <2>1. i \in 1 .. Len(b) - 2 /\ i + 3 - 1 = i + 2 /\ i >= o
    BY <1>1, <1>3
  <2>2. i \in Starts(b)
    BY <1>1, <1>3, <2>1 DEF Starts
  <2> QED BY <2>1, <2>2
<1>4. found = {}
  BY <1>2, <1>3
<1> QED BY <1>4 DEF FindStartCode

LEMMA FindFirst ==
  ASSUME NEW b \in Seq(Byte), NEW o \in 1 .. Len(b) + 1, NEW s, FirstFrom(b, o, s)
  PROVE  \E at, length : /\ FindStartCode(b, o) = <<[at |-> at, length |-> length]>>
                         /\ at + length = s + 3 /\ at \in o .. s
                         /\ at = s \/ (at = s - 1 /\ b[s - 1] = 0)
<1> DEFINE At(i, code) == /\ i + Len(code) - 1 <= Len(b)
                          /\ SubSeq(b, i, i + Len(code) - 1) = code
           found == {i \in o .. Len(b) : At(i, StartCode) \/ At(i, ShortStartCode)}
<1>1. Len(b) \in Nat /\ Len(StartCode) = 4 /\ Len(ShortStartCode) = 3 /\ o \in Nat
  BY BytesAt, CodeBytes DEF ShortStartCode
<1>2. s \in Starts(b) /\ s >= o /\ \A j \in Starts(b) : j >= o => s <= j
  BY DEF FirstFrom
<1>3. s \in 1 .. Len(b) - 2 /\ b[s] = 0 /\ b[s + 1] = 0 /\ b[s + 2] = 1 /\ s + 3 - 1 = s + 2
  BY <1>1, <1>2, StartsAre
<1>4. s \in found /\ At(s, ShortStartCode)
  <2>1. SubSeq(b, s, s + 2) = ShortStartCode
    BY <1>2 DEF Starts
  <2> QED BY <1>1, <1>2, <1>3, <2>1
<1>5. ASSUME NEW i \in o .. Len(b), At(i, StartCode)
      PROVE  b[i] = 0 /\ i + 1 \in Starts(b) /\ i + 1 >= o /\ b[i + 2] = 0
  <2>1. i \in 1 .. Len(b) - 3 /\ i + 4 - 1 = i + 3
    BY <1>1, <1>5
  <2>2. b[i] = 0 /\ b[i + 1] = 0 /\ b[i + 2] = 0 /\ b[i + 3] = 1
    BY <1>1, <1>5, <2>1, CodeAt
  <2>3. i + 1 \in 1 .. Len(b) - 2 /\ i + 1 + 1 = i + 2 /\ i + 1 + 2 = i + 3 /\ i + 1 >= o
    BY <1>1, <2>1
  <2>4. i + 1 \in Starts(b)
    BY <2>2, <2>3, StartsAre
  <2> QED BY <2>2, <2>3, <2>4
<1>6. ASSUME NEW i \in o .. Len(b), At(i, ShortStartCode) PROVE i \in Starts(b)
  <2>1. i \in 1 .. Len(b) - 2 /\ i + 3 - 1 = i + 2
    BY <1>1, <1>6
  <2> QED BY <1>1, <1>6, <2>1 DEF Starts
<1>7. ASSUME NEW i \in found PROVE i = s - 1 \/ i >= s
  <2>1. CASE At(i, StartCode)
    <3>1. i \in o .. Len(b)
      OBVIOUS
    <3>2. i + 1 \in Starts(b) /\ i + 1 >= o
      BY <1>5, <2>1, <3>1
    <3>3. s <= i + 1
      BY <1>2, <3>2
    <3> QED BY <1>1, <1>3, <3>1, <3>3
  <2>2. CASE At(i, ShortStartCode)
    BY <1>1, <1>2, <1>3, <1>6, <2>2
  <2> QED BY <2>1, <2>2
<1>8. found \subseteq Nat
  BY <1>1
<1>9. FindStartCode(b, o) =
        IF found = {} THEN <<>>
        ELSE LET i == Min(found) IN <<[at |-> i, length |-> IF At(i, StartCode) THEN 4 ELSE 3]>>
  BY DEF FindStartCode
<1>10. CASE s - 1 \in o .. Len(b) /\ At(s - 1, StartCode)
  <2>1. s - 1 \in found /\ \A i \in found : s - 1 <= i
    BY <1>3, <1>7, <1>8, <1>10
  <2>2. Min(found) = s - 1
    <3> HIDE DEF found
    <3> QED BY <1>8, <2>1, LeastIs
  <2>3. FindStartCode(b, o) = <<[at |-> s - 1, length |-> 4]>>
    <3> HIDE DEF found, At
    <3> QED BY <1>9, <1>10, <2>1, <2>2
  <2>4. b[s - 1] = 0
    BY <1>5, <1>10
  <2>5. s - 1 + 4 = s + 3 /\ s - 1 \in o .. s
    BY <1>1, <1>3, <1>10
  <2> QED BY <2>3, <2>4, <2>5
<1>11. CASE ~(s - 1 \in o .. Len(b) /\ At(s - 1, StartCode))
  <2>1. ASSUME NEW i \in found PROVE i >= s
    <3> SUFFICES ASSUME i = s - 1 PROVE FALSE
      BY <1>7
    <3>1. i \in o .. Len(b) /\ At(i, ShortStartCode)
      BY <1>11
    <3>2. i \in Starts(b)
      <4> HIDE DEF At
      <4> QED BY <1>6, <3>1
    <3>3. i >= o
      BY <1>1, <3>1
    <3> QED BY <1>2, <1>3, <3>2, <3>3
  <2>2. Min(found) = s
    <3>1. s \in found /\ \A i \in found : s <= i
      BY <1>3, <1>4, <1>8, <2>1
    <3> HIDE DEF found
    <3> QED BY <1>8, <3>1, LeastIs
  <2>3. ~At(s, StartCode)
    <3> SUFFICES ASSUME At(s, StartCode) PROVE FALSE
      OBVIOUS
    <3>1. s \in o .. Len(b)
      BY <1>1, <1>2, <1>3
    <3>2. b[s + 2] = 0
      BY <1>5, <3>1
    <3> QED BY <1>3, <3>2
  <2>4. FindStartCode(b, o) = <<[at |-> s, length |-> 3]>>
    <3> HIDE DEF found, At
    <3> QED BY <1>4, <1>9, <2>2, <2>3
  <2>5. s \in o .. s
    BY <1>1, <1>2, <1>3
  <2> QED BY <2>4, <2>5
<1> QED BY <1>10, <1>11
-----------------------------------------------------------------------------
(* The types the scan of annex_b_parameter_sets collects from a place on:  *)
(* a byte behind each start code, unless the next code starts there.       *)
After(b, s) ==
  LET following == FindStartCode(b, s + 3)
  IN  IF following = <<>> THEN Len(b) + 1 ELSE following[1].at
TypesFrom(b, f) ==
  /\ \A o \in 1 .. Len(b) + 1 : (\A s \in Starts(b) : ~(s >= o)) => f[o] = {}
  /\ \A o \in 1 .. Len(b) + 1 : \A s : FirstFrom(b, o, s) =>
       f[o] = (IF s + 3 < After(b, s) THEN {b[s + 3] % 32} ELSE {}) \cup f[After(b, s)]

LEMMA FirstPlace ==
  ASSUME NEW b \in Seq(Byte), NEW o, NEW s, FirstFrom(b, o, s)
  PROVE  /\ s \in 1 .. Len(b) - 2 /\ s >= o /\ s + 3 \in 1 .. Len(b) + 1 /\ Len(b) \in Nat
         /\ s \in Nat /\ \A r : FirstFrom(b, o, r) => r = s
<1>1. s \in Starts(b) /\ s >= o /\ Len(b) \in Nat
  BY BytesAt DEF FirstFrom
<1>2. s \in 1 .. Len(b) - 2
  BY <1>1, StartsAre
<1>3. ASSUME NEW r, FirstFrom(b, o, r) PROVE r = s
  <2>1. r \in Starts(b) /\ r <= s /\ s <= r
    BY <1>3 DEF FirstFrom
  <2>2. r \in 1 .. Len(b) - 2
    BY <2>1, StartsAre
  <2> QED BY <1>1, <1>2, <2>1, <2>2
<1> QED BY <1>1, <1>2, <1>3

(* Where the scan goes on: at the next start code, or the zero before it.  *)
LEMMA AfterIs ==
  ASSUME NEW b \in Seq(Byte), NEW o, NEW s, FirstFrom(b, o, s)
  PROVE  /\ After(b, s) \in s + 3 .. Len(b) + 1
         /\ \A r \in Starts(b) : r > s => r >= s + 3
         /\ \/ After(b, s) = Len(b) + 1 /\ \A r \in Starts(b) : ~(r > s)
            \/ \E r : /\ FirstFrom(b, s + 3, r)
                      /\ After(b, s) = r \/ (After(b, s) = r - 1 /\ b[r - 1] = 0)
<1>1. s \in 1 .. Len(b) - 2 /\ s + 3 \in 1 .. Len(b) + 1 /\ Len(b) \in Nat /\ s \in Nat
  BY FirstPlace
<1>2. s \in Starts(b) /\ b[s + 1] = 0 /\ b[s + 2] = 1
  BY StartsAre DEF FirstFrom
<1>3. ASSUME NEW r \in Starts(b), r > s PROVE r >= s + 3
  <2>1. r \in 1 .. Len(b) - 2 /\ b[r] = 0 /\ b[r + 1] = 0 /\ r \in Nat
    BY <1>1, StartsAre
  <2>2. r # s + 1 /\ r # s + 2
    <3>1. s + 1 + 1 = s + 2
      BY <1>1
    <3> QED BY <1>2, <2>1, <3>1
  <2> QED BY <1>1, <1>3, <2>1, <2>2
<1>4. CASE \A r \in Starts(b) : ~(r >= s + 3)
  <2>1. After(b, s) = Len(b) + 1
    BY <1>1, <1>4, FindNone DEF After
  <2>2. Len(b) + 1 \in s + 3 .. Len(b) + 1
    BY <1>1
  <2> QED BY <1>3, <1>4, <2>1, <2>2
<1>5. CASE \E r : FirstFrom(b, s + 3, r)
  <2>1. PICK r : FirstFrom(b, s + 3, r)
    BY <1>5
  <2>2. PICK at, length : /\ FindStartCode(b, s + 3) = <<[at |-> at, length |-> length]>>
                          /\ at + length = r + 3 /\ at \in s + 3 .. r
                          /\ at = r \/ (at = r - 1 /\ b[r - 1] = 0)
    <3>1. s + 3 \in 1 .. Len(b) + 1
      BY <1>1
    <3> QED BY <2>1, <3>1, FindFirst, Zenon
  <2>3. After(b, s) = at
    BY <2>2 DEF After
  <2>4. r \in 1 .. Len(b) - 2
    BY <2>1, FirstPlace
  <2>5. at \in s + 3 .. Len(b) + 1
    BY <1>1, <2>2, <2>4
  <2> QED BY <1>3, <2>1, <2>2, <2>3, <2>5
<1> QED BY <1>4, <1>5, FirstExists

LEMMA UnitTypesFrom ==
  ASSUME NEW b \in Seq(Byte)
  PROVE  \E f : TypesFrom(b, f) /\ UnitTypes(b) = f[1]
<1> DEFINE D == 1 .. Len(b) + 1
           R == SUBSET Nat
           S(o) == CHOOSE s : FirstFrom(b, o, s)
           T == {o \in D : FindStartCode(b, o) # <<>>}
           Kind(o) == IF S(o) + 3 < After(b, S(o)) THEN {b[S(o) + 3] % 32} ELSE {}
           next == [o \in T |-> After(b, S(o))]
           step == [o \in T |-> [r \in R |-> Kind(o) \cup r]]
           base == [o \in D |-> {}]
           M == Len(b) + 1
           rank == [o \in D |-> M - o]
           IsFrom(g) == g = [offset \in D |->
             LET code == FindStartCode(b, offset) IN
             IF code = <<>> THEN {}
             ELSE LET start     == code[1].at + code[1].length
                      following == FindStartCode(b, start)
                      after     == IF following = <<>> THEN Len(b) + 1 ELSE following[1].at
                  IN  (IF start < after THEN {b[start] % 32} ELSE {}) \cup g[after]]
           chosen == CHOOSE g : IsFrom(g)
<1>0. UnitTypes(b) = chosen[1]
  BY DEF UnitTypes
<1>1. Len(b) \in Nat
  BY BytesAt
<1>2. ASSUME NEW o \in D PROVE o \in T <=> \E s : FirstFrom(b, o, s)
  <2>1. CASE \E s : FirstFrom(b, o, s)
    <3>1. PICK s : FirstFrom(b, o, s)
      BY <2>1
    <3>2. PICK at, length : /\ FindStartCode(b, o) = <<[at |-> at, length |-> length]>>
                            /\ at + length = s + 3 /\ at \in o .. s
                            /\ at = s \/ (at = s - 1 /\ b[s - 1] = 0)
      BY <3>1, FindFirst, Zenon
    <3>3. FindStartCode(b, o) # <<>>
      BY <3>2
    <3> QED BY <2>1, <3>3
  <2>2. CASE \A s \in Starts(b) : ~(s >= o)
    <3>1. FindStartCode(b, o) = <<>>
      BY <2>2, FindNone
    <3> QED BY <2>2, <3>1 DEF FirstFrom
  <2> QED BY <2>1, <2>2, FirstExists
<1>3. ASSUME NEW o \in T
      PROVE  /\ FirstFrom(b, o, S(o)) /\ o \in D
             /\ After(b, S(o)) \in D /\ After(b, S(o)) > o /\ Kind(o) \in R
  <2>1. FirstFrom(b, o, S(o)) /\ o \in D
    BY <1>2
  <2> HIDE DEF S
  <2>2. S(o) \in 1 .. Len(b) - 2 /\ S(o) >= o /\ After(b, S(o)) \in S(o) + 3 .. Len(b) + 1
    BY <2>1, FirstPlace, AfterIs
  <2>3. After(b, S(o)) \in D /\ After(b, S(o)) > o /\ After(b, S(o)) \in Nat
    BY <1>1, <2>1, <2>2
  <2>4. Kind(o) \in R
    <3>1. S(o) + 3 < After(b, S(o)) => S(o) + 3 \in 1 .. Len(b)
      BY <1>1, <2>2
    <3>2. \A i \in 1 .. Len(b) : b[i] % 32 \in Nat
      <4>1. \A x \in 0 .. 255 : x % 32 \in Nat
        OBVIOUS
      <4> QED BY <4>1, BytesAt
    <3> QED BY <3>1, <3>2
  <2> QED BY <2>1, <2>3, <2>4
<1> HIDE DEF S, Kind
<1>4. next \in [T -> D] /\ T \in SUBSET D
  <2> HIDE DEF D
  <2> QED BY <1>3
<1>5. step \in [T -> [R -> R]]
  <2>1. ASSUME NEW o \in T, NEW r \in R PROVE Kind(o) \cup r \in R
    <3> HIDE DEF T, D
    <3> QED BY <1>3
  <2> HIDE DEF T, R
  <2> QED BY <2>1
<1>6. base \in [D -> R] /\ rank \in [D -> 0 .. M] /\ M \in Nat
  BY <1>1
<1>7. \A o \in T : rank[next[o]] < rank[o]
  <2> SUFFICES ASSUME NEW o \in T PROVE rank[next[o]] < rank[o]
    OBVIOUS
  <2>1. next[o] = After(b, S(o)) /\ o \in D
    OBVIOUS
  <2>2. After(b, S(o)) \in D /\ After(b, S(o)) > o
    <3> HIDE DEF T, D
    <3> QED BY <1>3
  <2> HIDE DEF next, T
  <2> QED BY <1>1, <2>1, <2>2
<1>8. Descends(D, M, rank, R, T, next, step, base)
  <2> HIDE DEF T, D, M, R, next, step, base, rank
  <2> QED BY <1>4, <1>5, <1>6, <1>7 DEF Descends
<1>9. PICK f \in [D -> R] : \A o \in D : f[o] = IF o \in T THEN step[o][f[next[o]]] ELSE base[o]
  <2> HIDE DEF T, D, M, R, next, step, base, rank
  <2> QED BY <1>8, Recursion DEF Solves
<1>10. ASSUME NEW o \in T PROVE f[o] = Kind(o) \cup f[After(b, S(o))]
  <2>1. o \in D /\ f[o] = step[o][f[next[o]]]
    <3> HIDE DEF step, next, base
    <3> QED BY <1>4, <1>9
  <2>2. next[o] = After(b, S(o)) /\ f[next[o]] \in R
    <3>1. next[o] \in D
      <4> HIDE DEF next, T, D
      <4> QED BY <1>4
    <3> HIDE DEF D, R
    <3> QED BY <3>1, <1>9
  <2> HIDE DEF R, T, next
  <2> QED BY <2>1, <2>2
<1>11. \A o \in D \ T : f[o] = {}
  <2> HIDE DEF step, next, T
  <2> QED BY <1>9
(* The scan's step, for any g.                                             *)
<1>12. ASSUME NEW g, NEW o \in T
       PROVE  LET code      == FindStartCode(b, o)
                  start     == code[1].at + code[1].length
                  following == FindStartCode(b, start)
                  after     == IF following = <<>> THEN Len(b) + 1 ELSE following[1].at
              IN  (IF start < after THEN {b[start] % 32} ELSE {}) \cup g[after]
                    = Kind(o) \cup g[After(b, S(o))]
  <2>1. FirstFrom(b, o, S(o)) /\ o \in D
    BY <1>3
  <2>2. PICK at, length : /\ FindStartCode(b, o) = <<[at |-> at, length |-> length]>>
                          /\ at + length = S(o) + 3
    BY <2>1, FindFirst
  <2> QED BY <2>2 DEF After, Kind
<1>13. IsFrom(f)
  <2> HIDE DEF D, R
  <2>1. ASSUME NEW o \in D
        PROVE  f[o] = LET code == FindStartCode(b, o) IN
             IF code = <<>> THEN {}
             ELSE LET start     == code[1].at + code[1].length
                      following == FindStartCode(b, start)
                      after     == IF following = <<>> THEN Len(b) + 1 ELSE following[1].at
                  IN  (IF start < after THEN {b[start] % 32} ELSE {}) \cup f[after]
    <3>1. CASE o \in T
      <4>1. FindStartCode(b, o) # <<>>
        BY <3>1
      <4> HIDE DEF T, Kind, S
      <4>2. f[o] = Kind(o) \cup f[After(b, S(o))]
        BY <1>10, <3>1
      <4> QED BY <1>12, <3>1, <4>1, <4>2
    <3>2. CASE o \notin T
      BY <1>11, <3>2
    <3> QED BY <3>1, <3>2
  <2> QED BY <1>9, <2>1
<1>14. IsFrom(chosen)
  <2> HIDE DEF IsFrom
  <2> QED BY <1>13
<1> HIDE DEF chosen
<1>15. ASSUME NEW o \in D
       PROVE  chosen[o] = IF o \in T THEN Kind(o) \cup chosen[After(b, S(o))] ELSE {}
  <2>1. chosen[o] = LET code == FindStartCode(b, o) IN
             IF code = <<>> THEN {}
             ELSE LET start     == code[1].at + code[1].length
                      following == FindStartCode(b, start)
                      after     == IF following = <<>> THEN Len(b) + 1 ELSE following[1].at
                  IN  (IF start < after THEN {b[start] % 32} ELSE {}) \cup chosen[after]
    BY <1>14
  <2>2. CASE o \in T
    BY <1>12, <2>1, <2>2
  <2>3. CASE o \notin T
    BY <2>1, <2>3
  <2> QED BY <2>2, <2>3
<1>16. TypesFrom(b, chosen)
  <2>1. ASSUME NEW o \in D, \A s \in Starts(b) : ~(s >= o) PROVE chosen[o] = {}
    <3>1. o \notin T
      <4> HIDE DEF T, D
      <4> QED BY <1>2, <2>1 DEF FirstFrom
    <3> HIDE DEF T, D
    <3> QED BY <1>15, <3>1
  <2>2. ASSUME NEW o \in D, NEW s, FirstFrom(b, o, s)
        PROVE  chosen[o] = (IF s + 3 < After(b, s) THEN {b[s + 3] % 32} ELSE {}) \cup chosen[After(b, s)]
    <3> HIDE DEF T, D
    <3>1. o \in T
      BY <1>2, <2>2
    <3>2. S(o) = s
      BY <1>3, <2>2, <3>1, FirstPlace
    <3> QED BY <1>15, <3>1, <3>2 DEF Kind
  <2> QED BY <2>1, <2>2 DEF TypesFrom
<1> QED BY <1>0, <1>16
-----------------------------------------------------------------------------
(* The scan of annex_b_parameter_sets comes across the parameter sets that *)
(* are behind start codes, and no others, in any bytes: that it takes the  *)
(* zeros before the next start code for a unit makes no difference, a zero *)
(* is not the type of one.                                                 *)
THEOREM ScanFinds ==
  ASSUME NEW b \in Seq(Byte), NEW t \in {7, 8}
  PROVE  t \in UnitTypes(b) <=> \E s \in Starts(b) : s + 3 <= Len(b) /\ b[s + 3] % 32 = t
<1> DEFINE Typed(s) == s \in Starts(b) /\ s + 3 <= Len(b) /\ b[s + 3] % 32 = t
           D == 1 .. Len(b) + 1
<1>1. PICK f : TypesFrom(b, f) /\ UnitTypes(b) = f[1]
  BY UnitTypesFrom
<1> DEFINE Agrees(o) == t \in f[o] <=> \E s : Typed(s) /\ s >= o
           Fails == {o \in D : ~Agrees(o)}
<1>2. Len(b) \in Nat /\ \A s \in Starts(b) : s \in 1 .. Len(b) - 2
  BY BytesAt, StartsAre
<1>3. ASSUME NEW o \in D, \A p \in D : p > o => Agrees(p)
      PROVE  Agrees(o)
  <2>1. CASE \A s \in Starts(b) : ~(s >= o)
    <3>1. f[o] = {}
      BY <1>1, <2>1 DEF TypesFrom
    <3> QED BY <2>1, <3>1
  <2>2. CASE \E s : FirstFrom(b, o, s)
    <3>1. PICK s : FirstFrom(b, o, s)
      BY <2>2
    <3> DEFINE a == After(b, s)
    <3>2. f[o] = (IF s + 3 < a THEN {b[s + 3] % 32} ELSE {}) \cup f[a]
      BY <1>1, <3>1 DEF TypesFrom
    <3>3. /\ s \in 1 .. Len(b) - 2 /\ s >= o /\ s \in Starts(b)
          /\ \A r \in Starts(b) : r >= o => s <= r
      BY <3>1, FirstPlace DEF FirstFrom
    <3>4. /\ a \in s + 3 .. Len(b) + 1 /\ \A r \in Starts(b) : r > s => r >= s + 3
          /\ \/ a = Len(b) + 1 /\ \A r \in Starts(b) : ~(r > s)
             \/ \E r : FirstFrom(b, s + 3, r) /\ (a = r \/ (a = r - 1 /\ b[r - 1] = 0))
      BY <3>1, AfterIs
    <3> HIDE DEF a
    <3>5. a \in D /\ a > o /\ a \in Nat
      BY <1>2, <3>3, <3>4
    <3>6. t \in f[a] <=> \E r : Typed(r) /\ r >= a
      BY <1>3, <3>5
    <3>7. ASSUME NEW r, Typed(r), r >= a PROVE r >= o
      BY <1>2, <3>5, <3>7
    <3>8. s + 3 < a /\ b[s + 3] % 32 = t => Typed(s) /\ s >= o
      BY <1>2, <3>3, <3>4
    <3>9. ASSUME NEW r \in Starts(b), r > s PROVE r >= a
      <4>1. PICK x : FirstFrom(b, s + 3, x) /\ (a = x \/ (a = x - 1 /\ b[x - 1] = 0))
        BY <3>4, <3>9
      <4>2. x \in Starts(b) /\ x <= r
        BY <3>4, <3>9, <4>1 DEF FirstFrom
      <4> QED BY <1>2, <4>1, <4>2
    <3>10. ASSUME Typed(s) PROVE s + 3 < a
      <4> SUFFICES ASSUME ~(s + 3 < a) PROVE FALSE
        OBVIOUS
      <4>1. a = s + 3 /\ a <= Len(b)
        BY <1>2, <3>3, <3>4, <3>10
      <4>2. PICK x : FirstFrom(b, s + 3, x) /\ (a = x \/ (a = x - 1 /\ b[x - 1] = 0))
        BY <1>2, <3>4, <4>1
      <4>3. b[a] = 0
        BY <4>2, StartsAre DEF FirstFrom
      <4>4. 0 % 32 = 0 /\ t # 0
        OBVIOUS
      <4> QED BY <3>10, <4>1, <4>3, <4>4
    <3>11. ASSUME NEW r, Typed(r), r >= o
           PROVE  (s + 3 < a /\ b[s + 3] % 32 = t) \/ r >= a
      <4>1. r = s \/ r > s
        BY <1>2, <3>3, <3>11
      <4>2. CASE r = s
        BY <3>10, <3>11, <4>2
      <4>3. CASE r > s
        BY <3>9, <3>11, <4>3
      <4> QED BY <4>1, <4>2, <4>3
    <3> HIDE DEF Typed
    <3> QED BY <3>2, <3>6, <3>7, <3>8, <3>11
  <2> QED BY <2>1, <2>2, FirstExists
<1>4. Fails = {}
  <2> SUFFICES ASSUME Fails # {} PROVE FALSE
    OBVIOUS
  <2>1. Fails \subseteq 0 .. Len(b) + 1 /\ Len(b) + 1 \in Nat
    BY <1>2
  <2>2. PICK o \in Fails : \A p \in Fails : o >= p
    <3> HIDE DEF Fails
    <3> QED BY <2>1, GreatestPlace
  <2>3. o \in D /\ ~Agrees(o)
    OBVIOUS
  <2> HIDE DEF Agrees
  <2>4. ASSUME NEW p \in D, p > o PROVE Agrees(p)
    <3>1. ~(o >= p)
      BY <1>2, <2>3, <2>4
    <3> QED BY <2>2, <3>1
  <2> QED BY <1>3, <2>3, <2>4
<1>5. 1 \in D /\ \A s \in Starts(b) : s >= 1
  BY <1>2
<1>6. Agrees(1)
  <2> HIDE DEF Agrees
  <2> QED BY <1>4, <1>5
<1> QED BY <1>1, <1>5, <1>6

(* The units are those at the start codes.                                 *)
LEMMA UnitsAreAt ==
  ASSUME NEW b \in Seq(Byte), NEW x
  PROVE  (\E k \in DOMAIN UnitsOf(b) : UnitsOf(b)[k] = x) <=> \E s \in Starts(b) : UnitAt(b, s) = x
<1> DEFINE D == 1 .. Len(b) + 1
           In(q) == \E k \in DOMAIN q : q[k] = x
<1>1. PICK f : UnitsFrom(b, f) /\ UnitsOf(b) = f[1]
  BY UnitsOfFrom
<1> DEFINE Agrees(i) == In(f[i]) <=> \E s \in Starts(b) : UnitAt(b, s) = x /\ s >= i
           Fails == {i \in D : ~Agrees(i)}
<1>2. Len(b) \in Nat /\ \A s \in Starts(b) : s \in 1 .. Len(b) - 2
  BY BytesAt, StartsAre
<1>3. ASSUME NEW u \in Seq(Byte), NEW q \in Seq(Seq(Byte)) PROVE In(<<u>> \o q) <=> u = x \/ In(q)
  <2>1. <<u>> \in Seq(Seq(Byte)) /\ Len(<<u>>) = 1 /\ <<u>>[1] = u
    OBVIOUS
  <2>2. /\ <<u>> \o q \in Seq(Seq(Byte)) /\ Len(<<u>> \o q) = 1 + Len(q) /\ Len(q) \in Nat
        /\ \A k \in 1 .. 1 + Len(q) : (<<u>> \o q)[k] = IF k <= 1 THEN <<u>>[k] ELSE q[k - 1]
    BY <2>1, ConcatProperties, LenProperties
  <2>3. DOMAIN (<<u>> \o q) = 1 .. 1 + Len(q) /\ DOMAIN q = 1 .. Len(q)
    BY <2>2, LenProperties
  <2> DEFINE c == <<u>> \o q
  <2>4. c[1] = u /\ \A k \in 1 .. Len(q) : c[k + 1] = q[k] /\ k + 1 \in 1 .. 1 + Len(q)
    BY <2>1, <2>2
  <2>5. \A k \in 1 .. 1 + Len(q) : k = 1 \/ (k - 1 \in 1 .. Len(q) /\ c[k] = q[k - 1])
    BY <2>1, <2>2
  <2>6. 1 \in 1 .. 1 + Len(q)
    BY <2>2
  <2>7. DOMAIN c = 1 .. 1 + Len(q)
    BY <2>3
  <2> HIDE DEF c
  <2>8. ASSUME In(c) PROVE u = x \/ In(q)
    <3>1. PICK k \in DOMAIN c : c[k] = x
      BY <2>8
    <3>2. k = 1 \/ (k - 1 \in DOMAIN q /\ c[k] = q[k - 1])
      BY <2>3, <2>5, <2>7, <3>1
    <3> QED BY <2>4, <3>1, <3>2
  <2>9. ASSUME In(q) PROVE In(c)
    <3>1. PICK k \in DOMAIN q : q[k] = x
      BY <2>9
    <3>2. k + 1 \in DOMAIN c /\ c[k + 1] = x
      BY <2>3, <2>4, <2>7, <3>1
    <3> QED BY <3>2
  <2>10. u = x => In(c)
    BY <2>4, <2>6, <2>7
  <2>11. In(c) <=> u = x \/ In(q)
    <3> HIDE DEF In
    <3> QED BY <2>8, <2>9, <2>10
  <2> QED BY <2>11 DEF c
<1>4. ASSUME NEW i \in D, \A p \in D : p > i => Agrees(p)
      PROVE  Agrees(i)
  <2>1. CASE \A s \in Starts(b) : ~(s >= i)
    <3>1. f[i] = <<>> /\ DOMAIN <<>> = {}
      BY <1>1, <2>1 DEF UnitsFrom
    <3> QED BY <2>1, <3>1
  <2>2. CASE \E s : FirstFrom(b, i, s)
    <3>1. PICK s : FirstFrom(b, i, s)
      BY <2>2
    <3>2. f[i] = <<UnitAt(b, s)>> \o f[s + 1]
      BY <1>1, <3>1 DEF UnitsFrom
    <3>3. /\ s \in 1 .. Len(b) - 2 /\ s >= i /\ s \in Starts(b)
          /\ \A r \in Starts(b) : r >= i => s <= r
      BY <3>1, FirstPlace DEF FirstFrom
    <3>4. s + 1 \in D /\ s + 1 > i /\ \A r \in Starts(b) : r >= i <=> r = s \/ r >= s + 1
      BY <1>2, <3>3
    <3>5. f[s + 1] \in Seq(Seq(Byte)) /\ UnitAt(b, s) \in Seq(Byte)
      BY <1>1, <3>3, <3>4, UnitIs DEF UnitsFrom, UnitFits
    <3>6. In(f[s + 1]) <=> \E r \in Starts(b) : UnitAt(b, r) = x /\ r >= s + 1
      <4>1. Agrees(s + 1)
        <5> HIDE DEF Agrees
        <5> QED BY <1>4, <3>4
      <4> QED BY <4>1
    <3>7. In(f[i]) <=> UnitAt(b, s) = x \/ In(f[s + 1])
      <4> HIDE DEF In
      <4> QED BY <1>3, <3>2, <3>5
    <3> HIDE DEF In
    <3> QED BY <3>3, <3>4, <3>6, <3>7
  <2> QED BY <2>1, <2>2, FirstExists
<1>5. Fails = {}
  <2> SUFFICES ASSUME Fails # {} PROVE FALSE
    OBVIOUS
  <2>1. Fails \subseteq 0 .. Len(b) + 1 /\ Len(b) + 1 \in Nat
    BY <1>2
  <2>2. PICK i \in Fails : \A p \in Fails : i >= p
    <3> HIDE DEF Fails
    <3> QED BY <2>1, GreatestPlace
  <2>3. i \in D /\ ~Agrees(i)
    OBVIOUS
  <2> HIDE DEF Agrees
  <2>4. ASSUME NEW p \in D, p > i PROVE Agrees(p)
    <3>1. ~(i >= p)
      BY <1>2, <2>3, <2>4
    <3> QED BY <2>2, <3>1
  <2> QED BY <1>4, <2>3, <2>4
<1>6. 1 \in D /\ \A s \in Starts(b) : s >= 1
  BY <1>2
<1>7. Agrees(1)
  <2> HIDE DEF Agrees
  <2> QED BY <1>5, <1>6
<1> QED BY <1>1, <1>6, <1>7

(* So the scan's types are those of the units, where they matter.          *)
LEMMA TypesAgree ==
  ASSUME NEW b \in Seq(Byte), NEW t \in {7, 8},
         \A k \in DOMAIN UnitsOf(b) : UnitsOf(b)[k] # <<>>
  PROVE  t \in UnitTypes(b) <=> \E k \in DOMAIN UnitsOf(b) : UnitType(UnitsOf(b)[k]) = t
<1>1. ASSUME NEW s \in Starts(b), UnitAt(b, s) # <<>>
      PROVE  s + 3 <= Len(b) /\ UnitAt(b, s)[1] = b[s + 3]
  <2>1. s \in 1 .. Len(b) - 2 /\ Len(b) \in Nat
    BY BytesAt, StartsAre
  <2>2. UnitFits(b, s)
    BY UnitIs
  <2>3. /\ LastAt(b, s) \in s + 2 .. Len(b) /\ UnitAt(b, s) \in Seq(Byte)
        /\ Len(UnitAt(b, s)) = LastAt(b, s) - s - 2
        /\ \A k \in 1 .. LastAt(b, s) - s - 2 : UnitAt(b, s)[k] = b[s + 2 + k]
    BY <2>2 DEF UnitFits
  <2>4. Len(UnitAt(b, s)) # 0
    BY <1>1, <2>3, EmptySeq
  <2>5. s + 3 <= Len(b) /\ 1 \in 1 .. LastAt(b, s) - s - 2 /\ s + 2 + 1 = s + 3
    BY <2>1, <2>3, <2>4
  <2> QED BY <2>3, <2>5
<1>2. \A s \in Starts(b) : \E k \in DOMAIN UnitsOf(b) : UnitsOf(b)[k] = UnitAt(b, s)
  BY UnitsAreAt
<1>3. \A k \in DOMAIN UnitsOf(b) : \E s \in Starts(b) : UnitAt(b, s) = UnitsOf(b)[k]
  BY UnitsAreAt
<1>4. \A s \in Starts(b) : s + 3 <= Len(b) /\ UnitAt(b, s)[1] = b[s + 3]
  BY <1>1, <1>2
<1> QED BY <1>2, <1>3, <1>4, ScanFinds DEF UnitType
-----------------------------------------------------------------------------
(* A length in big-endian bytes.                                           *)
LEMMA BigEndianSteps ==
  ASSUME NEW b \in Seq(Byte)
  PROVE  \E f \in [0 .. Len(b) -> Nat] :
           /\ BigEndian(b) = f[Len(b)] /\ f[0] = 0
           /\ \A n \in 1 .. Len(b) : f[n] = 256 * f[n - 1] + b[n]
<1> DEFINE N == Len(b)
           step == [n \in 1 .. N |-> [x \in Nat |-> 256 * x + b[n]]]
           IsValue(value) == value = [n \in 0 .. N |-> IF n = 0 THEN 0 ELSE 256 * value[n - 1] + b[n]]
           chosen == CHOOSE value : IsValue(value)
<1>1. N \in Nat /\ \A n \in 1 .. N : b[n] \in Nat
  <2>1. N \in Nat /\ \A n \in 1 .. N : b[n] \in 0 .. 255
    BY BytesAt
  <2>2. \A x \in 0 .. 255 : x \in Nat
    OBVIOUS
  <2> HIDE DEF N
  <2> QED BY <2>1, <2>2, Zenon
<1>2. BigEndian(b) = chosen[N]
  BY DEF BigEndian
<1>3. step \in [1 .. N -> [Nat -> Nat]]
  <2> HIDE DEF N
  <2>1. ASSUME NEW n \in 1 .. N, NEW x \in Nat PROVE 256 * x + b[n] \in Nat
    <3> QED BY <1>1
  <2> QED BY <2>1
<1>4. PICK f \in [0 .. N -> Nat] : f[0] = 0 /\ \A n \in 1 .. N : f[n] = step[n][f[n - 1]]
  <2> HIDE DEF step, N
  <2> QED BY <1>1, <1>3, StepsExist
<1> HIDE DEF N
<1>5. \A n \in 1 .. N : n - 1 \in 0 .. N /\ f[n] = 256 * f[n - 1] + b[n]
  <2> SUFFICES ASSUME NEW n \in 1 .. N PROVE n - 1 \in 0 .. N /\ f[n] = 256 * f[n - 1] + b[n]
    OBVIOUS
  <2>1. n - 1 \in 0 .. N
    BY <1>1
  <2>2. f[n - 1] \in Nat
    BY <2>1
  <2>3. f[n] = step[n][f[n - 1]]
    BY <1>4
  <2> QED BY <2>1, <2>2, <2>3
<1>6. IsValue(f)
  <2>1. \A n \in 0 .. N : f[n] = IF n = 0 THEN 0 ELSE 256 * f[n - 1] + b[n]
    <3> SUFFICES ASSUME NEW n \in 0 .. N, n # 0 PROVE n \in 1 .. N
      BY <1>4, <1>5
    <3> QED BY <1>1
  <2> QED BY <2>1
<1>7. IsValue(chosen)
  <2> HIDE DEF IsValue
  <2> QED BY <1>6
<1> HIDE DEF chosen
<1>8. \A n \in 0 .. N : chosen[n] = IF n = 0 THEN 0 ELSE 256 * chosen[n - 1] + b[n]
  BY <1>7
<1>9. chosen[0] = 0 /\ \A n \in 1 .. N : chosen[n] = 256 * chosen[n - 1] + b[n]
  BY <1>1, <1>8
<1>10. \A n \in 0 .. N : chosen[n] = f[n]
  <2> DEFINE T == {n \in 0 .. N : chosen[n] # f[n]}
  <2> SUFFICES ASSUME T # {} PROVE FALSE
    OBVIOUS
  <2>1. PICK k \in T : \A j \in T : k <= j
    <3>1. T \subseteq Nat
      OBVIOUS
    <3> HIDE DEF T
    <3> QED BY <3>1, LeastPlace
  <2>2. k \in 0 .. N /\ chosen[k] # f[k]
    BY <2>1
  <2>3. k \in 1 .. N /\ k - 1 \in 0 .. N /\ ~(k <= k - 1)
    BY <1>1, <1>4, <1>9, <2>2
  <2>4. k - 1 \notin T
    <3> HIDE DEF T
    <3> QED BY <2>1, <2>3
  <2>5. chosen[k - 1] = f[k - 1]
    BY <2>3, <2>4
  <2> QED BY <1>5, <1>9, <2>2, <2>3, <2>5
<1>11. BigEndian(b) = f[N]
  BY <1>1, <1>2, <1>10
<1> QED BY <1>4, <1>5, <1>11 DEF N

LEMMA BigEndianNat == ASSUME NEW b \in Seq(Byte) PROVE BigEndian(b) \in Nat
<1>1. PICK f \in [0 .. Len(b) -> Nat] : BigEndian(b) = f[Len(b)]
  BY BigEndianSteps
<1>2. Len(b) \in Nat
  BY LenProperties
<1>3. Len(b) \in 0 .. Len(b)
  BY <1>2
<1> QED BY <1>1, <1>3

(* Where the units of an AVCC payload are.                                 *)
AvccPlaces(p, at) ==
  LET K == Len(p.units) IN
  /\ p.units \in Seq(Seq(Byte))
  /\ at \in [1 .. K + 1 -> Nat] /\ at[1] = 1 /\ at[K + 1] = Len(p.bytes) + 1
  /\ \A k \in 1 .. K :
       /\ at[k] >= 1 /\ at[k + 1] = at[k] + p.lengthSize + Len(p.units[k])
       /\ Clean(p.units[k])
       /\ SubSeq(p.bytes, at[k] + p.lengthSize, at[k + 1] - 1) = p.units[k]
       /\ BigEndian(SubSeq(p.bytes, at[k], (at[k] + p.lengthSize) - 1)) = Len(p.units[k])

LEMMA AvccIs ==
  ASSUME NEW p, p.lengthSize \in Nat, InAvcc(p)
  PROVE  \E at : AvccPlaces(p, at)
<1> DEFINE units == p.units
           size == p.lengthSize
           K == Len(units)
           IsAt(at) == at = [k \in 1 .. K + 1 |->
                              IF k = 1 THEN 1 ELSE at[k - 1] + size + Len(units[k - 1])]
           chosen == Offsets(units, size)
           step == [n \in 1 .. K |-> [x \in Nat |-> x + size + Len(units[n])]]
<1>1. units \in Seq(Seq(Byte)) /\ Len(p.bytes) + 1 = chosen[K + 1]
  BY DEF InAvcc
<1>2. \A k \in DOMAIN units :
        /\ Clean(units[k]) /\ SubSeq(p.bytes, chosen[k] + size, chosen[k + 1] - 1) = units[k]
        /\ BigEndian(SubSeq(p.bytes, chosen[k], (chosen[k] + size) - 1)) = Len(units[k])
  <2>1. \A k \in DOMAIN units : Clean(units[k])
    BY DEF InAvcc
  <2>2. \A k \in DOMAIN units : SubSeq(p.bytes, chosen[k] + size, chosen[k + 1] - 1) = units[k]
    BY DEF InAvcc
  <2>3. \A k \in DOMAIN units : BigEndian(SubSeq(p.bytes, chosen[k], (chosen[k] + size) - 1)) = Len(units[k])
    BY DEF InAvcc
  <2> QED BY <2>1, <2>2, <2>3
<1> HIDE DEF units, size, chosen
<1>3. /\ K \in Nat /\ DOMAIN units = 1 .. K /\ size \in Nat
      /\ \A n \in 1 .. K : units[n] \in Seq(Byte) /\ Len(units[n]) \in Nat
  <2>1. K \in Nat /\ DOMAIN units = 1 .. K /\ \A n \in 1 .. K : units[n] \in Seq(Byte)
    BY <1>1, LenProperties, ElementOfSeq
  <2> QED BY <2>1, LenProperties DEF size
<1> HIDE DEF K
<1>4. step \in [1 .. K -> [Nat -> Nat]]
  BY <1>3
<1>5. PICK f \in [0 .. K -> Nat] : f[0] = 0 /\ \A n \in 1 .. K : f[n] = step[n][f[n - 1]]
  <2> HIDE DEF step
  <2> QED BY <1>3, <1>4, StepsExist
<1>6. \A n \in 1 .. K : n - 1 \in 0 .. K /\ f[n] = f[n - 1] + size + Len(units[n])
  <2> SUFFICES ASSUME NEW n \in 1 .. K
               PROVE  n - 1 \in 0 .. K /\ f[n] = f[n - 1] + size + Len(units[n])
    OBVIOUS
  <2>1. n - 1 \in 0 .. K
    BY <1>3
  <2>2. f[n - 1] \in Nat
    BY <2>1
  <2> QED BY <1>5, <2>1, <2>2
<1> DEFINE at == [k \in 1 .. K + 1 |-> f[k - 1] + 1]
<1>7. at \in [1 .. K + 1 -> Nat] /\ at[1] = 1 /\ \A k \in 1 .. K + 1 : at[k] >= 1
  <2>1. \A k \in 1 .. K + 1 : k - 1 \in 0 .. K
    BY <1>3
  <2>2. \A k \in 1 .. K + 1 : f[k - 1] \in Nat
    BY <2>1
  <2>3. 1 \in 1 .. K + 1 /\ 1 - 1 = 0
    BY <1>3
  <2>4. at[1] = f[0] + 1
    BY <2>3
  <2> QED BY <1>5, <2>2, <2>4
<1>8. \A k \in 1 .. K : k \in 1 .. K + 1 /\ k + 1 \in 1 .. K + 1 /\ at[k + 1] = at[k] + size + Len(units[k])
  <2> SUFFICES ASSUME NEW k \in 1 .. K
               PROVE  k \in 1 .. K + 1 /\ k + 1 \in 1 .. K + 1 /\ at[k + 1] = at[k] + size + Len(units[k])
    OBVIOUS
  <2>1. k \in 1 .. K + 1 /\ k + 1 \in 1 .. K + 1 /\ k + 1 - 1 = k
    BY <1>3
  <2>2. at[k] = f[k - 1] + 1 /\ at[k + 1] = f[k] + 1
    BY <2>1
  <2>3. f[k] = f[k - 1] + size + Len(units[k]) /\ f[k - 1] \in Nat /\ Len(units[k]) \in Nat
    BY <1>3, <1>6
  <2> HIDE DEF at
  <2> QED BY <1>3, <2>1, <2>2, <2>3
<1> HIDE DEF at
<1>9. IsAt(at)
  <2>1. \A k \in 1 .. K + 1 : at[k] = IF k = 1 THEN 1 ELSE at[k - 1] + size + Len(units[k - 1])
    <3> SUFFICES ASSUME NEW k \in 1 .. K + 1, k # 1
                 PROVE  at[k] = at[k - 1] + size + Len(units[k - 1])
      BY <1>7
    <3>1. k - 1 \in 1 .. K /\ k - 1 + 1 = k
      BY <1>3
    <3> QED BY <1>8, <3>1
  <2> QED BY <1>7, <2>1
<1>10. IsAt(chosen)
  <2>1. chosen = CHOOSE at_ : IsAt(at_)
    BY DEF Offsets, chosen, K
  <2> HIDE DEF IsAt, chosen
  <2> QED BY <1>9, <2>1
<1>11. \A k \in 1 .. K + 1 : chosen[k] = IF k = 1 THEN 1 ELSE chosen[k - 1] + size + Len(units[k - 1])
  BY <1>10
<1>12. \A k \in 1 .. K + 1 : chosen[k] = at[k]
  <2> DEFINE T == {k \in 1 .. K + 1 : chosen[k] # at[k]}
  <2> SUFFICES ASSUME T # {} PROVE FALSE
    OBVIOUS
  <2>1. PICK k \in T : \A j \in T : k <= j
    <3>1. T \subseteq Nat
      OBVIOUS
    <3> HIDE DEF T
    <3> QED BY <3>1, LeastPlace
  <2>2. k \in 1 .. K + 1 /\ chosen[k] # at[k]
    BY <2>1
  <2>3. k # 1
    BY <1>7, <1>11, <2>2
  <2>4. k - 1 \in 1 .. K + 1 /\ k - 1 \in 1 .. K /\ k - 1 + 1 = k /\ ~(k <= k - 1)
    BY <1>3, <2>2, <2>3
  <2>5. k - 1 \notin T
    <3> HIDE DEF T
    <3> QED BY <2>1, <2>4
  <2>6. chosen[k - 1] = at[k - 1]
    BY <2>4, <2>5
  <2>7. chosen[k] = chosen[k - 1] + size + Len(units[k - 1])
    BY <1>11, <2>2, <2>3
  <2>8. at[k] = at[k - 1] + size + Len(units[k - 1])
    BY <1>8, <2>4
  <2> QED BY <2>2, <2>6, <2>7, <2>8
<1>13. at[K + 1] = Len(p.bytes) + 1
  <2>1. K + 1 \in 1 .. K + 1
    BY <1>3
  <2> QED BY <1>1, <1>12, <2>1
<1>14. \A k \in 1 .. K :
         /\ Clean(units[k]) /\ SubSeq(p.bytes, at[k] + size, at[k + 1] - 1) = units[k]
         /\ BigEndian(SubSeq(p.bytes, at[k], (at[k] + size) - 1)) = Len(units[k])
  BY <1>2, <1>3, <1>8, <1>12
<1>15. AvccPlaces(p, at)
  BY <1>1, <1>7, <1>8, <1>13, <1>14 DEF AvccPlaces, K, units, size
<1> QED BY <1>15
-----------------------------------------------------------------------------
(* What avcc_to_annex_b makes of the rest of a payload, from a cursor on.  *)
AvccStep(b, size, g, c) ==
  g[c] = IF c > Len(b) THEN << <<>> >>
         ELSE IF c + size - 1 > Len(b) THEN <<>>
         ELSE LET body   == c + size
                  length == BigEndian(SubSeq(b, c, body - 1))
              IN  IF body + length - 1 > Len(b) THEN <<>>
                  ELSE LET rest == g[body + length] IN
                       IF rest = <<>> \/ length = 0 THEN rest
                       ELSE <<StartCode \o SubSeq(b, body, body + length - 1) \o rest[1]>>

LEMMA PartOf ==
  ASSUME NEW b \in Seq(Byte), NEW i \in 1 .. Len(b) + 1, NEW j \in Nat, i <= j + 1, j <= Len(b)
  PROVE  SubSeq(b, i, j) \in Seq(Byte) /\ Len(SubSeq(b, i, j)) = j + 1 - i
<1>1. Len(b) \in Nat
  BY LenProperties
<1>2. CASE i <= j
  <2>1. i \in 1 .. Len(b) /\ j \in i .. Len(b)
    BY <1>1, <1>2
  <2> QED BY <1>1, <1>2, <2>1, SubSeqProperties
<1>3. CASE i = j + 1
  BY <1>1, <1>3, SubSeqProperties
<1> QED BY <1>1, <1>2, <1>3

LEMMA AvccSteps ==
  ASSUME NEW b \in Seq(Byte), NEW size \in 1 .. 4
  PROVE  \E g : /\ \A c \in 1 .. Len(b) + 1 : AvccStep(b, size, g, c)
                /\ AvccToAnnexB(b, size) = IF g[1] = << <<>> >> /\ b # <<>> THEN <<>> ELSE g[1]
<1> DEFINE D == 1 .. Len(b) + 1
           R == {<<>>} \cup {<<x>> : x \in Seq(Byte)}
           Length(c) == BigEndian(SubSeq(b, c, (c + size) - 1))
           Unit(c) == SubSeq(b, c + size, (c + size) + (Length(c) - 1))
           T == {c \in D : /\ ~(c > Len(b)) /\ ~(c + (size - 1) > Len(b))
                           /\ ~((c + size) + (Length(c) - 1) > Len(b))}
           next == [c \in T |-> (c + size) + Length(c)]
           step == [c \in T |-> [r \in R |-> IF r = <<>> \/ Length(c) = 0 THEN r
                                             ELSE <<(StartCode \o Unit(c)) \o r[1]>>]]
           base == [c \in D |-> IF c > Len(b) THEN << <<>> >> ELSE <<>>]
           M == Len(b) + 1
           rank == [c \in D |-> M - c]
           IsFrom(g) == g = [cursor \in D |->
             IF cursor > Len(b) THEN << <<>> >>
             ELSE IF cursor + size - 1 > Len(b) THEN <<>>
             ELSE LET body   == cursor + size
                      length == BigEndian(SubSeq(b, cursor, body - 1))
                  IN  IF body + length - 1 > Len(b) THEN <<>>
                      ELSE LET rest == g[body + length] IN
                           IF rest = <<>> \/ length = 0 THEN rest
                           ELSE <<StartCode \o SubSeq(b, body, body + length - 1) \o rest[1]>>]
           chosen == CHOOSE g : IsFrom(g)
<1>0. AvccToAnnexB(b, size) = IF chosen[1] = << <<>> >> /\ b # <<>> THEN <<>> ELSE chosen[1]
  BY DEF AvccToAnnexB
<1>1. Len(b) \in Nat /\ size \in Nat
  BY LenProperties
<1>2. ASSUME NEW c \in T
      PROVE  /\ c \in D /\ c + size \in Nat /\ Length(c) \in Nat /\ Unit(c) \in Seq(Byte)
             /\ (c + size) + Length(c) \in D /\ (c + size) + Length(c) > c
  <2>1. c \in D /\ c <= Len(b) /\ c + (size - 1) <= Len(b) /\ c \in Nat
    BY <1>1
  <2>2. Length(c) \in Nat
    <3>1. (c + size) - 1 \in Nat /\ c <= (c + size) - 1 + 1 /\ (c + size) - 1 <= Len(b)
      BY <1>1, <2>1
    <3>2. SubSeq(b, c, (c + size) - 1) \in Seq(Byte)
      BY <2>1, <3>1, PartOf
    <3> QED BY <3>2, BigEndianNat
  <2> HIDE DEF Length
  <2>3. (c + size) + (Length(c) - 1) <= Len(b)
    BY <1>1, <2>1, <2>2
  <2>4. (c + size) + Length(c) \in D /\ (c + size) + Length(c) > c /\ c + size \in Nat
    BY <1>1, <2>1, <2>2, <2>3
  <2>5. Unit(c) \in Seq(Byte)
    <3>1. /\ c + size \in 1 .. Len(b) + 1 /\ (c + size) + (Length(c) - 1) \in Nat
          /\ c + size <= (c + size) + (Length(c) - 1) + 1
      BY <1>1, <2>1, <2>2
    <3> QED BY <2>3, <3>1, PartOf
  <2> QED BY <2>1, <2>2, <2>4, <2>5
<1> HIDE DEF Length, Unit
<1>3. next \in [T -> D] /\ T \in SUBSET D
  <2> HIDE DEF D
  <2> QED BY <1>2
<1>4. \A r \in R : r = <<>> \/ (r # <<>> /\ r[1] \in Seq(Byte))
  OBVIOUS
<1>5. \A x \in Seq(Byte) : <<x>> \in R
  OBVIOUS
<1>6. step \in [T -> [R -> R]]
  <2>1. ASSUME NEW c \in T, NEW r \in R, r # <<>>
        PROVE  <<(StartCode \o Unit(c)) \o r[1]>> \in R
    <3>1. Unit(c) \in Seq(Byte) /\ r[1] \in Seq(Byte) /\ StartCode \in Seq(Byte)
      <4>1. Unit(c) \in Seq(Byte)
        <5> HIDE DEF T, D
        <5> QED BY <1>2
      <4> HIDE DEF R, T
      <4> QED BY <1>4, <2>1, <4>1, CodeBytes
    <3>2. (StartCode \o Unit(c)) \o r[1] \in Seq(Byte)
      <4> HIDE DEF R, T
      <4> QED BY <3>1, ConcatProperties
    <3> HIDE DEF R, T
    <3> QED BY <1>5, <3>2
  <2> HIDE DEF T, R
  <2> QED BY <2>1
<1>7. base \in [D -> R] /\ rank \in [D -> 0 .. M] /\ M \in Nat
  <2>1. << <<>> >> \in R
    BY <1>5, EmptySeq
  <2>2. base \in [D -> R]
    <3>1. <<>> \in R
      OBVIOUS
    <3> HIDE DEF R, D
    <3> QED BY <2>1, <3>1
  <2> QED BY <1>1, <2>2
<1>8. \A c \in T : rank[next[c]] < rank[c]
  <2> SUFFICES ASSUME NEW c \in T PROVE rank[next[c]] < rank[c]
    OBVIOUS
  <2>1. next[c] = (c + size) + Length(c) /\ c \in D
    OBVIOUS
  <2>2. next[c] \in D /\ next[c] > c
    <3> HIDE DEF T, D, next
    <3> QED BY <1>2, <2>1
  <2> HIDE DEF next, T
  <2> QED BY <1>1, <2>1, <2>2
<1>9. Descends(D, M, rank, R, T, next, step, base)
  <2> HIDE DEF T, D, M, R, next, step, base, rank
  <2> QED BY <1>3, <1>6, <1>7, <1>8 DEF Descends
<1>10. PICK f \in [D -> R] : \A c \in D : f[c] = IF c \in T THEN step[c][f[next[c]]] ELSE base[c]
  <2> HIDE DEF T, D, M, R, next, step, base, rank
  <2> QED BY <1>9, Recursion DEF Solves
<1>11. ASSUME NEW c \in T
       PROVE  LET rest == f[(c + size) + Length(c)] IN
              f[c] = IF rest = <<>> \/ Length(c) = 0 THEN rest
                     ELSE <<(StartCode \o Unit(c)) \o rest[1]>>
  <2>1. c \in D /\ f[c] = step[c][f[next[c]]]
    <3> HIDE DEF step, next, base
    <3> QED BY <1>3, <1>10
  <2>2. next[c] = (c + size) + Length(c) /\ f[next[c]] \in R
    <3>1. next[c] \in D
      <4> HIDE DEF next, T, D
      <4> QED BY <1>3
    <3> HIDE DEF D, R
    <3> QED BY <3>1, <1>10
  <2> HIDE DEF R, T, next
  <2> QED BY <2>1, <2>2
<1>12. \A c \in D \ T : f[c] = IF c > Len(b) THEN << <<>> >> ELSE <<>>
  <2> HIDE DEF step, next, T
  <2> QED BY <1>10
<1>13. IsFrom(f)
  <2>1. ASSUME NEW c \in D PROVE AvccStep(b, size, f, c)
    <3>1. CASE c \in T
      BY <1>11, <3>1 DEF AvccStep, Length, Unit
    <3>2. CASE c \notin T
      BY <1>12, <3>2 DEF AvccStep, Length
    <3> QED BY <3>1, <3>2
  <2> HIDE DEF D, R
  <2> QED BY <1>10, <2>1 DEF AvccStep
<1>14. IsFrom(chosen)
  <2> HIDE DEF IsFrom
  <2> QED BY <1>13
<1> HIDE DEF chosen
<1>15. \A c \in D : AvccStep(b, size, chosen, c)
  BY <1>14 DEF AvccStep
<1> QED BY <1>0, <1>15
-----------------------------------------------------------------------------
LEMMA NoUnits == UnitsOf(<<>>) = <<>>
<1>1. <<>> \in Seq(Byte) /\ Len(<<>>) = 0
  BY EmptySeq
<1>2. PICK f : UnitsFrom(<<>>, f) /\ UnitsOf(<<>>) = f[1]
  BY <1>1, UnitsOfFrom
<1>3. \A j \in Starts(<<>>) : FALSE
  <2> SUFFICES ASSUME NEW j \in Starts(<<>>) PROVE FALSE
    OBVIOUS
  <2>1. j \in 1 .. Len(<<>>) - 2
    BY <1>1, StartsAre
  <2>2. Len(<<>>) = 0
    BY <1>1
  <2>3. 1 .. 0 - 2 = {}
    OBVIOUS
  <2> QED BY <2>1, <2>2, <2>3
<1>4. 1 \in 1 .. Len(<<>>) + 1
  BY <1>1
<1> QED BY <1>2, <1>3, <1>4 DEF UnitsFrom

(* One more unit in front.                                                 *)
LEMMA UnitAhead ==
  ASSUME NEW u, Clean(u), NEW y \in Seq(Byte), Joins(y)
  PROVE  LET x == (StartCode \o u) \o y IN
         /\ x \in Seq(Byte) /\ x # <<>> /\ Joins(x)
         /\ UnitsOf(x) = <<u>> \o UnitsOf(y) /\ UnitsOf(y) \in Seq(Seq(Byte))
<1> DEFINE x == (StartCode \o u) \o y
<1>1. u \in Seq(Byte) /\ StartCode \in Seq(Byte) /\ StartCode \o u \in Seq(Byte)
  BY CodeFirst, CodeBytes DEF Clean
<1>2. UnitsOf(x) = UnitsOf(StartCode \o u) \o UnitsOf(y) /\ UnitsOf(y) \in Seq(Seq(Byte))
  BY <1>1, UnitsJoin
<1>3. x = StartCode \o (u \o y)
  BY <1>1, ConcatAssociative, SMTT(30)
<1>4. u \o y \in Seq(Byte)
  BY <1>1, ConcatProperties
<1>5. x \in Seq(Byte) /\ Len(x) = 4 + Len(u \o y) /\ Len(u \o y) \in Nat /\ LooksLikeAnnexB(x)
  BY <1>3, <1>4, CodeFirst
<1>6. x # <<>>
  <2> HIDE DEF x
  <2>1. Len(x) # 0
    BY <1>5
  <2> QED BY <2>1, EmptySeq
<1> HIDE DEF x
<1>7. UnitsOf(x) = <<u>> \o UnitsOf(y)
  BY <1>2, OneUnit
<1> QED BY <1>2, <1>5, <1>6, <1>7 DEF Joins, x

(* A payload in AVCC form of whatever units becomes, in avcc_to_annex_b,   *)
(* Annex B of the same units: none is lost, joined with the next or split. *)
THEOREM AvccConverts ==
  ASSUME NEW p, p.bytes \in Seq(Byte), p.lengthSize \in 1 .. 4, InAvcc(p)
  PROVE  \E x \in Seq(Byte) : /\ AvccToAnnexB(p.bytes, p.lengthSize) = <<x>>
                              /\ Joins(x) /\ UnitsOf(x) = p.units
<1> DEFINE b == p.bytes
           size == p.lengthSize
           units == p.units
           K == Len(units)
<1>1. b \in Seq(Byte) /\ size \in 1 .. 4 /\ size \in Nat
  OBVIOUS
<1>2. PICK at : AvccPlaces(p, at)
  BY <1>1, AvccIs
<1>3. PICK g : /\ \A c \in 1 .. Len(b) + 1 : AvccStep(b, size, g, c)
               /\ AvccToAnnexB(b, size) = IF g[1] = << <<>> >> /\ b # <<>> THEN <<>> ELSE g[1]
  BY <1>1, AvccSteps
<1>4. /\ units \in Seq(Seq(Byte))
      /\ at \in [1 .. K + 1 -> Nat] /\ at[1] = 1 /\ at[K + 1] = Len(b) + 1
      /\ \A k \in 1 .. K :
           /\ at[k] >= 1 /\ at[k + 1] = at[k] + size + Len(units[k])
           /\ Clean(units[k])
           /\ SubSeq(b, at[k] + size, at[k + 1] - 1) = units[k]
           /\ BigEndian(SubSeq(b, at[k], (at[k] + size) - 1)) = Len(units[k])
  BY <1>2 DEF AvccPlaces
<1> HIDE DEF b, size, units
<1>5. Len(b) \in Nat /\ K \in Nat /\ DOMAIN units = 1 .. K
  BY <1>1, <1>4, LenProperties
<1> HIDE DEF K
<1> DEFINE Good(k, x) ==
             /\ x \in Seq(Byte) /\ g[at[k]] = <<x>> /\ Joins(x) /\ (k <= K => x # <<>>)
             /\ UnitsOf(x) \in Seq(Seq(Byte)) /\ Len(UnitsOf(x)) = K + 1 - k
             /\ \A j \in 1 .. K + 1 - k : UnitsOf(x)[j] = units[k - 1 + j]
           Converts(k) == at[k] <= Len(b) + 1 /\ \E x : Good(k, x)
           Fails == {k \in 1 .. K + 1 : ~Converts(k)}
<1>6. Converts(K + 1)
  <2>1. K + 1 \in 1 .. K + 1 /\ Len(b) + 1 \in 1 .. Len(b) + 1 /\ K + 1 - (K + 1) = 0 /\ ~(K + 1 <= K)
    BY <1>5
  <2>2. g[Len(b) + 1] = << <<>> >>
    <3>1. AvccStep(b, size, g, Len(b) + 1)
      BY <1>3, <2>1
    <3> QED BY <1>5, <3>1 DEF AvccStep
  <2>3. UnitsOf(<<>>) = <<>> /\ <<>> \in Seq(Byte) /\ <<>> \in Seq(Seq(Byte)) /\ Len(<<>>) = 0 /\ Joins(<<>>)
    BY NoUnits, EmptySeq DEF Joins
  <2>4. Good(K + 1, <<>>)
    <3>1. Len(UnitsOf(<<>>)) = 0 /\ UnitsOf(<<>>) \in Seq(Seq(Byte)) /\ g[at[K + 1]] = << <<>> >>
      BY <1>4, <2>2, <2>3
    <3>2. \A j \in 1 .. K + 1 - (K + 1) : UnitsOf(<<>>)[j] = units[(K + 1) - 1 + j]
      BY <2>1
    <3> QED BY <2>1, <2>3, <3>1, <3>2
  <2>5. at[K + 1] <= Len(b) + 1
    BY <1>4, <1>5
  <2> HIDE DEF Good
  <2> QED BY <2>4, <2>5
<1>7. ASSUME NEW k \in 1 .. K, Converts(k + 1) PROVE Converts(k)
  <2> DEFINE u == units[k]
             n == Len(u)
             a == at[k]
  <2>1. PICK y : Good(k + 1, y)
    BY <1>7
  <2>2. /\ y \in Seq(Byte) /\ g[at[k + 1]] = <<y>> /\ Joins(y)
        /\ UnitsOf(y) \in Seq(Seq(Byte)) /\ Len(UnitsOf(y)) = K + 1 - (k + 1)
        /\ \A j \in 1 .. K + 1 - (k + 1) : UnitsOf(y)[j] = units[(k + 1) - 1 + j]
    BY <2>1
  <2>3. at[k + 1] <= Len(b) + 1
    BY <1>7
  <2> HIDE DEF Good
  <2>4. /\ a >= 1 /\ at[k + 1] = a + size + n /\ Clean(u)
        /\ SubSeq(b, a + size, at[k + 1] - 1) = u
        /\ BigEndian(SubSeq(b, a, (a + size) - 1)) = n
    BY <1>4
  <2>5. a \in Nat
    <3>1. k \in 1 .. K + 1
      BY <1>5
    <3> QED BY <1>4, <3>1
  <2>6. n \in Nat /\ n # 0 /\ u \in Seq(Byte)
    BY <2>4, LenProperties, EmptySeq DEF Clean
  <2> HIDE DEF a, u, n
  <2>7. /\ a \in 1 .. Len(b) + 1 /\ ~(a > Len(b)) /\ ~(a + size - 1 > Len(b))
        /\ ~((a + size) + n - 1 > Len(b)) /\ (a + size) + n = at[k + 1]
        /\ (a + size) + n - 1 = at[k + 1] - 1
    BY <1>1, <1>5, <2>3, <2>4, <2>5, <2>6
  <2>8. AvccStep(b, size, g, a)
    BY <1>3, <2>7
  <2> DEFINE x == (StartCode \o u) \o y
  <2>9. g[a] = <<x>>
    <3>1. <<y>> # <<>> /\ <<y>>[1] = y
      OBVIOUS
    <3>2. g[a] = LET body == a + size
                 IN  IF body + n - 1 > Len(b) THEN <<>>
                     ELSE LET rest == g[body + n] IN
                          IF rest = <<>> \/ n = 0 THEN rest
                          ELSE <<StartCode \o SubSeq(b, body, body + n - 1) \o rest[1]>>
      BY <2>4, <2>7, <2>8 DEF AvccStep
    <3>3. g[a] = LET rest == g[at[k + 1]] IN
                 IF rest = <<>> \/ n = 0 THEN rest
                 ELSE <<StartCode \o SubSeq(b, a + size, at[k + 1] - 1) \o rest[1]>>
      BY <2>7, <3>2
    <3> QED BY <2>2, <2>4, <2>6, <3>1, <3>3
  <2>10. /\ x \in Seq(Byte) /\ x # <<>> /\ Joins(x) /\ UnitsOf(x) = <<u>> \o UnitsOf(y)
    BY <2>2, <2>4, UnitAhead
  <2>11. /\ UnitsOf(x) \in Seq(Seq(Byte)) /\ Len(UnitsOf(x)) = K + 1 - k
         /\ \A j \in 1 .. K + 1 - k : UnitsOf(x)[j] = units[k - 1 + j]
    <3> HIDE DEF x
    <3>1. <<u>> \in Seq(Seq(Byte)) /\ Len(<<u>>) = 1 /\ <<u>>[1] = u
      BY <2>6
    <3>2. /\ UnitsOf(x) \in Seq(Seq(Byte)) /\ Len(UnitsOf(x)) = 1 + Len(UnitsOf(y))
          /\ \A j \in 1 .. 1 + Len(UnitsOf(y)) :
               UnitsOf(x)[j] = IF j <= 1 THEN <<u>>[j] ELSE UnitsOf(y)[j - 1]
      BY <2>2, <2>10, <3>1, ConcatProperties
    <3>3. 1 + Len(UnitsOf(y)) = K + 1 - k
      BY <1>5, <2>2
    <3>4. ASSUME NEW j \in 1 .. K + 1 - k PROVE UnitsOf(x)[j] = units[k - 1 + j]
      <4>1. CASE j = 1
        <5>1. k - 1 + j = k
          BY <1>5, <4>1
        <5> QED BY <3>1, <3>2, <3>3, <4>1, <5>1 DEF u
      <4>2. CASE j # 1
        <5>1. ~(j <= 1) /\ j - 1 \in 1 .. K + 1 - (k + 1) /\ (k + 1) - 1 + (j - 1) = k - 1 + j
          BY <1>5, <4>2
        <5>2. UnitsOf(y)[j - 1] = units[(k + 1) - 1 + (j - 1)]
          BY <2>2, <5>1
        <5> QED BY <3>2, <3>3, <5>1, <5>2
      <4> QED BY <4>1, <4>2
    <3> QED BY <3>2, <3>3, <3>4
  <2> HIDE DEF x
  <2>12. Good(k, x)
    BY <2>9, <2>10, <2>11 DEF Good, a
  <2>13. at[k] <= Len(b) + 1
    BY <1>5, <2>7 DEF a
  <2> QED BY <2>12, <2>13
<1>8. Fails = {}
  <2> SUFFICES ASSUME Fails # {} PROVE FALSE
    OBVIOUS
  <2>1. Fails \subseteq 0 .. K + 1 /\ K + 1 \in Nat
    BY <1>5
  <2>2. PICK k \in Fails : \A j \in Fails : k >= j
    <3> HIDE DEF Fails
    <3> QED BY <2>1, GreatestPlace
  <2>3. k \in 1 .. K + 1 /\ ~Converts(k)
    OBVIOUS
  <2> HIDE DEF Converts
  <2>4. k # K + 1
    BY <1>6, <2>3
  <2>5. k \in 1 .. K /\ k + 1 \in 1 .. K + 1 /\ ~(k >= k + 1)
    BY <1>5, <2>3, <2>4
  <2>6. Converts(k + 1)
    <3>1. k + 1 \notin Fails
      <4> HIDE DEF Fails
      <4> QED BY <2>2, <2>5
    <3> QED BY <2>5, <3>1
  <2> QED BY <1>7, <2>3, <2>5, <2>6
<1>9. Converts(1)
  <2>1. 1 \in 1 .. K + 1
    BY <1>5
  <2> HIDE DEF Converts
  <2> QED BY <1>8, <2>1
<1>10. PICK x : Good(1, x)
  BY <1>9
<1>11. /\ x \in Seq(Byte) /\ g[1] = <<x>> /\ Joins(x) /\ (1 <= K => x # <<>>)
       /\ UnitsOf(x) \in Seq(Seq(Byte)) /\ Len(UnitsOf(x)) = K
       /\ \A j \in 1 .. K : UnitsOf(x)[j] = units[j]
  <2>1. K + 1 - 1 = K /\ \A j \in 1 .. K : 1 - 1 + j = j
    BY <1>5
  <2> QED BY <1>4, <1>10, <2>1
<1> HIDE DEF Good
<1>12. UnitsOf(x) = units
  <2>1. Len(UnitsOf(x)) = Len(units) /\ \A j \in 1 .. Len(UnitsOf(x)) : UnitsOf(x)[j] = units[j]
    BY <1>11 DEF K
  <2> QED BY <1>4, <1>11, <2>1, SeqEqual
<1>13. AvccToAnnexB(b, size) = <<x>>
  <2>1. CASE b = <<>>
    BY <1>3, <1>11, <2>1
  <2>2. CASE b # <<>>
    <3>1. K # 0
      <4> SUFFICES ASSUME K = 0 PROVE FALSE
        OBVIOUS
      <4>1. Len(b) + 1 = 1
        BY <1>4
      <4>2. Len(b) = 0
        BY <1>5, <4>1
      <4> QED BY <1>1, <2>2, <4>2, EmptySeq
    <3>2. x # <<>>
      BY <1>5, <1>11, <3>1
    <3>3. <<x>> # << <<>> >>
      <4>1. <<x>>[1] = x /\ << <<>> >>[1] = <<>>
        OBVIOUS
      <4> QED BY <3>2, <4>1
    <3> QED BY <1>3, <1>11, <3>3
  <2> QED BY <2>1, <2>2
<1> QED BY <1>11, <1>12, <1>13 DEF b, size, units
-----------------------------------------------------------------------------
(* What read_avcc_unit has read: nothing, or bytes up to a cursor.         *)
ReadUnits == {<<>>} \cup {<<[cursor |-> c, units |-> u]>> : c \in Nat \ {0}, u \in Seq(Byte)}

LEMMA ReadIs ==
  ASSUME NEW r \in ReadUnits, r # <<>>
  PROVE  /\ r[1].cursor \in Nat \ {0} /\ r[1].units \in Seq(Byte)
BY DEF ReadUnits

LEMMA ReadTypes ==
  ASSUME NEW data \in Seq(Byte), NEW first \in Nat \ {0}, NEW count \in Nat
  PROVE  ReadAvccUnits(data, first, count) \in ReadUnits
<1> DEFINE D == 0 .. count
           R == ReadUnits
           T == 1 .. count
           Stop(r) == r[1].cursor + 2 + BigEndian(SubSeq(data, (r[1].cursor + 2) - 2, (r[1].cursor + 2) - 1))
           Gives(r) == IF r = <<>> \/ r[1].cursor + 1 > Len(data) THEN <<>>
                       ELSE IF Stop(r) > Len(data) + 1 THEN <<>>
                       ELSE <<[cursor |-> Stop(r),
                               units  |-> (r[1].units \o StartCode)
                                            \o SubSeq(data, r[1].cursor + 2, Stop(r) - 1)]>>
           Start == <<[cursor |-> first, units |-> <<>>]>>
           next == [n \in T |-> n - 1]
           step == [n \in T |-> [r \in R |-> Gives(r)]]
           base == [n \in D |-> Start]
           rank == [n \in D |-> n]
           IsRead(g) == g = [n \in 0 .. count |->
             IF n = 0 THEN <<[cursor |-> first, units |-> <<>>]>>
             ELSE LET before == g[n - 1] IN
                  IF before = <<>> \/ before[1].cursor + 1 > Len(data) THEN <<>>
                  ELSE LET start == before[1].cursor + 2
                           end   == start + BigEndian(SubSeq(data, start - 2, start - 1))
                       IN  IF end > Len(data) + 1 THEN <<>>
                           ELSE <<[cursor |-> end,
                                   units  |-> before[1].units \o StartCode
                                                \o SubSeq(data, start, end - 1)]>>]
           chosen == CHOOSE g : IsRead(g)
<1>0. ReadAvccUnits(data, first, count) = chosen[count]
  BY DEF ReadAvccUnits
<1>1. Len(data) \in Nat
  BY LenProperties
<1>2. ASSUME NEW r \in R PROVE Gives(r) \in R
  <2>1. <<>> \in R /\ \A c \in Nat \ {0}, u \in Seq(Byte) : <<[cursor |-> c, units |-> u]>> \in R
    BY DEF ReadUnits
  <2> SUFFICES ASSUME r # <<>>, ~(r[1].cursor + 1 > Len(data)), ~(Stop(r) > Len(data) + 1)
               PROVE  <<[cursor |-> Stop(r),
                         units  |-> (r[1].units \o StartCode)
                                      \o SubSeq(data, r[1].cursor + 2, Stop(r) - 1)]>> \in R
    <3> HIDE DEF R, Stop
    <3> QED BY <2>1
  <2> DEFINE c == r[1].cursor
  <2>2. c \in Nat /\ c >= 1 /\ r[1].units \in Seq(Byte) /\ c + 1 <= Len(data)
    <3>1. c \in Nat \ {0} /\ r[1].units \in Seq(Byte)
      BY ReadIs
    <3> HIDE DEF R, Stop
    <3> QED BY <1>1, <3>1
  <2>3. BigEndian(SubSeq(data, (c + 2) - 2, (c + 2) - 1)) \in Nat
    <3> HIDE DEF c
    <3>1. /\ (c + 2) - 2 \in 1 .. Len(data) + 1 /\ (c + 2) - 1 \in Nat
          /\ (c + 2) - 2 <= (c + 2) - 1 + 1 /\ (c + 2) - 1 <= Len(data)
      BY <1>1, <2>2
    <3> QED BY <3>1, PartOf, BigEndianNat
  <2>4. Stop(r) \in Nat \ {0} /\ Stop(r) >= c + 2
    <3> DEFINE n == BigEndian(SubSeq(data, (c + 2) - 2, (c + 2) - 1))
    <3>1. Stop(r) = c + 2 + n
      OBVIOUS
    <3> HIDE DEF c, n, Stop
    <3> QED BY <2>2, <2>3, <3>1 DEF n
  <2> HIDE DEF c, Stop
  <2>5. SubSeq(data, c + 2, Stop(r) - 1) \in Seq(Byte)
    <3>1. /\ c + 2 \in 1 .. Len(data) + 1 /\ Stop(r) - 1 \in Nat
          /\ c + 2 <= Stop(r) - 1 + 1 /\ Stop(r) - 1 <= Len(data)
      BY <1>1, <2>2, <2>4
    <3> QED BY <3>1, PartOf
  <2>6. (r[1].units \o StartCode) \o SubSeq(data, c + 2, Stop(r) - 1) \in Seq(Byte)
    <3>1. r[1].units \o StartCode \in Seq(Byte)
      BY <2>2, CodeBytes, ConcatProperties
    <3> QED BY <2>5, <3>1, ConcatProperties
  <2> HIDE DEF R
  <2> QED BY <2>1, <2>4, <2>6 DEF c
<1>3. Start \in R
  <2>1. <<>> \in Seq(Byte)
    BY EmptySeq
  <2> DEFINE e == <<>>
  <2>2. <<[cursor |-> first, units |-> e]>> \in R
    <3>1. e \in Seq(Byte)
      BY <2>1
    <3> HIDE DEF e
    <3> QED BY <3>1 DEF ReadUnits
  <2> QED BY <2>2
<1> HIDE DEF R, Gives, Start
<1>4. step \in [T -> [R -> R]] /\ base \in [D -> R]
  BY <1>2, <1>3
<1>5. next \in [T -> D] /\ T \in SUBSET D /\ rank \in [D -> 0 .. count]
  OBVIOUS
<1>6. \A n \in T : rank[next[n]] < rank[n]
  <2> SUFFICES ASSUME NEW n \in T PROVE rank[next[n]] < rank[n]
    OBVIOUS
  <2>1. n - 1 \in D /\ n \in D /\ next[n] = n - 1
    OBVIOUS
  <2> HIDE DEF next
  <2> QED BY <2>1
<1>7. Descends(D, count, rank, R, T, next, step, base)
  <2> HIDE DEF T, D, next, step, base, rank
  <2> QED BY <1>4, <1>5, <1>6 DEF Descends
<1>8. PICK f \in [D -> R] : Solves(f, D, T, next, step, base)
  <2> HIDE DEF T, D, next, step, base, rank
  <2> QED BY <1>7, Recursion
<1>9. /\ f[0] = Start
      /\ \A n \in T : n \in D /\ n - 1 \in D /\ f[n] = Gives(f[n - 1])
  <2>1. \A n \in D : f[n] = IF n \in T THEN step[n][f[next[n]]] ELSE base[n]
    <3> HIDE DEF T, D, next, step, base
    <3> QED BY <1>8 DEF Solves
  <2>2. 0 \in D /\ 0 \notin T /\ base[0] = Start
    OBVIOUS
  <2>3. f[0] = Start
    <3> HIDE DEF T, D, step, base
    <3> QED BY <2>1, <2>2
  <2>4. ASSUME NEW n \in T PROVE n \in D /\ n - 1 \in D /\ f[n] = Gives(f[n - 1])
    <3>1. n \in D /\ n - 1 \in D /\ next[n] = n - 1
      OBVIOUS
    <3>2. f[n - 1] \in R
      BY <3>1
    <3>3. step[n][f[n - 1]] = Gives(f[n - 1])
      <4> HIDE DEF T
      <4> QED BY <3>2
    <3> HIDE DEF step, next, T, D
    <3> QED BY <2>1, <3>1, <3>3
  <2> QED BY <2>3, <2>4
(* The step, for any g.                                                    *)
<1>10. \A g : IsRead(g) <=> g = [n \in D |-> IF n = 0 THEN Start ELSE Gives(g[n - 1])]
  <2> SUFFICES ASSUME NEW g PROVE IsRead(g) <=> g = [n \in D |-> IF n = 0 THEN Start ELSE Gives(g[n - 1])]
    OBVIOUS
  <2> QED BY DEF Start, Gives
<1> HIDE DEF IsRead
<1>11. IsRead(f)
  <2>1. \A n \in D : f[n] = IF n = 0 THEN Start ELSE Gives(f[n - 1])
    <3>1. \A n \in D : n = 0 \/ n \in T
      OBVIOUS
    <3> HIDE DEF D, T
    <3> QED BY <1>9, <3>1
  <2>2. f = [n \in D |-> IF n = 0 THEN Start ELSE Gives(f[n - 1])]
    <3> HIDE DEF D
    <3> QED BY <2>1
  <2> QED BY <1>10, <2>2
<1>12. IsRead(chosen)
  BY <1>11
<1> HIDE DEF chosen
<1>13. \A n \in D : chosen[n] = IF n = 0 THEN Start ELSE Gives(chosen[n - 1])
  <2>1. chosen = [n \in D |-> IF n = 0 THEN Start ELSE Gives(chosen[n - 1])]
    BY <1>10, <1>12
  <2> HIDE DEF D
  <2> QED BY <2>1
<1>14. \A n \in D : chosen[n] = f[n]
  <2>1. \A n \in D \ T : chosen[n] = base[n]
    <3>1. \A n \in D \ T : n = 0
      OBVIOUS
    <3> HIDE DEF T
    <3> QED BY <1>13, <3>1
  <2>2. ASSUME NEW n \in T, chosen[next[n]] \in R PROVE chosen[n] = step[n][chosen[next[n]]]
    <3>1. n \in D /\ n # 0 /\ next[n] = n - 1
      OBVIOUS
    <3>2. chosen[n] = Gives(chosen[n - 1])
      <4> HIDE DEF D
      <4> QED BY <1>13, <3>1
    <3>3. step[n][chosen[n - 1]] = Gives(chosen[n - 1])
      <4> HIDE DEF T, next
      <4> QED BY <2>2, <3>1
    <3> HIDE DEF step, next
    <3> QED BY <3>1, <3>2, <3>3
  <2> HIDE DEF T, D, next, step, base, rank
  <2> QED BY <1>7, <1>8, <2>1, <2>2, OneRecursion
<1>15. count \in D
  OBVIOUS
<1>16. chosen[count] \in R
  <2> HIDE DEF D
  <2> QED BY <1>8, <1>14, <1>15
<1> QED BY <1>0, <1>16 DEF R

(* A configuration's parameter sets are bytes, and its lengths have one to *)
(* four of them.                                                           *)
LEMMA ConfigTypes ==
  ASSUME NEW data \in Seq(Byte), NEW option, option = ExtractConfig(data).config, option # <<>>
  PROVE  option[1].parameterSets \in Seq(Byte) /\ option[1].lengthSize \in 1 .. 4
<1>1. Len(data) \in Nat /\ \A i \in 1 .. Len(data) : data[i] \in 0 .. 255
  BY BytesAt
<1>2. \A x \in 0 .. 255 : x % 32 \in Nat /\ (x % 4) + 1 \in 1 .. 4 /\ x \in Nat
  OBVIOUS
<1>3. CASE data # <<>> /\ LooksLikeAnnexB(data)
  <2>1. option = <<[lengthSize |-> 4, parameterSets |-> data]>>
    BY <1>3 DEF ExtractConfig
  <2> QED BY <2>1
<1>4. CASE ~(data # <<>> /\ LooksLikeAnnexB(data))
  <2>1. option = ParseAvcc(data)
    BY <1>4 DEF ExtractConfig
  <2> DEFINE sps == ReadAvccUnits(data, 7, data[6] % 32)
             pps == ReadAvccUnits(data, sps[1].cursor + 1, data[sps[1].cursor])
  <2>2. /\ Len(data) >= 7 /\ sps # <<>>
        /\ \/ option = <<[lengthSize |-> (data[5] % 4) + 1, parameterSets |-> sps[1].units]>>
           \/ /\ sps[1].cursor <= Len(data) /\ pps # <<>>
              /\ option = <<[lengthSize |-> (data[5] % 4) + 1,
                             parameterSets |-> sps[1].units \o pps[1].units]>>
    <3> DEFINE Config(units) == <<[lengthSize |-> (data[5] % 4) + 1, parameterSets |-> units]>>
    <3>1. ParseAvcc(data) =
            IF Len(data) < 7 \/ sps = <<>> THEN <<>>
            ELSE IF sps[1].cursor > Len(data) THEN Config(sps[1].units)
            ELSE IF pps = <<>> THEN <<>>
            ELSE Config(sps[1].units \o pps[1].units)
      BY DEF ParseAvcc
    <3>2. ~(Len(data) < 7) /\ sps # <<>>
      BY <2>1, <3>1
    <3>3. sps[1].cursor \in Nat
      <4>1. data[6] % 32 \in Nat
        <5>1. 6 \in 1 .. Len(data)
          BY <1>1, <3>2
        <5>2. data[6] \in 0 .. 255
          BY <1>1, <5>1
        <5> QED BY <1>2, <5>2
      <4> HIDE DEF Config
      <4> QED BY <3>2, <4>1, ReadTypes, ReadIs
    <3>4. sps[1].cursor > Len(data) \/ sps[1].cursor <= Len(data)
      <4> HIDE DEF sps
      <4> QED BY <1>1, <3>3
    <3>5. Len(data) >= 7
      BY <1>1, <3>2
    <3>6. \/ option = Config(sps[1].units)
          \/ sps[1].cursor <= Len(data) /\ pps # <<>> /\ option = Config(sps[1].units \o pps[1].units)
      <4> HIDE DEF sps, pps, Config
      <4> QED BY <2>1, <3>1, <3>2, <3>4
    <3> HIDE DEF sps, pps
    <3> QED BY <3>2, <3>5, <3>6
  <2>3. data[5] \in 0 .. 255 /\ data[6] \in 0 .. 255
    <3>1. 5 \in 1 .. Len(data) /\ 6 \in 1 .. Len(data)
      <4>1. Len(data) >= 7
        BY <2>2
      <4> QED BY <1>1, <4>1
    <3> QED BY <1>1, <3>1
  <2>4. sps[1].cursor \in Nat \ {0} /\ sps[1].units \in Seq(Byte)
    <3>1. data[6] % 32 \in Nat /\ 7 \in Nat \ {0}
      <4> DEFINE x == data[6]
      <4>1. x \in 0 .. 255
        BY <2>3
      <4> HIDE DEF x
      <4>2. x % 32 \in Nat /\ 7 \in Nat \ {0}
        BY <1>2, <4>1
      <4> QED BY <4>2 DEF x
    <3>2. sps \in ReadUnits
      BY <3>1, ReadTypes
    <3> QED BY <2>2, <3>2, ReadIs
  <2>5. sps[1].cursor <= Len(data) /\ pps # <<>> => pps[1].units \in Seq(Byte)
    <3> SUFFICES ASSUME sps[1].cursor <= Len(data), pps # <<>> PROVE pps[1].units \in Seq(Byte)
      OBVIOUS
    <3>1. sps[1].cursor + 1 \in Nat \ {0} /\ sps[1].cursor \in 1 .. Len(data)
      <4> HIDE DEF sps
      <4> QED BY <1>1, <2>4
    <3>2. data[sps[1].cursor] \in Nat
      <4> HIDE DEF sps
      <4> QED BY <1>1, <1>2, <3>1
    <3>3. pps \in ReadUnits
      <4> HIDE DEF sps
      <4> QED BY <3>1, <3>2, ReadTypes
    <3> QED BY <3>3, ReadIs
  <2> HIDE DEF sps, pps
  <2>6. (data[5] % 4) + 1 \in 1 .. 4
    BY <1>2, <2>3
  <2>7. sps[1].cursor <= Len(data) /\ pps # <<>> => sps[1].units \o pps[1].units \in Seq(Byte)
    BY <2>4, <2>5, ConcatProperties
  <2> DEFINE size == (data[5] % 4) + 1
  <2>8. \A u : option = <<[lengthSize |-> size, parameterSets |-> u]>> =>
               option[1].parameterSets = u /\ option[1].lengthSize = size
    <3> HIDE DEF size
    <3> QED OBVIOUS
  <2>9. CASE option = <<[lengthSize |-> size, parameterSets |-> sps[1].units]>>
    BY <2>4, <2>6, <2>8, <2>9
  <2>10. CASE /\ sps[1].cursor <= Len(data) /\ pps # <<>>
              /\ option = <<[lengthSize |-> size, parameterSets |-> sps[1].units \o pps[1].units]>>
    BY <2>6, <2>7, <2>8, <2>10
  <2> QED BY <2>2, <2>9, <2>10
<1> QED BY <1>3, <1>4
-----------------------------------------------------------------------------
(* No unit is past the end.                                                *)
LEMMA AvccWithin ==
  ASSUME NEW p, NEW at, p.bytes \in Seq(Byte), p.lengthSize \in Nat, AvccPlaces(p, at)
  PROVE  \A k \in 1 .. Len(p.units) + 1 : at[k] <= Len(p.bytes) + 1
<1> DEFINE K == Len(p.units)
           N == Len(p.bytes) + 1
           size == p.lengthSize
           Fails == {k \in 1 .. K + 1 : ~(at[k] <= N)}
<1>1. /\ p.units \in Seq(Seq(Byte)) /\ at \in [1 .. K + 1 -> Nat] /\ at[K + 1] = N
      /\ \A k \in 1 .. K : at[k + 1] = at[k] + size + Len(p.units[k])
  BY DEF AvccPlaces
<1>2. K \in Nat /\ N \in Nat /\ size \in Nat /\ \A k \in 1 .. K : Len(p.units[k]) \in Nat
  <2>1. K \in Nat /\ Len(p.bytes) \in Nat /\ \A k \in 1 .. K : p.units[k] \in Seq(Byte)
    BY <1>1, LenProperties, ElementOfSeq
  <2> QED BY <2>1, LenProperties
<1> HIDE DEF K, N, size
<1>3. Fails = {}
  <2> SUFFICES ASSUME Fails # {} PROVE FALSE
    OBVIOUS
  <2>1. Fails \subseteq 0 .. K + 1 /\ K + 1 \in Nat
    BY <1>2
  <2>2. PICK k \in Fails : \A j \in Fails : k >= j
    <3> HIDE DEF Fails
    <3> QED BY <2>1, GreatestPlace
  <2>3. k \in 1 .. K + 1 /\ ~(at[k] <= N)
    OBVIOUS
  <2>4. k # K + 1
    <3> SUFFICES ASSUME k = K + 1 PROVE FALSE
      OBVIOUS
    <3>1. at[k] = N
      BY <1>1
    <3> QED BY <1>2, <2>3, <3>1
  <2>5. k \in 1 .. K /\ k + 1 \in 1 .. K + 1 /\ ~(k >= k + 1)
    BY <1>2, <2>3, <2>4
  <2>6. at[k + 1] <= N
    <3>1. k + 1 \notin Fails
      <4> HIDE DEF Fails
      <4> QED BY <2>2, <2>5
    <3> QED BY <2>5, <3>1
  <2>7. at[k + 1] = at[k] + size + Len(p.units[k]) /\ at[k] \in Nat /\ Len(p.units[k]) \in Nat
    BY <1>1, <1>2, <2>3, <2>5
  <2> QED BY <1>2, <2>3, <2>6, <2>7
<1> QED BY <1>3 DEF K, N

(* The value of a few bytes.                                               *)
LEMMA FewBytes ==
  ASSUME NEW b \in Seq(Byte), NEW size \in 1 .. 4, size <= Len(b)
  PROVE  LET n == BigEndian(SubSeq(b, 1, size)) IN
         /\ size = 1 => n = b[1]
         /\ size = 2 => n = 256 * b[1] + b[2]
         /\ size = 3 => n = 256 * (256 * b[1] + b[2]) + b[3]
         /\ size = 4 => n = 256 * (256 * (256 * b[1] + b[2]) + b[3]) + b[4]
<1> DEFINE d == SubSeq(b, 1, size)
<1>1. Len(b) \in Nat /\ \A i \in 1 .. Len(b) : b[i] \in 0 .. 255
  BY BytesAt
<1>2. d \in Seq(Byte) /\ Len(d) = size /\ \A i \in 1 .. size : d[i] = b[i]
  <2>1. \A i \in 1 .. size : b[i] \in Byte
    BY <1>1 DEF Byte
  <2>2. /\ d \in Seq(Byte) /\ Len(d) = IF 1 <= size THEN size - 1 + 1 ELSE 0
        /\ \A i \in 1 .. size - 1 + 1 : d[i] = b[1 + i - 1]
    BY <2>1, SubSeqProperties
  <2>3. size - 1 + 1 = size /\ 1 <= size /\ \A i \in 1 .. size : 1 + i - 1 = i
    OBVIOUS
  <2> HIDE DEF d
  <2> QED BY <2>2, <2>3
<1> HIDE DEF d
<1>3. PICK v \in [0 .. size -> Nat] :
        /\ BigEndian(d) = v[size] /\ v[0] = 0 /\ \A n \in 1 .. size : v[n] = 256 * v[n - 1] + d[n]
  <2> DEFINE Valued(k) == \E v \in [0 .. k -> Nat] :
                 /\ BigEndian(d) = v[k] /\ v[0] = 0
                 /\ \A n \in 1 .. k : v[n] = 256 * v[n - 1] + d[n]
  <2>1. Valued(Len(d))
    BY <1>2, BigEndianSteps
  <2>2. Valued(size)
    <3> HIDE DEF Valued
    <3> QED BY <1>2, <2>1
  <2> QED BY <2>2
<1>4. ASSUME NEW n \in 1 .. size PROVE v[n] = 256 * v[n - 1] + b[n]
  <2>1. v[n] = 256 * v[n - 1] + d[n]
    BY <1>3
  <2>2. d[n] = b[n]
    BY <1>2
  <2> QED BY <2>1, <2>2
<1>5. v[1] = b[1]
  <2>1. 1 \in 1 .. size /\ 1 \in 1 .. Len(b) /\ 1 - 1 = 0
    BY <1>1
  <2>2. v[1] = 256 * v[0] + b[1]
    BY <1>4, <2>1
  <2>3. b[1] \in 0 .. 255
    BY <1>1, <2>1
  <2>4. v[1] = 256 * 0 + b[1]
    BY <1>3, <2>2
  <2>5. \A y \in 0 .. 255 : 256 * 0 + y = y
    OBVIOUS
  <2> QED BY <2>3, <2>4, <2>5
<1>6. size >= 2 => v[2] = 256 * b[1] + b[2]
  <2>1. size >= 2 => 2 \in 1 .. size /\ 2 - 1 = 1
    OBVIOUS
  <2>2. size >= 2 => v[2] = 256 * v[2 - 1] + b[2]
    BY <1>4, <2>1
  <2> QED BY <1>5, <2>1, <2>2
<1>7. size >= 3 => v[3] = 256 * (256 * b[1] + b[2]) + b[3]
  <2>1. size >= 3 => 3 \in 1 .. size /\ 3 - 1 = 2 /\ size >= 2
    OBVIOUS
  <2>2. size >= 3 => v[3] = 256 * v[3 - 1] + b[3]
    BY <1>4, <2>1
  <2> QED BY <1>6, <2>1, <2>2
<1>8. size >= 4 => v[4] = 256 * (256 * (256 * b[1] + b[2]) + b[3]) + b[4]
  <2>1. size >= 4 => 4 \in 1 .. size /\ 4 - 1 = 3 /\ size >= 3
    OBVIOUS
  <2>2. size >= 4 => v[4] = 256 * v[4 - 1] + b[4]
    BY <1>4, <2>1
  <2> QED BY <1>7, <2>1, <2>2
<1> QED BY <1>3, <1>5, <1>6, <1>7, <1>8 DEF d

(* Only such a first length reads as a start code.                         *)
LEMMA AvccAmbiguous ==
  ASSUME NEW p, p.bytes \in Seq(Byte), p.lengthSize \in 1 .. 4, InAvcc(p), LooksLikeAnnexB(p.bytes)
  PROVE  Ambiguous(p)
<1> DEFINE b == p.bytes
           size == p.lengthSize
           units == p.units
           K == Len(units)
           n == Len(units[1])
<1>1. PICK at : AvccPlaces(p, at)
  BY AvccIs
<1>2. /\ Len(b) \in Nat /\ Len(b) >= 3 /\ b[1] = 0 /\ b[2] = 0
      /\ \/ b[3] = 1
         \/ b[3] = 0 /\ 4 <= Len(b) /\ b[4] = 1
  <2>1. /\ Len(b) >= 3 /\ b[1] = 0 /\ b[2] = 0
        /\ \/ b[3] = 1
           \/ b[3] = 0 /\ 2 \in Starts(b)
    BY AnnexBStarts
  <2>2. Len(b) \in Nat
    BY LenProperties
  <2>3. 2 \in Starts(b) => 2 \in 1 .. Len(b) - 2 /\ b[2 + 2] = 1
    BY StartsAre
  <2>4. 2 + 2 = 4
    OBVIOUS
  <2> QED BY <2>1, <2>2, <2>3, <2>4
<1>3. /\ units \in Seq(Seq(Byte)) /\ at[1] = 1 /\ at[K + 1] = Len(b) + 1
      /\ \A k \in 1 .. K :
           /\ at[k + 1] = at[k] + size + Len(units[k]) /\ Clean(units[k])
           /\ BigEndian(SubSeq(b, at[k], (at[k] + size) - 1)) = Len(units[k])
  BY <1>1 DEF AvccPlaces
<1>4. \A k \in 1 .. K + 1 : at[k] <= Len(b) + 1
  BY <1>1, AvccWithin
<1> HIDE DEF b, size
<1>5. K \in Nat
  BY <1>3, LenProperties
<1>6. K # 0 /\ units # <<>>
  <2>1. K # 0
    <3> SUFFICES ASSUME K = 0 PROVE FALSE
      OBVIOUS
    <3>1. Len(b) + 1 = 1
      BY <1>3
    <3> QED BY <1>2, <3>1
  <2> QED BY <2>1, EmptySeq
<1> HIDE DEF K, units
<1>7. 1 \in 1 .. K /\ 1 + 1 \in 1 .. K + 1
  BY <1>5, <1>6
<1>8. size \in 1 .. 4
  BY DEF size
<1>9. n \in Nat /\ n # 0
  <2>1. Clean(units[1])
    BY <1>3, <1>7
  <2> QED BY <2>1, LenProperties, EmptySeq DEF Clean
<1>10. size <= Len(b) /\ BigEndian(SubSeq(b, 1, size)) = n
  <2>1. at[1 + 1] = 1 + size + n /\ at[1 + 1] <= Len(b) + 1
    BY <1>3, <1>4, <1>7
  <2>2. (1 + size) - 1 = size
    BY <1>8
  <2>3. BigEndian(SubSeq(b, 1, size)) = n
    BY <1>3, <1>7, <2>2
  <2> HIDE DEF n
  <2> QED BY <1>2, <1>8, <1>9, <2>1, <2>3
<1> HIDE DEF n
<1>11. /\ size = 1 => n = b[1]
       /\ size = 2 => n = 256 * b[1] + b[2]
       /\ size = 3 => n = 256 * (256 * b[1] + b[2]) + b[3]
       /\ size = 4 => n = 256 * (256 * (256 * b[1] + b[2]) + b[3]) + b[4]
  <2>1. b \in Seq(Byte)
    BY DEF b
  <2> QED BY <1>8, <1>10, <2>1, FewBytes
<1>12. size = 4 => b[4] \in 0 .. 255
  <2>1. b \in Seq(Byte)
    BY DEF b
  <2>2. size = 4 => 4 \in 1 .. Len(b)
    BY <1>2, <1>10
  <2> QED BY <2>1, <2>2, BytesAt
<1>13. (size = 4 /\ n \in {1} \cup 256 .. 511) \/ (size = 3 /\ n = 1)
  <2>1. size # 1 /\ size # 2
    BY <1>2, <1>9, <1>11
  <2>2. size = 3 => n = 1
    BY <1>2, <1>9, <1>11
  <2>3. size = 4 => n \in {1} \cup 256 .. 511
    <3> SUFFICES ASSUME size = 4 PROVE n \in {1} \cup 256 .. 511
      OBVIOUS
    <3> DEFINE x == b[4]
    <3>1. x \in 0 .. 255 /\ n = 256 * (256 * (256 * b[1] + b[2]) + b[3]) + x
      BY <1>11, <1>12
    <3>2. b[1] = 0 /\ b[2] = 0 /\ (b[3] = 1 \/ (b[3] = 0 /\ x = 1))
      BY <1>2
    <3> HIDE DEF x
    <3>3. CASE b[3] = 1
      <4>1. n = 256 * (256 * (256 * 0 + 0) + 1) + x
        BY <3>1, <3>2, <3>3
      <4>2. n = 256 + x
        BY <3>1, <4>1
      <4>3. n \in 256 .. 511
        <5>1. \A y \in 0 .. 255 : 256 + y \in 256 .. 511
          OBVIOUS
        <5>2. x \in 0 .. 255
          BY <3>1
        <5> QED BY <4>2, <5>1, <5>2
      <4> QED BY <4>3
    <3>4. CASE b[3] = 0 /\ x = 1
      <4>1. n = 256 * (256 * (256 * 0 + 0) + 0) + 1
        BY <3>1, <3>2, <3>4
      <4> QED BY <4>1
    <3> QED BY <3>2, <3>3, <3>4
  <2> QED BY <1>8, <2>1, <2>2, <2>3
<1> QED BY <1>6, <1>13 DEF Ambiguous, n, size, units
-----------------------------------------------------------------------------
(* Whatever the container, a payload becomes Annex B of the same units.    *)
LEMMA Converted ==
  ASSUME NEW p, NEW option, NEW out,
         option = <<>> \/ option[1].lengthSize \in 1 .. 4, WellFormed(p, option), ~Ambiguous(p),
         out = (IF LooksLikeAnnexB(p.bytes) THEN <<p.bytes>>
                ELSE AvccToAnnexB(p.bytes, LengthSize(option))),
         out # <<>>
  PROVE  /\ out[1] \in Seq(Byte) /\ Joins(out[1]) /\ UnitsOf(out[1]) = p.units
         /\ \A k \in DOMAIN p.units : p.units[k] # <<>>
<1>1. p.bytes \in Seq(Byte) /\ LengthSize(option) \in 1 .. 4
  BY DEF WellFormed, LengthSize
<1>2. CASE InAnnexB(p) /\ LooksLikeAnnexB(p.bytes)
  <2>1. out = <<p.bytes>> /\ p.units = UnitsOf(p.bytes) /\ \A k \in DOMAIN p.units : p.units[k] # <<>>
    BY <1>2 DEF InAnnexB
  <2>2. out[1] = p.bytes
    BY <2>1
  <2> QED BY <1>1, <1>2, <2>1, <2>2 DEF Joins
<1>3. CASE InAnnexB(p) /\ ~LooksLikeAnnexB(p.bytes)
  <2>1. /\ p.bytes = <<>> /\ p.units = UnitsOf(<<>>) /\ out = AvccToAnnexB(<<>>, LengthSize(option))
        /\ \A k \in DOMAIN p.units : p.units[k] # <<>>
    BY <1>3 DEF InAnnexB
  <2>2. <<>> \in Seq(Byte) /\ Len(<<>>) = 0
    BY EmptySeq
  <2>3. PICK g : /\ \A c \in 1 .. Len(<<>>) + 1 : AvccStep(<<>>, LengthSize(option), g, c)
                 /\ AvccToAnnexB(<<>>, LengthSize(option))
                      = IF g[1] = << <<>> >> /\ <<>> # <<>> THEN <<>> ELSE g[1]
    BY <1>1, <2>2, AvccSteps
  <2>4. AvccStep(<<>>, LengthSize(option), g, 1) /\ 1 > Len(<<>>)
    BY <2>2, <2>3
  <2>5. g[1] = << <<>> >>
    BY <2>4 DEF AvccStep
  <2>6. out[1] = <<>>
    BY <2>1, <2>3, <2>5
  <2> QED BY <2>1, <2>2, <2>6 DEF Joins
<1>4. CASE InAvcc(p) /\ p.lengthSize = LengthSize(option)
  <2>1. ~LooksLikeAnnexB(p.bytes)
    BY <1>1, <1>4, AvccAmbiguous
  <2>2. PICK x \in Seq(Byte) : /\ AvccToAnnexB(p.bytes, p.lengthSize) = <<x>>
                               /\ Joins(x) /\ UnitsOf(x) = p.units
    BY <1>1, <1>4, AvccConverts
  <2>3. out[1] = x
    BY <1>4, <2>1, <2>2
  <2>4. \A k \in DOMAIN p.units : p.units[k] # <<>>
    BY <1>4 DEF InAvcc, Clean
  <2> QED BY <2>2, <2>3, <2>4
<1>5. CASE ~LooksLikeAnnexB(p.bytes) /\ AvccToAnnexB(p.bytes, LengthSize(option)) = <<>>
  BY <1>5
<1> QED BY <1>2, <1>3, <1>4, <1>5 DEF WellFormed

(* What is sent for a payload has its units, behind the parameter sets if  *)
(* it needs them.                                                          *)
LEMMA NormalizedUnits ==
  ASSUME NEW data \in Seq(Byte), NEW p, NEW option, option = ExtractConfig(data).config,
         WellFormed(p, option), ~Ambiguous(p), Normalize(p.bytes, p.key, option) # <<>>
  PROVE  LET types == {UnitType(p.units[k]) : k \in DOMAIN p.units}
             needs == p.key /\ option # <<>> /\ ~({SPS, PPS} \subseteq types)
         IN  UnitsOf(Normalize(p.bytes, p.key, option)[1])
               = (IF needs THEN UnitsOf(option[1].parameterSets) ELSE <<>>) \o p.units
<1> DEFINE out == IF LooksLikeAnnexB(p.bytes) THEN <<p.bytes>>
                  ELSE AvccToAnnexB(p.bytes, LengthSize(option))
           types == {UnitType(p.units[k]) : k \in DOMAIN p.units}
           needs == p.key /\ option # <<>> /\ ~({SPS, PPS} \subseteq types)
           new == Normalize(p.bytes, p.key, option)
<1>1. option # <<>> => option[1].parameterSets \in Seq(Byte) /\ option[1].lengthSize \in 1 .. 4
  BY ConfigTypes
<1>2. new = IF out # <<>> /\ p.key /\ option # <<>> /\ LacksOne(out[1])
            THEN <<option[1].parameterSets \o out[1]>> ELSE out
  BY DEF Normalize, LengthSize
<1>3. out # <<>>
  BY <1>2
<1>4. /\ out[1] \in Seq(Byte) /\ Joins(out[1]) /\ UnitsOf(out[1]) = p.units
      /\ \A k \in DOMAIN p.units : p.units[k] # <<>>
  BY <1>1, <1>3, Converted
<1> HIDE DEF out, new
<1>5. LacksOne(out[1]) <=> ~({SPS, PPS} \subseteq types)
  <2>1. \A t \in {7, 8} : t \in UnitTypes(out[1]) <=> \E k \in DOMAIN p.units : UnitType(p.units[k]) = t
    BY <1>4, TypesAgree
  <2>2. \A t \in {7, 8} : t \in UnitTypes(out[1]) <=> t \in types
    BY <2>1
  <2> HIDE DEF types
  <2> QED BY <2>2 DEF LacksOne, SPS, PPS
<1> HIDE DEF types
<1>6. CASE needs
  <2>1. new[1] = option[1].parameterSets \o out[1]
    BY <1>2, <1>3, <1>5, <1>6
  <2>2. UnitsOf(new[1]) = UnitsOf(option[1].parameterSets) \o UnitsOf(out[1])
    <3> DEFINE a == option[1].parameterSets
               b == out[1]
    <3>1. a \in Seq(Byte) /\ b \in Seq(Byte) /\ Joins(b) /\ new[1] = a \o b
      BY <1>1, <1>4, <1>6, <2>1
    <3> HIDE DEF a, b
    <3>2. UnitsOf(new[1]) = UnitsOf(a) \o UnitsOf(b)
      BY <3>1, UnitsJoin
    <3> QED BY <3>2 DEF a, b
  <2> QED BY <1>4, <1>6, <2>2 DEF new, types
<1>7. CASE ~needs
  <2>1. new = out
    BY <1>2, <1>5, <1>7
  <2>2. p.units \in Seq(Seq(Byte))
    <3>1. <<>> \in Seq(Byte)
      BY EmptySeq
    <3> QED BY <1>4, <3>1, UnitsJoin DEF Joins
  <2>3. <<>> \o p.units = p.units
    BY <2>2, ConcatEmptySeq
  <2> QED BY <1>4, <1>7, <2>1, <2>3 DEF new, types
<1> QED BY <1>6, <1>7
-----------------------------------------------------------------------------
(* A demuxer has opened an H.264 stream; what it sent last is what its     *)
(* last packet was made into.                                              *)
Opened ==
  /\ stream \in Streams /\ stream.codec = "h264"
  /\ config = ExtractConfig(stream.extradata).config

PInv ==
  /\ (mode = "demux" /\ pc \in {"read", "packet"}) \/ normalized # <<>> => Opened
  /\ normalized # <<>> =>
       /\ payload \in stream.payloads /\ Normalize(payload.bytes, payload.key, config) # <<>>
       /\ normalized = Normalize(payload.bytes, payload.key, config)[1]
  /\ pc = "idle" => normalized = <<>>
  /\ pc \in {"decode", "filter", "encode"} => mode # "demux"

LEMMA InitPInv == Init => PInv
BY DEF Init, AttemptInit, PInv

(* Steps of an attempt that normalize nothing.                             *)
LEMMA QuietPInv ==
  ASSUME PInv, UNCHANGED <<mode, stream, media>>, pc' # "idle",
         mode = "demux" => /\ pc' \notin {"decode", "filter", "encode"}
                           /\ pc' \in {"read", "packet"} => pc \in {"read", "packet"}
  PROVE  PInv'
BY DEF PInv, Opened, media

LEMMA DemuxPInv == ASSUME PInv, NEW p \in stream.payloads, DemuxPacket(p) PROVE PInv'
<1> USE DEF DemuxPacket
<1>1. /\ mode = "demux" /\ pc = "packet" /\ UNCHANGED <<mode, stream, config>> /\ Opened
  BY DEF PInv
<1>2. CASE Normalize(p.bytes, p.key, config) = <<>>
  BY <1>1, <1>2 DEF PInv, Opened, Fail
<1>3. CASE Normalize(p.bytes, p.key, config) # <<>>
  <2>1. payload' = p /\ normalized' = Normalize(p.bytes, p.key, config)[1] /\ pc' \in {"read", "done"}
    BY <1>3 DEF Goto
  <2> QED BY <1>1, <1>3, <2>1 DEF PInv, Opened
<1> QED BY <1>2, <1>3

LEMMA AttemptPInv == ASSUME PInv, AttemptNext PROVE PInv'
<1>1. ASSUME NEW p \in stream.payloads, DemuxPacket(p) PROVE PInv'
  BY <1>1, DemuxPInv
<1>2. CASE TakePacket
  BY <1>2, QuietPInv DEF TakePacket, Goto
<1>3. CASE EndInput
  BY <1>3, QuietPInv DEF EndInput, Goto
<1>4. CASE SendPacket
  BY <1>4, QuietPInv DEF SendPacket, Goto, Fail
<1>5. CASE ReceiveDecoded
  BY <1>5, QuietPInv DEF ReceiveDecoded, Goto, PInv
<1>6. CASE DecoderDry \/ DecodeError
  BY <1>6, QuietPInv DEF DecoderDry, DecodeError, DecodedAll, Goto, PInv
<1>7. CASE ReceiveFiltered
  BY <1>7, QuietPInv DEF ReceiveFiltered, Goto, Fail, PInv
<1>8. CASE FilterDry \/ FilterError
  BY <1>8, QuietPInv DEF FilterDry, FilterError, FilteredAll, Goto, PInv
<1>9. CASE ReceiveEncoded
  BY <1>9, QuietPInv DEF ReceiveEncoded, EncodedAll, Goto, PInv
<1>10. CASE EncoderDry \/ EncoderError
  BY <1>10, QuietPInv DEF EncoderDry, EncoderError, EncodedAll, Goto, PInv
<1>11. CASE MediaFails
  BY <1>11, QuietPInv DEF MediaFails, Fail
<1>12. CASE Cancel \/ DropReceiver
  BY <1>12 DEF Cancel, DropReceiver, PInv, Opened, media
<1> QED BY <1>1, <1>2, <1>3, <1>4, <1>5, <1>6, <1>7, <1>8, <1>9, <1>10, <1>11, <1>12 DEF AttemptNext

LEMMA OpenPInv == ASSUME PInv, NEW i \in DOMAIN built, StartAttempt(i) PROVE PInv'
<1> DEFINE c == engine[1].graph.pipelines[i]
<1>1. pc = "idle" /\ OpenInput(c)
  BY DEF StartAttempt
<1>2. normalized = <<>>
  BY <1>1 DEF PInv
<1>3. CASE /\ Fail("input")
           /\ UNCHANGED <<mode, stream, phase, read, stages, sent, lost, cancelled, receiver, media>>
  BY <1>2, <1>3 DEF Fail, media, PInv
<1>4. ASSUME NEW s \in Streams, OpenDemux(s) PROVE PInv'
  <2>1. /\ stream' = s /\ normalized' = <<>>
        /\ \/ pc' = "failed"
           \/ pc' = "read" /\ s.codec = "h264" /\ config' = ExtractConfig(s.extradata).config
    BY <1>2, <1>4 DEF OpenDemux, Fail, Goto
  <2> QED BY <2>1 DEF PInv, Opened
<1>5. ASSUME NEW s \in Streams, OpenTranscode(s, TranscodeBackend(c), FiltersBuilt(c), host.parts)
      PROVE  PInv'
  <2>1. mode' = "transcode" /\ normalized' = <<>> /\ pc' \in {"read", "failed"}
    BY <1>2, <1>5 DEF OpenTranscode, Fail, Goto, media
  <2> QED BY <2>1 DEF PInv
<1> HIDE DEF c
<1> QED BY <1>1, <1>3, <1>4, <1>5 DEF OpenInput

LEMMA NextPInv == ASSUME PInv, [Next]_vars PROVE PInv'
<1>1. CASE FacadeNext /\ UNCHANGED attemptVars
  BY <1>1 DEF PInv, Opened, attemptVars, media
<1>2. ASSUME NEW i \in DOMAIN built, StartAttempt(i) PROVE PInv'
  BY <1>2, OpenPInv
<1>3. CASE AttemptNext
  BY <1>3, AttemptPInv
<1>4. CASE UNCHANGED vars
  BY <1>4 DEF PInv, Opened, vars, attemptVars, media
<1> QED BY <1>1, <1>2, <1>3, <1>4 DEF Next

LEMMA PayloadInductive == Spec => []PInv
<1> QED BY InitPInv, NextPInv, PTL DEF Spec

(* Whatever the stream's container, extradata and payloads, what an        *)
(* attempt sends for a packet has the packet's units: UnitsKept for every  *)
(* stream.                                                                 *)
THEOREM UnitsAreKept == Spec => []UnitsKept
<1>1. PInv => UnitsKept
  <2> SUFFICES ASSUME PInv, normalized # <<>>, ~Ambiguous(payload) PROVE UnitsKept
    BY DEF UnitsKept
  <2>1. /\ stream \in Streams /\ stream.codec = "h264" /\ payload \in stream.payloads
        /\ config = ExtractConfig(stream.extradata).config
        /\ Normalize(payload.bytes, payload.key, config) # <<>>
        /\ normalized = Normalize(payload.bytes, payload.key, config)[1]
    BY DEF PInv, Opened
  <2>2. stream.extradata \in Seq(Byte) /\ WellFormed(payload, config)
    BY <2>1, StreamConstants
  <2> QED BY <2>1, <2>2, NormalizedUnits DEF UnitsKept
<1> QED BY <1>1, PayloadInductive, PTL
=============================================================================
