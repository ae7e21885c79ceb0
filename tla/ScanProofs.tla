----------------------------- MODULE ScanProofs -----------------------------
(***************************************************************************)
(* The loops of msgserv.c over the message array compute what MessageStore *)
(* says they do, for every number of slots.  A loop is a recursive         *)
(* function, that is, a choice among the solutions of its equation: each   *)
(* proof gives a solution (what the loop holds after i iterations, in      *)
(* closed form) and shows that every solution has that value.  Induction   *)
(* over the index is over the set of the indices reached (UpTo, DownTo).   *)
(***************************************************************************)
EXTENDS StoreScan, StoreProofs

\* Induction up to n: a set that has 0 and, after each number below n, the
\* next one has all of 0 .. n.
LEMMA UpTo ==
  ASSUME NEW n \in Nat, NEW T, 0 \in T,
         \A i \in 1 .. n : i - 1 \in T => i \in T
  PROVE  \A i \in 0 .. n : i \in T
<1> DEFINE Left == {i \in 0 .. n : i \notin T}
<1> SUFFICES ASSUME Left # {} PROVE FALSE
  OBVIOUS
<1>1. Left \in SUBSET Nat
  OBVIOUS
<1>2. PICK x \in Left : \A y \in Left : x <= y
  <2> HIDE DEF Left
  <2> QED BY <1>1, NatMin
<1>3. x \in 0 .. n /\ x \notin T /\ x # 0
  OBVIOUS
<1>4. x \in 1 .. n /\ x - 1 \in 0 .. n /\ x - 1 < x
  BY <1>3
<1>5. x - 1 \in T
  BY <1>2, <1>4
<1> QED BY <1>3, <1>4, <1>5

\* Induction down from n.
LEMMA DownTo ==
  ASSUME NEW n \in Nat, NEW T, n \in T,
         \A i \in 0 .. n - 1 : i + 1 \in T => i \in T
  PROVE  \A i \in 0 .. n : i \in T
<1> DEFINE U == {i \in 0 .. n : n - i \in T}
<1>1. 0 \in U
  OBVIOUS
<1>2. \A i \in 1 .. n : i - 1 \in U => i \in U
  <2> SUFFICES ASSUME NEW i \in 1 .. n, i - 1 \in U PROVE i \in U
    OBVIOUS
  <2>1. n - (i - 1) = (n - i) + 1 /\ n - i \in 0 .. n - 1 /\ i \in 0 .. n
    OBVIOUS
  <2>2. (n - i) + 1 \in T
    BY <2>1
  <2> QED BY <2>1, <2>2
<1>3. \A i \in 0 .. n : i \in U
  <2> HIDE DEF U
  <2> QED BY <1>1, <1>2, UpTo
<1> SUFFICES ASSUME NEW i \in 0 .. n PROVE i \in T
  OBVIOUS
<1>4. n - i \in U /\ n - (n - i) = i
  BY <1>3
<1> QED BY <1>4
-----------------------------------------------------------------------------
\* min_lc_index after the iterations up to i: the last of the smallest clocks
\* of the slots 0 .. i.
LastMin(b, i, k) ==
  /\ k \in 0 .. i
  /\ \A j \in 0 .. i : b[k].lc < b[j].lc \/ (b[k].lc = b[j].lc /\ j <= k)

LEMMA LastMinUnique ==
  ASSUME NEW b, \A k \in Slots : b[k].lc \in Nat,
         NEW i \in Slots, NEW k, NEW l, LastMin(b, i, k), LastMin(b, i, l)
  PROVE  k = l
<1>1. /\ k \in 0 .. i /\ l \in 0 .. i
      /\ b[k].lc \in Nat /\ b[l].lc \in Nat
  BY MAssumption DEF LastMin, Slots
<1> QED BY <1>1 DEF LastMin, Slots

\* One iteration.
LEMMA LastMinStep ==
  ASSUME NEW b, \A k \in Slots : b[k].lc \in Nat,
         NEW i \in Slots, i # 0, NEW k, LastMin(b, i - 1, k)
  PROVE  LastMin(b, i, IF b[i].lc <= b[k].lc THEN i ELSE k)
<1>1. /\ i - 1 \in Slots
      /\ k \in 0 .. i - 1 /\ k \in Slots
      /\ \A j \in 0 .. i : j = i \/ j \in 0 .. i - 1
  BY MAssumption DEF LastMin, Slots
<1>2. \A j \in 0 .. i : j \in Slots /\ b[j].lc \in Nat
  BY MAssumption DEF Slots
<1>3. \A j \in 0 .. i - 1 : b[k].lc < b[j].lc \/ (b[k].lc = b[j].lc /\ j <= k)
  BY DEF LastMin
<1>4. CASE b[i].lc <= b[k].lc
  <2>1. i \in 0 .. i
    BY DEF Slots
  <2>2. ASSUME NEW j \in 0 .. i
        PROVE  b[i].lc < b[j].lc \/ (b[i].lc = b[j].lc /\ j <= i)
    <3>1. CASE j = i
      BY <3>1, <1>2, <2>1 DEF Slots
    <3>2. CASE j \in 0 .. i - 1
      BY <3>2, <1>1, <1>2, <1>3, <1>4, <2>1 DEF Slots
    <3> QED BY <3>1, <3>2, <1>1
  <2> QED BY <1>4, <2>1, <2>2 DEF LastMin
<1>5. CASE ~ (b[i].lc <= b[k].lc)
  <2>1. k \in 0 .. i /\ i \in 0 .. i
    BY <1>1 DEF Slots
  <2>2. ASSUME NEW j \in 0 .. i
        PROVE  b[k].lc < b[j].lc \/ (b[k].lc = b[j].lc /\ j <= k)
    <3>1. CASE j = i
      BY <3>1, <1>1, <1>2, <1>5, <2>1
    <3> QED BY <3>1, <1>1, <1>3
  <2> QED BY <1>5, <2>1, <2>2 DEF LastMin
<1> QED BY <1>4, <1>5

OldestLoop(b, f) ==
  f = [i \in Slots |->
         IF i = 0 THEN 0
         ELSE IF b[i].lc <= b[f[i - 1]].lc THEN i ELSE f[i - 1]]

LEMMA OldestLoopHasSolution ==
  ASSUME NEW b, \A k \in Slots : b[k].lc \in Nat
  PROVE  \E f : OldestLoop(b, f)
<1> DEFINE W == [i \in Slots |-> CHOOSE k \in 0 .. i : LastMin(b, i, k)]
           T == {i \in Slots : \E k \in 0 .. i : LastMin(b, i, k)}
<1>1. 0 \in T
  <2>1. 0 \in Slots /\ 0 \in 0 .. 0 /\ \A j \in 0 .. 0 : j = 0
    BY MAssumption DEF Slots
  <2>2. LastMin(b, 0, 0)
    BY <2>1 DEF LastMin
  <2> QED BY <2>1, <2>2
<1>2. ASSUME NEW i \in 1 .. M - 1, i - 1 \in T PROVE i \in T
  <2>1. i \in Slots /\ i # 0
    BY MAssumption DEF Slots
  <2>2. PICK k \in 0 .. i - 1 : LastMin(b, i - 1, k)
    BY <1>2
  <2>3. LastMin(b, i, IF b[i].lc <= b[k].lc THEN i ELSE k)
    BY <2>1, <2>2, LastMinStep
  <2> QED BY <2>1, <2>3 DEF LastMin
<1>3. \A i \in 0 .. M - 1 : i \in T
  <2>1. M - 1 \in Nat
    BY MAssumption
  <2> HIDE DEF T
  <2> QED BY <1>1, <1>2, <2>1, UpTo
<1>4. \A i \in Slots : LastMin(b, i, W[i])
  BY <1>3 DEF Slots
<1>5. ASSUME NEW i \in Slots
      PROVE  W[i] = IF i = 0 THEN 0 ELSE IF b[i].lc <= b[W[i - 1]].lc THEN i ELSE W[i - 1]
  <2> HIDE DEF W
  <2>1. CASE i = 0
    BY <2>1, <1>4 DEF LastMin
  <2>2. CASE i # 0
    <3>1. i - 1 \in Slots
      BY <2>2, MAssumption DEF Slots
    <3>2. LastMin(b, i, IF b[i].lc <= b[W[i - 1]].lc THEN i ELSE W[i - 1])
      BY <2>2, <3>1, <1>4, LastMinStep
    <3>3. W[i] = IF b[i].lc <= b[W[i - 1]].lc THEN i ELSE W[i - 1]
      BY <3>2, <1>4, LastMinUnique
    <3> QED BY <2>2, <3>3
  <2> QED BY <2>1, <2>2
<1>6. W = [i \in Slots |->
             IF i = 0 THEN 0 ELSE IF b[i].lc <= b[W[i - 1]].lc THEN i ELSE W[i - 1]]
  <2>1. W = [i \in Slots |-> W[i]]
    OBVIOUS
  <2> HIDE DEF W
  <2> QED BY <1>5, <2>1
<1> HIDE DEF W
<1> QED BY <1>6 DEF OldestLoop

LEMMA OldestLoopValue ==
  ASSUME NEW b, \A k \in Slots : b[k].lc \in Nat, NEW f, OldestLoop(b, f)
  PROVE  \A i \in Slots : LastMin(b, i, f[i])
<1> DEFINE T == {i \in Slots : LastMin(b, i, f[i])}
<1>0. \A i \in Slots :
        f[i] = IF i = 0 THEN 0 ELSE IF b[i].lc <= b[f[i - 1]].lc THEN i ELSE f[i - 1]
  BY DEF OldestLoop
<1>1. 0 \in T
  <2>1. 0 \in Slots /\ 0 \in 0 .. 0 /\ \A j \in 0 .. 0 : j = 0
    BY MAssumption DEF Slots
  <2>2. LastMin(b, 0, 0)
    BY <2>1 DEF LastMin
  <2> QED BY <1>0, <2>1, <2>2
<1>2. ASSUME NEW i \in 1 .. M - 1, i - 1 \in T PROVE i \in T
  <2>1. i \in Slots /\ i # 0
    BY MAssumption DEF Slots
  <2>2. LastMin(b, i, IF b[i].lc <= b[f[i - 1]].lc THEN i ELSE f[i - 1])
    BY <1>2, <2>1, LastMinStep
  <2>3. f[i] = IF b[i].lc <= b[f[i - 1]].lc THEN i ELSE f[i - 1]
    BY <1>0, <2>1
  <2> QED BY <2>1, <2>2, <2>3
<1>3. \A i \in 0 .. M - 1 : i \in T
  <2>1. M - 1 \in Nat
    BY MAssumption
  <2> HIDE DEF T
  <2> QED BY <1>1, <1>2, <2>1, UpTo
<1> QED BY <1>3 DEF Slots

\* The loop of oldest_message_index returns the last of the smallest clocks.
LEMMA ScanOldest ==
  ASSUME NEW b, \A k \in Slots : b[k].lc \in Nat
  PROVE  scan_oldest(b) = oldest_message_index(b)
<1> DEFINE g == CHOOSE f : OldestLoop(b, f)
<1>1. OldestLoop(b, g)
  BY OldestLoopHasSolution
<1>2. scan_oldest(b) = g[M - 1]
  BY DEF scan_oldest, OldestLoop
<1> HIDE DEF g
<1>3. M - 1 \in Slots
  BY MAssumption DEF Slots
<1>4. LastMin(b, M - 1, g[M - 1])
  BY <1>1, <1>3, OldestLoopValue
<1>5. oldest_message_index(b) \in Slots /\ IsOldest(b, oldest_message_index(b))
  BY OldestExists
<1>6. LastMin(b, M - 1, oldest_message_index(b))
  BY <1>5 DEF LastMin, IsOldest, Slots
<1> QED BY <1>2, <1>3, <1>4, <1>6, LastMinUnique
-----------------------------------------------------------------------------
\* max_lc_index after the iterations up to i: the last of the largest clocks
\* of the slots 0 .. i.
LastMax(b, i, k) ==
  /\ k \in 0 .. i
  /\ \A j \in 0 .. i : b[j].lc < b[k].lc \/ (b[k].lc = b[j].lc /\ j <= k)

LEMMA LastMaxUnique ==
  ASSUME NEW b, \A k \in Slots : b[k].lc \in Nat,
         NEW i \in Slots, NEW k, NEW l, LastMax(b, i, k), LastMax(b, i, l)
  PROVE  k = l
<1>1. /\ k \in 0 .. i /\ l \in 0 .. i
      /\ b[k].lc \in Nat /\ b[l].lc \in Nat
  BY MAssumption DEF LastMax, Slots
<1> QED BY <1>1 DEF LastMax, Slots

\* One iteration.
LEMMA LastMaxStep ==
  ASSUME NEW b, \A k \in Slots : b[k].lc \in Nat,
         NEW i \in Slots, i # 0, NEW k, LastMax(b, i - 1, k)
  PROVE  LastMax(b, i, IF b[i].lc >= b[k].lc THEN i ELSE k)
<1>1. /\ i - 1 \in Slots
      /\ k \in 0 .. i - 1 /\ k \in Slots
      /\ \A j \in 0 .. i : j = i \/ j \in 0 .. i - 1
  BY MAssumption DEF LastMax, Slots
<1>2. \A j \in 0 .. i : j \in Slots /\ b[j].lc \in Nat
  BY MAssumption DEF Slots
<1>3. \A j \in 0 .. i - 1 : b[j].lc < b[k].lc \/ (b[k].lc = b[j].lc /\ j <= k)
  BY DEF LastMax
<1>4. CASE b[i].lc >= b[k].lc
  <2>1. i \in 0 .. i
    BY DEF Slots
  <2>2. ASSUME NEW j \in 0 .. i
        PROVE  b[j].lc < b[i].lc \/ (b[i].lc = b[j].lc /\ j <= i)
    <3>1. CASE j = i
      BY <3>1, <1>2, <2>1 DEF Slots
    <3>2. CASE j \in 0 .. i - 1
      BY <3>2, <1>1, <1>2, <1>3, <1>4, <2>1 DEF Slots
    <3> QED BY <3>1, <3>2, <1>1
  <2> QED BY <1>4, <2>1, <2>2 DEF LastMax
<1>5. CASE ~ (b[i].lc >= b[k].lc)
  <2>1. k \in 0 .. i /\ i \in 0 .. i
    BY <1>1 DEF Slots
  <2>2. ASSUME NEW j \in 0 .. i
        PROVE  b[j].lc < b[k].lc \/ (b[k].lc = b[j].lc /\ j <= k)
    <3>1. CASE j = i
      BY <3>1, <1>1, <1>2, <1>5, <2>1
    <3> QED BY <3>1, <1>1, <1>3
  <2> QED BY <1>5, <2>1, <2>2 DEF LastMax
<1> QED BY <1>4, <1>5

LatestLoop(b, f) ==
  f = [i \in Slots |->
         IF i = 0 THEN 0
         ELSE IF b[i].lc >= b[f[i - 1]].lc THEN i ELSE f[i - 1]]

LEMMA LatestLoopHasSolution ==
  ASSUME NEW b, \A k \in Slots : b[k].lc \in Nat
  PROVE  \E f : LatestLoop(b, f)
<1> DEFINE W == [i \in Slots |-> CHOOSE k \in 0 .. i : LastMax(b, i, k)]
           T == {i \in Slots : \E k \in 0 .. i : LastMax(b, i, k)}
<1>1. 0 \in T
  <2>1. 0 \in Slots /\ 0 \in 0 .. 0 /\ \A j \in 0 .. 0 : j = 0
    BY MAssumption DEF Slots
  <2>2. LastMax(b, 0, 0)
    BY <2>1 DEF LastMax
  <2> QED BY <2>1, <2>2
<1>2. ASSUME NEW i \in 1 .. M - 1, i - 1 \in T PROVE i \in T
  <2>1. i \in Slots /\ i # 0
    BY MAssumption DEF Slots
  <2>2. PICK k \in 0 .. i - 1 : LastMax(b, i - 1, k)
    BY <1>2
  <2>3. LastMax(b, i, IF b[i].lc >= b[k].lc THEN i ELSE k)
    BY <2>1, <2>2, LastMaxStep
  <2> QED BY <2>1, <2>3 DEF LastMax
<1>3. \A i \in 0 .. M - 1 : i \in T
  <2>1. M - 1 \in Nat
    BY MAssumption
  <2> HIDE DEF T
  <2> QED BY <1>1, <1>2, <2>1, UpTo
<1>4. \A i \in Slots : LastMax(b, i, W[i])
  BY <1>3 DEF Slots
<1>5. ASSUME NEW i \in Slots
      PROVE  W[i] = IF i = 0 THEN 0 ELSE IF b[i].lc >= b[W[i - 1]].lc THEN i ELSE W[i - 1]
  <2> HIDE DEF W
  <2>1. CASE i = 0
    BY <2>1, <1>4 DEF LastMax
  <2>2. CASE i # 0
    <3>1. i - 1 \in Slots
      BY <2>2, MAssumption DEF Slots
    <3>2. LastMax(b, i, IF b[i].lc >= b[W[i - 1]].lc THEN i ELSE W[i - 1])
      BY <2>2, <3>1, <1>4, LastMaxStep
    <3>3. W[i] = IF b[i].lc >= b[W[i - 1]].lc THEN i ELSE W[i - 1]
      BY <3>2, <1>4, LastMaxUnique
    <3> QED BY <2>2, <3>3
  <2> QED BY <2>1, <2>2
<1>6. W = [i \in Slots |->
             IF i = 0 THEN 0 ELSE IF b[i].lc >= b[W[i - 1]].lc THEN i ELSE W[i - 1]]
  <2>1. W = [i \in Slots |-> W[i]]
    OBVIOUS
  <2> HIDE DEF W
  <2> QED BY <1>5, <2>1
<1> HIDE DEF W
<1> QED BY <1>6 DEF LatestLoop

LEMMA LatestLoopValue ==
  ASSUME NEW b, \A k \in Slots : b[k].lc \in Nat, NEW f, LatestLoop(b, f)
  PROVE  \A i \in Slots : LastMax(b, i, f[i])
<1> DEFINE T == {i \in Slots : LastMax(b, i, f[i])}
<1>0. \A i \in Slots :
        f[i] = IF i = 0 THEN 0 ELSE IF b[i].lc >= b[f[i - 1]].lc THEN i ELSE f[i - 1]
  BY DEF LatestLoop
<1>1. 0 \in T
  <2>1. 0 \in Slots /\ 0 \in 0 .. 0 /\ \A j \in 0 .. 0 : j = 0
    BY MAssumption DEF Slots
  <2>2. LastMax(b, 0, 0)
    BY <2>1 DEF LastMax
  <2> QED BY <1>0, <2>1, <2>2
<1>2. ASSUME NEW i \in 1 .. M - 1, i - 1 \in T PROVE i \in T
  <2>1. i \in Slots /\ i # 0
    BY MAssumption DEF Slots
  <2>2. LastMax(b, i, IF b[i].lc >= b[f[i - 1]].lc THEN i ELSE f[i - 1])
    BY <1>2, <2>1, LastMaxStep
  <2>3. f[i] = IF b[i].lc >= b[f[i - 1]].lc THEN i ELSE f[i - 1]
    BY <1>0, <2>1
  <2> QED BY <2>1, <2>2, <2>3
<1>3. \A i \in 0 .. M - 1 : i \in T
  <2>1. M - 1 \in Nat
    BY MAssumption
  <2> HIDE DEF T
  <2> QED BY <1>1, <1>2, <2>1, UpTo
<1> QED BY <1>3 DEF Slots

\* The loop of latest_message_index returns the last of the largest clocks.
LEMMA ScanLatest ==
  ASSUME NEW b, \A k \in Slots : b[k].lc \in Nat
  PROVE  scan_latest(b) = latest_message_index(b)
<1> DEFINE g == CHOOSE f : LatestLoop(b, f)
<1>1. LatestLoop(b, g)
  BY LatestLoopHasSolution
<1>2. scan_latest(b) = g[M - 1]
  BY DEF scan_latest, LatestLoop
<1> HIDE DEF g
<1>3. M - 1 \in Slots
  BY MAssumption DEF Slots
<1>4. LastMax(b, M - 1, g[M - 1])
  BY <1>1, <1>3, LatestLoopValue
<1>5. g[M - 1] \in Slots /\ IsLatest(b, g[M - 1])
  BY <1>3, <1>4, MAssumption DEF LastMax, IsLatest, Slots
<1>6. latest_message_index(b) \in Slots /\ IsLatest(b, latest_message_index(b))
  BY <1>5 DEF latest_message_index
<1>7. LastMax(b, M - 1, latest_message_index(b))
  BY <1>6 DEF LastMax, IsLatest, Slots
<1> QED BY <1>2, <1>3, <1>4, <1>7, LastMaxUnique
-----------------------------------------------------------------------------
\* What the search for a free slot returns when it starts at slot k: the first
\* free slot from there on, and the last slot when there is none.
FreeFrom(b, k, x) ==
  \/ x \in k .. M - 1 /\ b[x].msg = <<>> /\ \A j \in k .. x - 1 : b[j].msg # <<>>
  \/ x = M - 1 /\ \A j \in k .. M - 1 : b[j].msg # <<>>

LEMMA FreeFromUnique ==
  ASSUME NEW b, NEW k \in 0 .. M, NEW x, NEW y, FreeFrom(b, k, x), FreeFrom(b, k, y)
  PROVE  x = y
<1> USE MAssumption DEF FreeFrom
<1>1. CASE x \in k .. M - 1 /\ b[x].msg = <<>> /\ \A j \in k .. x - 1 : b[j].msg # <<>>
  <2>1. CASE y \in k .. M - 1 /\ b[y].msg = <<>> /\ \A j \in k .. y - 1 : b[j].msg # <<>>
    <3>1. ~ (x < y) /\ ~ (y < x)
      BY <1>1, <2>1
    <3> QED BY <1>1, <2>1, <3>1
  <2>2. CASE y = M - 1 /\ \A j \in k .. M - 1 : b[j].msg # <<>>
    BY <1>1, <2>2
  <2> QED BY <2>1, <2>2
<1>2. CASE x = M - 1 /\ \A j \in k .. M - 1 : b[j].msg # <<>>
  BY <1>2
<1> QED BY <1>1, <1>2

\* One iteration, read from its end.
LEMMA FreeFromStep ==
  ASSUME NEW b, NEW k \in 0 .. M - 1, NEW x, FreeFrom(b, k + 1, x)
  PROVE  FreeFrom(b, k, IF b[k].msg = <<>> THEN k ELSE x)
<1> USE MAssumption
<1>1. CASE b[k].msg = <<>>
  <2>1. k \in k .. M - 1 /\ \A j \in k .. k - 1 : FALSE
    OBVIOUS
  <2> QED BY <1>1, <2>1 DEF FreeFrom
<1>2. CASE b[k].msg # <<>>
  <2>1. CASE x \in k + 1 .. M - 1 /\ b[x].msg = <<>> /\ \A j \in k + 1 .. x - 1 : b[j].msg # <<>>
    <3>1. x \in k .. M - 1 /\ \A j \in k .. x - 1 : j = k \/ j \in k + 1 .. x - 1
      BY <2>1
    <3>2. \A j \in k .. x - 1 : b[j].msg # <<>>
      BY <1>2, <2>1, <3>1
    <3> QED BY <1>2, <2>1, <3>1, <3>2 DEF FreeFrom
  <2>2. CASE x = M - 1 /\ \A j \in k + 1 .. M - 1 : b[j].msg # <<>>
    <3>1. \A j \in k .. M - 1 : j = k \/ j \in k + 1 .. M - 1
      OBVIOUS
    <3> QED BY <1>2, <2>2, <3>1 DEF FreeFrom
  <2> QED BY <2>1, <2>2 DEF FreeFrom
<1> QED BY <1>1, <1>2

FreeLoop(b, f) ==
  f = [k \in 0 .. M |-> IF k = M THEN M - 1 ELSE IF b[k].msg = <<>> THEN k ELSE f[k + 1]]

\* Past the last slot the search has found nothing.
LEMMA FreeFromEnd ==
  ASSUME NEW b
  PROVE  FreeFrom(b, M, M - 1)
<1>1. \A j \in M .. M - 1 : FALSE
  BY MAssumption
<1> QED BY <1>1 DEF FreeFrom

LEMMA FreeLoopHasSolution ==
  ASSUME NEW b
  PROVE  \E f : FreeLoop(b, f)
<1> DEFINE W == [k \in 0 .. M |-> CHOOSE x : FreeFrom(b, k, x)]
           T == {k \in 0 .. M : \E x : FreeFrom(b, k, x)}
<1>1. M \in T
  BY FreeFromEnd, MAssumption
<1>2. ASSUME NEW k \in 0 .. M - 1, k + 1 \in T PROVE k \in T
  <2>1. PICK x : FreeFrom(b, k + 1, x)
    BY <1>2
  <2>2. FreeFrom(b, k, IF b[k].msg = <<>> THEN k ELSE x)
    BY <2>1, FreeFromStep
  <2> QED BY <2>2, MAssumption
<1>3. \A k \in 0 .. M : k \in T
  <2> HIDE DEF T
  <2> QED BY <1>1, <1>2, MAssumption, DownTo
<1>4. \A k \in 0 .. M : FreeFrom(b, k, W[k])
  BY <1>3
<1>5. ASSUME NEW k \in 0 .. M
      PROVE  W[k] = IF k = M THEN M - 1 ELSE IF b[k].msg = <<>> THEN k ELSE W[k + 1]
  <2> HIDE DEF W
  <2>1. CASE k = M
    BY <2>1, <1>4, FreeFromEnd, FreeFromUnique
  <2>2. CASE k # M
    <3>1. k \in 0 .. M - 1 /\ k + 1 \in 0 .. M
      BY <2>2, MAssumption
    <3>2. FreeFrom(b, k, IF b[k].msg = <<>> THEN k ELSE W[k + 1])
      BY <3>1, <1>4, FreeFromStep
    <3>3. W[k] = IF b[k].msg = <<>> THEN k ELSE W[k + 1]
      BY <3>2, <1>4, FreeFromUnique
    <3> QED BY <2>2, <3>3
  <2> QED BY <2>1, <2>2
<1>6. W = [k \in 0 .. M |->
             IF k = M THEN M - 1 ELSE IF b[k].msg = <<>> THEN k ELSE W[k + 1]]
  <2>1. W = [k \in 0 .. M |-> W[k]]
    OBVIOUS
  <2> HIDE DEF W
  <2> QED BY <1>5, <2>1
<1> HIDE DEF W
<1> QED BY <1>6 DEF FreeLoop

LEMMA FreeLoopValue ==
  ASSUME NEW b, NEW f, FreeLoop(b, f)
  PROVE  FreeFrom(b, 0, f[0])
<1> DEFINE T == {k \in 0 .. M : FreeFrom(b, k, f[k])}
<1>1. \A k \in 0 .. M :
        f[k] = IF k = M THEN M - 1 ELSE IF b[k].msg = <<>> THEN k ELSE f[k + 1]
  BY DEF FreeLoop
<1>2. M \in T
  <2>1. f[M] = M - 1
    BY <1>1, MAssumption
  <2> QED BY <2>1, FreeFromEnd, MAssumption
<1>3. ASSUME NEW k \in 0 .. M - 1, k + 1 \in T PROVE k \in T
  <2>1. FreeFrom(b, k, IF b[k].msg = <<>> THEN k ELSE f[k + 1])
    BY <1>3, FreeFromStep
  <2>2. k \in 0 .. M /\ f[k] = IF b[k].msg = <<>> THEN k ELSE f[k + 1]
    BY <1>1, MAssumption
  <2> QED BY <2>1, <2>2
<1>4. \A k \in 0 .. M : k \in T
  <2> HIDE DEF T
  <2> QED BY <1>2, <1>3, MAssumption, DownTo
<1> QED BY <1>4, MAssumption

\* first_free_message_index, whose loop leaves the index past the array when it
\* finds no free slot, returns the first free slot, or an oldest one on a full
\* board; a board whose last slot is the only free one is not taken for full.
LEMMA ScanFirstFree ==
  ASSUME NEW b, \A k \in Slots : b[k].lc \in Nat
  PROVE  scan_first_free(b) = first_free_message_index(b)
<1> DEFINE g == CHOOSE f : FreeLoop(b, f)
<1>1. FreeLoop(b, g)
  BY FreeLoopHasSolution
<1>2. scan_first_free(b) =
        IF g[0] = M - 1 /\ b[g[0]].msg # <<>> THEN scan_oldest(b) ELSE g[0]
  BY DEF scan_first_free, FreeLoop
<1> HIDE DEF g
<1>3. FreeFrom(b, 0, g[0])
  BY <1>1, FreeLoopValue
<1>4. CASE Used(b) = Slots
  <2>1. \A j \in 0 .. M - 1 : b[j].msg # <<>>
    BY <1>4 DEF Used, Slots
  <2>2. g[0] = M - 1 /\ b[M - 1].msg # <<>>
    BY <1>3, <2>1, MAssumption DEF FreeFrom
  <2> QED BY <1>2, <1>4, <2>2, ScanOldest DEF first_free_message_index
<1>5. CASE Used(b) # Slots
  <2>1. PICK x \in Slots : b[x].msg = <<>>
    BY <1>5 DEF Used
  <2>2. /\ g[0] \in 0 .. M - 1
        /\ b[g[0]].msg = <<>>
        /\ \A j \in 0 .. g[0] - 1 : b[j].msg # <<>>
    BY <1>3, <2>1 DEF FreeFrom, Slots
  <2>3. g[0] \in Slots \ Used(b) /\ \A j \in Slots \ Used(b) : g[0] <= j
    BY <2>2, MAssumption DEF Slots, Used
  <2>4. FirstFree(b) = g[0]
    <3>1. FirstFree(b) \in Slots \ Used(b) /\ \A j \in Slots \ Used(b) : FirstFree(b) <= j
      BY <2>3 DEF FirstFree
    <3>2. FirstFree(b) <= g[0] /\ g[0] <= FirstFree(b)
      BY <2>3, <3>1
    <3> QED BY <2>3, <3>1, <3>2, MAssumption DEF Slots
  <2> QED BY <1>2, <1>5, <2>2, <2>4 DEF first_free_message_index
<1> QED BY <1>4, <1>5
-----------------------------------------------------------------------------
UsedBelow(b, i) == {k \in 0 .. i - 1 : b[k].msg # <<>>}

\* One iteration of num_messages.
LEMMA UsedBelowStep ==
  ASSUME NEW b, NEW i \in 1 .. M
  PROVE  Cardinality(UsedBelow(b, i)) =
           IF b[i - 1].msg # <<>> THEN Cardinality(UsedBelow(b, i - 1)) + 1
                                  ELSE Cardinality(UsedBelow(b, i - 1))
<1>1. i \in Nat /\ i - 1 \in 0 .. i - 1 /\ i - 1 \notin 0 .. (i - 1) - 1
  BY MAssumption
<1>2. \A j \in 0 .. i - 1 : j = i - 1 \/ j \in 0 .. (i - 1) - 1
  BY <1>1
<1>3. \A j \in 0 .. (i - 1) - 1 : j \in 0 .. i - 1
  BY <1>1
<1>4. IsFiniteSet(UsedBelow(b, i - 1))
  <2>1. IsFiniteSet(0 .. (i - 1) - 1)
    BY <1>1, FS_Interval
  <2> QED BY <2>1, FS_Subset DEF UsedBelow
<1>5. CASE b[i - 1].msg # <<>>
  <2>1. UsedBelow(b, i) = UsedBelow(b, i - 1) \cup {i - 1}
    BY <1>1, <1>2, <1>3, <1>5 DEF UsedBelow
  <2>2. i - 1 \notin UsedBelow(b, i - 1)
    BY <1>1 DEF UsedBelow
  <2> QED BY <1>4, <1>5, <2>1, <2>2, FS_AddElement
<1>6. CASE b[i - 1].msg = <<>>
  <2>1. UsedBelow(b, i) = UsedBelow(b, i - 1)
    BY <1>2, <1>3, <1>6 DEF UsedBelow
  <2> QED BY <1>6, <2>1
<1> QED BY <1>5, <1>6

CountLoop(b, f) ==
  f = [i \in 0 .. M |->
         IF i = 0 THEN 0 ELSE IF b[i - 1].msg # <<>> THEN f[i - 1] + 1 ELSE f[i - 1]]

LEMMA NoneUsedYet ==
  ASSUME NEW b
  PROVE  Cardinality(UsedBelow(b, 0)) = 0
<1>1. \A j \in 0 .. 0 - 1 : FALSE
  OBVIOUS
<1>2. UsedBelow(b, 0) = {}
  BY <1>1 DEF UsedBelow
<1> QED BY <1>2, FS_EmptySet

LEMMA CountLoopHasSolution ==
  ASSUME NEW b
  PROVE  \E f : CountLoop(b, f)
<1> DEFINE W == [i \in 0 .. M |-> Cardinality(UsedBelow(b, i))]
<1>1. ASSUME NEW i \in 0 .. M
      PROVE  W[i] = IF i = 0 THEN 0
                    ELSE IF b[i - 1].msg # <<>> THEN W[i - 1] + 1 ELSE W[i - 1]
  <2>1. CASE i = 0
    BY <2>1, NoneUsedYet
  <2>2. CASE i # 0
    <3>1. i \in 1 .. M /\ i - 1 \in 0 .. M
      BY <2>2, MAssumption
    <3> QED BY <2>2, <3>1, UsedBelowStep
  <2> QED BY <2>1, <2>2
<1>2. W = [i \in 0 .. M |->
             IF i = 0 THEN 0 ELSE IF b[i - 1].msg # <<>> THEN W[i - 1] + 1 ELSE W[i - 1]]
  <2>1. W = [i \in 0 .. M |-> W[i]]
    OBVIOUS
  <2> HIDE DEF W
  <2> QED BY <1>1, <2>1
<1> HIDE DEF W
<1> QED BY <1>2 DEF CountLoop

\* The loop of num_messages counts the used slots.
LEMMA ScanNumMessages ==
  ASSUME NEW b
  PROVE  scan_num_messages(b) = num_messages(b)
<1> DEFINE h == CHOOSE f : CountLoop(b, f)
           T == {i \in 0 .. M : h[i] = Cardinality(UsedBelow(b, i))}
<1>1. CountLoop(b, h)
  BY CountLoopHasSolution
<1>2. scan_num_messages(b) = h[M]
  BY DEF scan_num_messages, CountLoop
<1> HIDE DEF h
<1>3. \A i \in 0 .. M :
        h[i] = IF i = 0 THEN 0 ELSE IF b[i - 1].msg # <<>> THEN h[i - 1] + 1 ELSE h[i - 1]
  BY <1>1 DEF CountLoop
<1>4. 0 \in T
  BY <1>3, NoneUsedYet, MAssumption
<1>5. ASSUME NEW i \in 1 .. M, i - 1 \in T PROVE i \in T
  <2>1. i \in 0 .. M /\ i # 0
    BY MAssumption
  <2>2. h[i - 1] = Cardinality(UsedBelow(b, i - 1))
    BY <1>5
  <2>3. h[i] = Cardinality(UsedBelow(b, i))
    BY <1>3, <2>1, <2>2, UsedBelowStep
  <2> QED BY <2>1, <2>3
<1>6. \A i \in 0 .. M : i \in T
  <2> HIDE DEF T
  <2> QED BY <1>4, <1>5, MAssumption, UpTo
<1>7. h[M] = Cardinality(UsedBelow(b, M))
  BY <1>6, MAssumption
<1>8. UsedBelow(b, M) = Used(b)
  BY DEF UsedBelow, Used, Slots
<1> QED BY <1>2, <1>7, <1>8 DEF num_messages
-----------------------------------------------------------------------------
\* The inductive invariant: every slot holds a clock and a text or nothing.
ScanInv == store \in [Slots -> [lc : Nat, msg : {<<>>} \cup {<<t>> : t \in Strings}]]

LEMMA ScanInvClocks ==
  ASSUME ScanInv
  PROVE  \A k \in Slots : store[k].lc \in Nat
BY DEF ScanInv

\* The array stays a function from the slots.
THEOREM ScanTypeCorrect == ScanSpec => []ScanInv
<1>1. ScanInit => ScanInv
  BY DEF ScanInit, ScanInv, EmptyBoard, Empty
<1>2. ScanInv /\ [ScanNext]_store => ScanInv'
  <2> SUFFICES ASSUME ScanInv, [ScanNext]_store PROVE ScanInv'
    OBVIOUS
  <2>1. CASE UNCHANGED store
    BY <2>1 DEF ScanInv
  <2>2. ASSUME NEW c \in 0 .. MaxClock, NEW t \in Strings, add_message_str_lc(c, t)
        PROVE  ScanInv'
    <3>1. c \in Nat
      OBVIOUS
    <3> DEFINE e == [lc |-> c, msg |-> <<t>>]
               k == scan_first_free(store)
    <3>2. e \in [lc : Nat, msg : {<<>>} \cup {<<u>> : u \in Strings}]
      BY <3>1
    <3>3. store' = [store EXCEPT ![k] = e]
      BY <2>2 DEF add_message_str_lc
    <3> HIDE DEF e, k
    <3> QED BY <3>2, <3>3 DEF ScanInv
  <2> QED BY <2>1, <2>2 DEF ScanNext
<1> QED BY <1>1, <1>2, PTL DEF ScanSpec

\* Whatever the order in which messages arrive and with equal clocks, the four
\* loops of msgserv.c (oldest_message_index, latest_message_index,
\* first_free_message_index and num_messages) return what MessageStore's
\* definitions of them say, for every number of slots.
THEOREM LoopsAgree == ScanSpec => []ScansAgree
<1>1. ScanInv => ScansAgree
  BY ScanInvClocks, ScanOldest, ScanLatest, ScanFirstFree, ScanNumMessages
     DEF ScansAgree
<1> QED BY <1>1, ScanTypeCorrect, PTL

\* MSGSERV_add_message_str_lc discards nothing while a slot is free; on a full
\* board it discards one message, and one with the smallest clock of all.
THEOREM DiscardsAnOldest == ScanSpec => EvictsOnlyAnOldest
<1> DEFINE gone == {k \in Used(store) : store'[k] # store[k]}
           Evicts ==
             /\ Used(store) \subseteq Used(store')
             /\ Used(store) # Slots => gone = {} /\ Used(store') # Used(store)
             /\ \A k \in gone : gone = {k} /\ \A j \in Slots : store[k].lc <= store[j].lc
<1>1. ScanInv /\ [ScanNext]_store => [Evicts]_store
  <2> SUFFICES ASSUME ScanInv, NEW c \in 0 .. MaxClock, NEW t \in Strings,
                      add_message_str_lc(c, t)
               PROVE  Evicts
    BY DEF ScanNext
  <2> DEFINE i == first_free_message_index(store)
             e == [lc |-> c, msg |-> <<t>>]
  <2>1. \A k \in Slots : store[k].lc \in Nat
    BY ScanInvClocks
  <2>2. i \in Slots
    BY <2>1, FirstFreeIsSlot
  <2>3. store' = [store EXCEPT ![i] = e]
    BY <2>1, ScanFirstFree DEF add_message_str_lc
  <2>4. e.msg # <<>>
    OBVIOUS
  <2>5. store'[i] = e /\ \A k \in Slots : k # i => store'[k] = store[k]
    <3> HIDE DEF e, i
    <3> QED BY <2>2, <2>3 DEF ScanInv
  <2>6. i \in Used(store')
    BY <2>2, <2>4, <2>5 DEF Used
  <2>7. Used(store) \subseteq Used(store')
    <3> SUFFICES ASSUME NEW k \in Used(store) PROVE k \in Used(store')
      OBVIOUS
    <3> HIDE DEF i, e
    <3> QED BY <2>5, <2>6 DEF Used
  <2>8. gone \subseteq {i}
    <3> HIDE DEF i, e
    <3> QED BY <2>5 DEF Used
  <2>9. ASSUME Used(store) # Slots PROVE gone = {} /\ Used(store') # Used(store)
    <3>1. i \notin Used(store)
      <4>1. Slots \ Used(store) \in SUBSET Nat /\ Slots \ Used(store) # {}
        BY <2>9, MAssumption DEF Used, Slots
      <4>2. \E k \in Slots \ Used(store) : \A j \in Slots \ Used(store) : k <= j
        BY <4>1, NatMin
      <4> QED BY <2>9, <4>2 DEF first_free_message_index, FirstFree
    <3> HIDE DEF i, e
    <3> QED BY <2>6, <2>8, <3>1
  <2>10. ASSUME NEW k \in gone
         PROVE  gone = {k} /\ \A j \in Slots : store[k].lc <= store[j].lc
    <3>1. k = i /\ gone = {k}
      <4> HIDE DEF i, e
      <4> QED BY <2>8
    <3>2. Used(store) = Slots
      BY <2>9, <2>10
    <3>3. IsOldest(store, k)
      BY <2>1, <3>1, <3>2, OldestExists DEF first_free_message_index
    <3>4. k \in Slots
      BY <2>2, <3>1
    <3> QED BY <2>1, <3>1, <3>3, <3>4 DEF IsOldest
  <2> HIDE DEF i, e
  <2> QED BY <2>7, <2>9, <2>10
<1> QED BY <1>1, ScanTypeCorrect, PTL DEF ScanSpec, EvictsOnlyAnOldest
=============================================================================
