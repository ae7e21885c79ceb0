---------------------------- MODULE StoreProofs ----------------------------
(***************************************************************************)
(* Facts about the operators of MessageStore that hold on every board: the *)
(* scans return a slot, and adding a message changes that one slot.        *)
(***************************************************************************)
EXTENDS MessageStore, FiniteSetTheorems, TLAPS

\* Every nonempty set of naturals has a least element.  (Well-foundedness of
\* the strict inclusion of the finite sets 0 .. n-1.)
LEMMA NatMin ==
  ASSUME NEW T \in SUBSET Nat, T # {}
  PROVE  \E x \in T : \A y \in T : x <= y
<1> DEFINE Below(n) == 0 .. (n - 1)
           Initial == {Below(n) : n \in T}
<1>1. IsWellFoundedOn(StrictSubsetOrdering(Nat), FiniteSubsetsOf(Nat))
  BY FS_StrictSubsetOrderingWellFounded
<1>2. Initial \subseteq FiniteSubsetsOf(Nat)
  <2>1. \A n \in Nat : Below(n) \in SUBSET Nat
    OBVIOUS
  <2>2. \A n \in Nat : IsFiniteSet(Below(n))
    BY FS_Interval
  <2> QED BY <2>1, <2>2 DEF FiniteSubsetsOf
<1>3. Initial # {}
  OBVIOUS
<1>4. \E X \in Initial : \A Y \in Initial : ~ (<<Y, X>> \in StrictSubsetOrdering(Nat))
  <2> HIDE DEF Initial
  <2> QED BY <1>1, <1>2, <1>3, WFMin
<1>5. PICK x \in T : \A y \in T : ~ (<<Below(y), Below(x)>> \in StrictSubsetOrdering(Nat))
  BY <1>4
<1>6. \A y \in T : ~ (y < x)
  <2> SUFFICES ASSUME NEW y \in T, y < x
               PROVE  <<Below(y), Below(x)>> \in StrictSubsetOrdering(Nat)
    BY <1>5
  <2>1. Below(y) \subseteq Below(x) /\ y \in Below(x) /\ y \notin Below(y)
    OBVIOUS
  <2>2. Below(x) \in SUBSET Nat /\ Below(y) \in SUBSET Nat
    OBVIOUS
  <2> HIDE DEF Below
  <2> QED BY <2>1, <2>2 DEF StrictSubsetOrdering
<1> QED BY <1>6

\* Every nonempty set of slots has a greatest element.
LEMMA SlotMax ==
  ASSUME NEW T \in SUBSET Slots, T # {}
  PROVE  \E x \in T : \A y \in T : y <= x
<1> USE MAssumption DEF Slots
<1> DEFINE U == {M - x : x \in T}
<1>1. U \in SUBSET Nat /\ U # {}
  <2>1. \A x \in T : M - x \in Nat
    OBVIOUS
  <2>2. PICK x \in T : TRUE
    OBVIOUS
  <2>3. M - x \in U
    OBVIOUS
  <2> QED BY <2>1, <2>3
<1>2. PICK u \in U : \A v \in U : u <= v
  BY <1>1, NatMin
<1>3. PICK x \in T : u = M - x
  OBVIOUS
<1>4. \A y \in T : M - x <= M - y
  BY <1>2, <1>3
<1> QED BY <1>4

\* The scan for the oldest message returns a slot, the last one that holds the
\* smallest clock, on every board whose clocks are naturals.
LEMMA OldestExists ==
  ASSUME NEW b, \A k \in Slots : b[k].lc \in Nat
  PROVE  /\ oldest_message_index(b) \in Slots
         /\ IsOldest(b, oldest_message_index(b))
<1> DEFINE Clocks == {b[k].lc : k \in Slots}
<1>1. 0 \in Slots
  BY MAssumption DEF Slots
<1>2. Clocks \in SUBSET Nat /\ Clocks # {}
  BY <1>1
<1>3. PICK c \in Clocks : \A d \in Clocks : c <= d
  BY <1>2, NatMin
<1> DEFINE T == {k \in Slots : b[k].lc = c}
<1>4. T \in SUBSET Slots /\ T # {}
  BY <1>3
<1>5. PICK k \in T : \A j \in T : j <= k
  BY <1>4, SlotMax
<1>6. IsOldest(b, k)
  <2> SUFFICES ASSUME NEW j \in Slots
               PROVE  b[k].lc < b[j].lc \/ (b[k].lc = b[j].lc /\ j <= k)
    BY DEF IsOldest
  <2>1. c <= b[j].lc /\ b[k].lc = c /\ c \in Nat /\ b[j].lc \in Nat
    BY <1>2, <1>3, <1>5
  <2>2. b[j].lc = c => j <= k
    BY <1>5
  <2> QED BY <2>1, <2>2
<1> QED BY <1>5, <1>6 DEF oldest_message_index

\* The index returned for a new message is a slot: the lowest free one while
\* there is one, and else an oldest.
LEMMA FirstFreeIsSlot ==
  ASSUME NEW b, \A k \in Slots : b[k].lc \in Nat
  PROVE  first_free_message_index(b) \in Slots
<1>1. CASE Used(b) = Slots
  BY <1>1, OldestExists DEF first_free_message_index
<1>2. CASE Used(b) # Slots
  <2>1. Slots \ Used(b) \in SUBSET Nat /\ Slots \ Used(b) # {}
    BY <1>2, MAssumption DEF Used, Slots
  <2>2. \E k \in Slots \ Used(b) : \A j \in Slots \ Used(b) : k <= j
    BY <2>1, NatMin
  <2> QED BY <1>2, <2>2 DEF first_free_message_index, FirstFree
<1> QED BY <1>1, <1>2

\* The walk backwards from the latest message stays on the board for as many
\* steps as the board has slots.
LEMMA NthLatestIsSlot ==
  ASSUME NEW b, latest_message_index(b) \in Slots, NEW n \in 1 .. M
  PROVE  nth_latest_index(b, n) \in Slots
BY MAssumption DEF nth_latest_index, Slots

\* The scan for the latest message returns a slot, too.
LEMMA LatestExists ==
  ASSUME NEW b, \A k \in Slots : b[k].lc \in Nat,
         NEW c \in Nat, \A k \in Slots : b[k].lc <= c
  PROVE  /\ latest_message_index(b) \in Slots
         /\ IsLatest(b, latest_message_index(b))
<1> DEFINE Gaps == {c - b[k].lc : k \in Slots}
<1>1. 0 \in Slots
  BY MAssumption DEF Slots
<1>2. Gaps \in SUBSET Nat /\ Gaps # {}
  BY <1>1
<1>3. PICK g \in Gaps : \A d \in Gaps : g <= d
  BY <1>2, NatMin
<1> DEFINE T == {k \in Slots : c - b[k].lc = g}
<1>4. T \in SUBSET Slots /\ T # {}
  BY <1>3
<1>5. PICK k \in T : \A j \in T : j <= k
  BY <1>4, SlotMax
<1>6. IsLatest(b, k)
  <2> SUFFICES ASSUME NEW j \in Slots
               PROVE  b[j].lc < b[k].lc \/ (b[k].lc = b[j].lc /\ j <= k)
    BY DEF IsLatest
  <2>1. g <= c - b[j].lc /\ c - b[k].lc = g /\ b[k].lc \in Nat /\ b[j].lc \in Nat
    BY <1>2, <1>3, <1>5
  <2>2. c - b[j].lc = g => j <= k
    BY <1>5
  <2> QED BY <2>1, <2>2
<1> QED BY <1>5, <1>6 DEF latest_message_index

\* There are never more messages than slots.
LEMMA NumMessagesBound ==
  ASSUME NEW b
  PROVE  num_messages(b) \in 0 .. M
<1>1. IsFiniteSet(Slots) /\ Cardinality(Slots) = M
  BY FS_Interval, MAssumption DEF Slots
<1>2. Used(b) \subseteq Slots
  BY DEF Used
<1> QED BY <1>1, <1>2, FS_Subset, FS_CardinalityType, MAssumption DEF num_messages

\* A listing is a sequence of entries of the board, of the length asked for.
LEMMA ListingType ==
  ASSUME NEW b, NEW S, \A k \in Slots : b[k] \in S,
         latest_message_index(b) \in Slots, NEW n \in 0 .. M
  PROVE  /\ listing(b, n) \in Seq(S)
         /\ Len(listing(b, n)) = n
         /\ \A k \in 1 .. n : listing(b, n)[k] = b[nth_latest_index(b, n + 1 - k)]
<1>1. \A k \in 1 .. n : n + 1 - k \in 1 .. M
  BY MAssumption
<1>2. \A k \in 1 .. n : b[nth_latest_index(b, n + 1 - k)] \in S
  BY <1>1, NthLatestIsSlot
<1>3. listing(b, n) \in [1 .. n -> S]
  BY <1>2 DEF listing
<1> QED BY <1>3, MAssumption DEF listing
=============================================================================
