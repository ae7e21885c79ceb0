---------------------------- MODULE BoardProofs ----------------------------
(***************************************************************************)
(* Theorems about Board for every size of board and every number of        *)
(* publications.  The inductive invariant says where on the array the last *)
(* publications lie: at and below the latest one, p, with clocks falling   *)
(* by one per slot, and above it the ones from before the array last       *)
(* wrapped, or free slots if it has not wrapped yet.                       *)
(***************************************************************************)
EXTENDS Board, StoreProofs

Ring(b, c, p) ==
  /\ p \in -1 .. M - 1
  /\ c >= M => p >= 0
  /\ c < M => p = c - 1
  /\ \A j \in Slots :
       \/ j <= p /\ b[j].lc = c - (p - j) /\ b[j].msg # <<>>
       \/ j > p /\ c < M /\ b[j].lc = 0 /\ b[j].msg = <<>>
       \/ j > p /\ c >= M /\ b[j].lc = c - (p + M - j) /\ b[j].msg # <<>>

\* The slot after p, around the end of the array.
After(p) == IF p = M - 1 THEN 0 ELSE p + 1

BoardEntry == [lc : Nat, msg : {<<>>} \cup {<<t>> : t \in Texts}]
MessageEntry == [lc : Nat, msg : {<<t>> : t \in Texts}]

RingInv ==
  /\ TypeOK
  /\ \E p \in -1 .. M - 1 : Ring(board, lc, p)

\* The number of messages on the ring.
LEMMA RingUsed ==
  ASSUME NEW b, NEW c \in Nat, NEW p, Ring(b, c, p)
  PROVE  /\ c < M => Used(b) = 0 .. c - 1 /\ num_messages(b) = c
         /\ c >= M => Used(b) = Slots /\ num_messages(b) = M
<1> USE MAssumption
<1>1. ASSUME c < M PROVE Used(b) = 0 .. c - 1
  BY <1>1 DEF Ring, Used, Slots
<1>2. ASSUME c >= M PROVE Used(b) = Slots
  BY <1>2 DEF Ring, Used, Slots
<1>3. Cardinality(0 .. c - 1) = c /\ Cardinality(0 .. M - 1) = M
  BY FS_Interval
<1> QED BY <1>1, <1>2, <1>3 DEF num_messages, Slots

LEMMA RingCount ==
  ASSUME NEW b, NEW c \in Nat, NEW p, Ring(b, c, p)
  PROVE  num_messages(b) = IF c < M THEN c ELSE M
<1>1. CASE c < M
  BY <1>1, RingUsed
<1>2. CASE c >= M
  BY <1>2, RingUsed, MAssumption
<1> QED BY <1>1, <1>2, MAssumption

\* The latest message of a ring that holds one is at its end.
LEMMA RingLatest ==
  ASSUME NEW b, NEW c \in Nat \ {0}, NEW p, Ring(b, c, p)
  PROVE  latest_message_index(b) = p /\ p \in Slots
<1> USE MAssumption
<1>1. p \in Slots
  BY DEF Ring, Slots
<1>2. \A j \in Slots : b[j].lc \in Int
  BY DEF Ring, Slots
<1>3. IsLatest(b, p)
  BY <1>1 DEF Ring, Slots, IsLatest
<1>4. \A k \in Slots : IsLatest(b, k) => k = p
  <2> SUFFICES ASSUME NEW k \in Slots, IsLatest(b, k) PROVE k = p
    OBVIOUS
  <2>1. b[p].lc < b[k].lc \/ (b[k].lc = b[p].lc /\ p <= k)
    BY <1>1 DEF IsLatest
  <2>2. b[k].lc < b[p].lc \/ (b[p].lc = b[k].lc /\ k <= p)
    BY <1>3 DEF IsLatest
  <2> QED BY <1>1, <1>2, <2>1, <2>2 DEF Slots
<1> QED BY <1>1, <1>3, <1>4 DEF latest_message_index

\* The slot that the next message takes follows the latest, around the end.
LEMMA RingNext ==
  ASSUME NEW b, NEW c \in Nat, NEW p, Ring(b, c, p)
  PROVE  first_free_message_index(b) = IF p = M - 1 THEN 0 ELSE p + 1
<1> USE MAssumption
<1>1. CASE c < M
  <2>1. Used(b) = 0 .. c - 1 /\ p = c - 1
    BY <1>1, RingUsed DEF Ring
  <2>2. Slots \ Used(b) = c .. M - 1 /\ Used(b) # Slots
    BY <1>1, <2>1 DEF Slots
  <2>3. FirstFree(b) = c
    BY <1>1, <2>2 DEF FirstFree
  <2> QED BY <1>1, <2>1, <2>2, <2>3 DEF first_free_message_index
<1>2. CASE c >= M
  <2> DEFINE q == IF p = M - 1 THEN 0 ELSE p + 1
  <2>1. Used(b) = Slots
    BY <1>2, RingUsed
  <2>2. q \in Slots
    BY <1>2 DEF Ring, Slots
  <2>3. \A j \in Slots : b[j].lc \in Int
    BY DEF Ring, Slots
  <2>4. \A j \in Slots \ {q} : b[q].lc < b[j].lc
    <3>1. b[q].lc = c - M + 1
      <4>1. CASE p = M - 1
        BY <4>1, <1>2, <2>2 DEF Ring, Slots
      <4>2. CASE p # M - 1
        BY <4>2, <1>2, <2>2 DEF Ring, Slots
      <4> QED BY <4>1, <4>2
    <3>2. ASSUME NEW j \in Slots, j # q PROVE b[j].lc > c - M + 1
      <4>0. j \in 0 .. M - 1 /\ p \in 0 .. M - 1
        BY <1>2 DEF Ring, Slots
      <4>1. CASE p = M - 1
        <5>1. j > 0
          BY <3>2, <4>0, <4>1
        <5>2. b[j].lc = c - (p - j)
          BY <4>0, <4>1 DEF Ring
        <5> HIDE DEF q
        <5> QED BY <4>0, <4>1, <5>1, <5>2
      <4>2. CASE p # M - 1
        <5>1. j # p + 1
          BY <3>2, <4>2
        <5>2. \/ j <= p /\ b[j].lc = c - (p - j)
              \/ j > p /\ b[j].lc = c - (p + M - j)
          BY <1>2 DEF Ring
        <5> HIDE DEF q
        <5> QED BY <4>0, <4>2, <5>1, <5>2
      <4> QED BY <4>1, <4>2
    <3> HIDE DEF q
    <3> QED BY <2>2, <2>3, <3>1, <3>2
  <2>5. IsOldest(b, q)
    BY <2>2, <2>4 DEF IsOldest, Slots
  <2>6. \A k \in Slots : IsOldest(b, k) => k = q
    <3> SUFFICES ASSUME NEW k \in Slots, IsOldest(b, k), k # q PROVE FALSE
      OBVIOUS
    <3>1. b[k].lc <= b[q].lc
      BY <2>2, <2>3 DEF IsOldest
    <3>2. b[q].lc < b[k].lc
      BY <2>4
    <3> HIDE DEF q
    <3> QED BY <2>2, <2>3, <3>1, <3>2
  <2>7. oldest_message_index(b) = q
    BY <2>2, <2>5, <2>6 DEF oldest_message_index
  <2> QED BY <2>1, <2>7 DEF first_free_message_index
<1> QED BY <1>1, <1>2 DEF Ring

\* Adding a message with the next clock extends the ring by one.
LEMMA RingAdd ==
  ASSUME NEW b \in [Slots -> BoardEntry], NEW c \in Nat, NEW p, Ring(b, c, p), NEW t \in Texts
  PROVE  /\ Ring(add_message(b, c + 1, <<t>>), c + 1, After(p))
         /\ add_message(b, c + 1, <<t>>) \in [Slots -> BoardEntry]
<1> USE MAssumption DEF After
<1> DEFINE q == After(p)
           e == [lc |-> c + 1, msg |-> <<t>>]
           d == add_message(b, c + 1, <<t>>)
<1>1. d = [b EXCEPT ![q] = e]
  BY RingNext DEF add_message
<1>2. q \in Slots /\ e \in BoardEntry
  BY DEF Ring, Slots, BoardEntry
<1>3. d \in [Slots -> BoardEntry]
  BY <1>1, <1>2
<1>4. d[q].lc = c + 1 /\ d[q].msg # <<>>
  <2>1. d[q] = e
    <3> HIDE DEF d, q, e
    <3> QED BY <1>1, <1>2
  <2> QED BY <2>1
<1>5. \A j \in Slots \ {q} : d[j] = b[j]
  BY <1>1
<1>6. Ring(d, c + 1, q)
  <2> HIDE DEF d
  <2>1. /\ q \in -1 .. M - 1
        /\ c + 1 >= M => q >= 0
        /\ c + 1 < M => q = (c + 1) - 1
    BY DEF Ring
  <2>2. ASSUME NEW j \in Slots
        PROVE  \/ j <= q /\ d[j].lc = (c + 1) - (q - j) /\ d[j].msg # <<>>
               \/ j > q /\ c + 1 < M /\ d[j].lc = 0 /\ d[j].msg = <<>>
               \/ j > q /\ c + 1 >= M /\ d[j].lc = (c + 1) - (q + M - j) /\ d[j].msg # <<>>
    <3>1. CASE j = q
      BY <3>1, <1>2, <1>4 DEF Slots
    <3>2. CASE j # q
      <4>1. d[j] = b[j]
        BY <3>2, <1>5
      <4>2. CASE p = M - 1
        BY <3>2, <4>1, <4>2 DEF Ring, Slots
      <4>3. CASE p # M - 1
        BY <3>2, <4>1, <4>3 DEF Ring, Slots
      <4> QED BY <4>2, <4>3
    <3> QED BY <3>1, <3>2
  <2> QED BY <2>1, <2>2 DEF Ring
<1> HIDE DEF d
<1> QED BY <1>1, <1>3, <1>6 DEF d

\* Walking back from the latest message meets the previous clock at each step.
LEMMA RingListing ==
  ASSUME NEW b \in [Slots -> BoardEntry], NEW c \in Nat, NEW p, Ring(b, c, p),
         NEW n \in 0 .. num_messages(b)
  PROVE  /\ listing(b, n) \in Seq(MessageEntry)
         /\ Len(listing(b, n)) = n
         /\ \A k \in 1 .. n :
              /\ listing(b, n)[k].lc = c - n + k
              /\ listing(b, n)[k].msg # <<>>
<1> USE MAssumption
<1>1. n \in 0 .. M /\ n <= c
  <2>1. num_messages(b) = IF c < M THEN c ELSE M
    BY RingCount
  <2> QED BY <2>1
<1>2. CASE c = 0
  <2>1. n = 0
    BY <1>1, <1>2
  <2> QED BY <2>1 DEF listing
<1>3. CASE c # 0
  <2>1. latest_message_index(b) = p /\ p \in Slots
    BY <1>3, RingLatest
  <2>2. ASSUME NEW k \in 1 .. n
        PROVE  LET x == nth_latest_index(b, n + 1 - k)
               IN  x \in Slots /\ b[x].lc = c - n + k /\ b[x].msg # <<>>
    <3> DEFINE x == nth_latest_index(b, n + 1 - k)
    <3>1. x = IF p - (n - k) < 0 THEN M + (p - (n - k)) ELSE p - (n - k)
      BY <1>1, <2>1 DEF nth_latest_index, Slots
    <3>2. x \in Slots
      BY <3>1, <2>1, <1>1 DEF Slots
    <3>3. CASE p - (n - k) >= 0
      <4> HIDE DEF x
      <4>1. x <= p /\ x = p - (n - k)
        BY <3>1, <3>3, <2>1, <1>1 DEF Slots
      <4> QED BY <4>1, <3>2, <2>1, <1>1 DEF Ring, Slots, x
    <3>4. CASE p - (n - k) < 0
      <4>1. c >= M
        BY <3>4, <2>1, <1>1 DEF Ring, Slots
      <4> HIDE DEF x
      <4>2. x > p /\ x = M + (p - (n - k))
        BY <3>1, <3>4, <2>1, <1>1 DEF Slots
      <4> QED BY <4>1, <4>2, <3>2, <2>1, <1>1 DEF Ring, Slots, x
    <3> QED BY <3>3, <3>4, <2>1, <1>1 DEF Slots
  <2>3. \A k \in 1 .. n : listing(b, n)[k] = b[nth_latest_index(b, n + 1 - k)]
    BY DEF listing
  <2>4. \A k \in 1 .. n : listing(b, n)[k] \in MessageEntry
    BY <2>2, <2>3 DEF BoardEntry, MessageEntry
  <2>5. listing(b, n) \in [1 .. n -> MessageEntry]
    BY <2>4, <1>1 DEF listing
  <2>6. listing(b, n) \in Seq(MessageEntry) /\ Len(listing(b, n)) = n
    BY <2>5, <1>1
  <2> QED BY <2>2, <2>3, <2>6
<1> QED BY <1>2, <1>3
-----------------------------------------------------------------------------
LEMMA RingInit == Init => RingInv
<1> SUFFICES ASSUME Init PROVE RingInv
  OBVIOUS
<1> USE MAssumption
<1>1. TypeOK
  BY DEF Init, TypeOK, EmptyBoard, Empty, Slots
<1>2. Ring(board, lc, -1)
  BY DEF Init, Ring, EmptyBoard, Empty, Slots
<1> QED BY <1>1, <1>2 DEF RingInv

LEMMA RingStep == RingInv /\ [Next]_vars => RingInv'
<1> SUFFICES ASSUME RingInv, [Next]_vars PROVE RingInv'
  OBVIOUS
<1> USE MAssumption
<1>0. PICK p \in -1 .. M - 1 : Ring(board, lc, p)
  BY DEF RingInv
<1>t. /\ board \in [Slots -> BoardEntry]
      /\ lc \in Nat
      /\ reply \in Seq(MessageEntry)
  BY DEF RingInv, TypeOK, BoardEntry, MessageEntry
<1>1. ASSUME NEW t \in Texts, publish_message(t) PROVE RingInv'
  <2> DEFINE q == After(p)
  <2>1. lc' = lc + 1 /\ board' = add_message(board, lc + 1, <<t>>) /\ reply' = reply
    BY <1>1 DEF publish_message
  <2>2. Ring(board', lc', q) /\ board' \in [Slots -> BoardEntry]
    BY <2>1, <1>0, <1>t, RingAdd
  <2>3. TypeOK'
    BY <2>1, <2>2, <1>t DEF TypeOK, BoardEntry, MessageEntry
  <2>4. q \in -1 .. M - 1
    BY DEF After
  <2> QED BY <2>2, <2>3, <2>4 DEF RingInv
<1>2. ASSUME NEW n \in 0 .. M + 1, send_messages_to_terminal(n) PROVE RingInv'
  <2>1. num_messages(board) \in 0 .. M
    BY NumMessagesBound
  <2>2. Clamp(board, n) \in 0 .. num_messages(board)
    BY <2>1 DEF Clamp
  <2>3. listing(board, Clamp(board, n)) \in Seq(MessageEntry)
    BY <2>2, <1>0, <1>t, RingListing
  <2>4. TypeOK'
    BY <1>2, <2>3, <1>t DEF send_messages_to_terminal, TypeOK, BoardEntry, MessageEntry
  <2> QED BY <1>0, <1>2, <2>4 DEF send_messages_to_terminal, RingInv
<1>3. CASE UNCHANGED vars
  BY <1>3 DEF vars, RingInv, TypeOK
<1> QED BY <1>1, <1>2, <1>3 DEF Next

\* On a board of any size, whatever has been published and shown: types, and
\* where the last publications lie.
THEOREM BoardInvariant == Spec => []RingInv
BY RingInit, RingStep, PTL DEF Spec

\* The type invariant holds for every size of board.
THEOREM BoardTypeOK == Spec => []TypeOK
<1>1. RingInv => TypeOK
  BY DEF RingInv
<1> QED BY <1>1, BoardInvariant, PTL

\* A server with no peers lists its messages in the order of their clocks and
\* completely, for every size of board and number of publications.
THEOREM BoardListedByClock == Spec => []ListedByClock
<1>1. RingInv => ListedByClock
  BY RingListing DEF RingInv, TypeOK, ListedByClock, BoardEntry
<1> QED BY <1>1, BoardInvariant, PTL
-----------------------------------------------------------------------------
(* Refinement *)

\* After a message is added, the walk back is the old one, one step later.
LEMMA WalkAfterAdd ==
  ASSUME NEW b \in [Slots -> BoardEntry], NEW c \in Nat \ {0}, NEW p, Ring(b, c, p),
         NEW t \in Texts, NEW n \in 1 .. M - 1
  PROVE  LET d == add_message(b, c + 1, <<t>>)
         IN  /\ nth_latest_index(d, n + 1) = nth_latest_index(b, n)
             /\ d[nth_latest_index(d, n + 1)] = b[nth_latest_index(b, n)]
<1> USE MAssumption
<1> DEFINE q == After(p)
           d == add_message(b, c + 1, <<t>>)
<1>1. latest_message_index(b) = p /\ p \in Slots
  BY RingLatest
<1>2. Ring(d, c + 1, q) /\ d = [b EXCEPT ![q] = [lc |-> c + 1, msg |-> <<t>>]]
  <2>1. Ring(d, c + 1, q)
    BY RingAdd
  <2>2. first_free_message_index(b) = q
    BY RingNext DEF After
  <2> QED BY <2>1, <2>2 DEF add_message
<1>3. latest_message_index(d) = q /\ q \in Slots
  <2> HIDE DEF d, q
  <2> QED BY <1>2, RingLatest
<1> DEFINE x == nth_latest_index(b, n)
<1>4. x = IF p - (n - 1) < 0 THEN M + (p - (n - 1)) ELSE p - (n - 1)
  BY <1>1 DEF nth_latest_index
<1>5. nth_latest_index(d, n + 1) = IF q - n < 0 THEN M + (q - n) ELSE q - n
  <2> HIDE DEF d, q
  <2> QED BY <1>3 DEF nth_latest_index, Slots
<1>6. nth_latest_index(d, n + 1) = x /\ x \in Slots /\ x # q
  <2>1. CASE p = M - 1
    <3> HIDE DEF d, x
    <3> QED BY <2>1, <1>4, <1>5 DEF Slots, After
  <2>2. CASE p # M - 1
    <3> HIDE DEF d, x
    <3> QED BY <2>2, <1>1, <1>4, <1>5 DEF Slots, After
  <2> QED BY <2>1, <2>2
<1>7. d[x] = b[x]
  <2> HIDE DEF d, x, q
  <2> QED BY <1>2, <1>6
<1> HIDE DEF d, x
<1> QED BY <1>6, <1>7 DEF d, x

\* Publishing appends to the listing and keeps its last M entries.
LEMMA ListingAfterAdd ==
  ASSUME NEW b \in [Slots -> BoardEntry], NEW c \in Nat, NEW p \in -1 .. M - 1,
         Ring(b, c, p), NEW t \in Texts
  PROVE  LET d == add_message(b, c + 1, <<t>>)
             e == [lc |-> c + 1, msg |-> <<t>>]
         IN  listing(d, num_messages(d))
               = Abstract!Latest(M, Append(listing(b, num_messages(b)), e))
<1> USE MAssumption
<1> DEFINE q == After(p)
           e == [lc |-> c + 1, msg |-> <<t>>]
           d == add_message(b, c + 1, <<t>>)
           old == listing(b, num_messages(b))
           new == listing(d, num_messages(d))
           n == num_messages(d)
<1>1. /\ Ring(d, c + 1, q)
      /\ d \in [Slots -> BoardEntry]
      /\ d = [b EXCEPT ![q] = e]
  <2>1. Ring(d, c + 1, q) /\ d \in [Slots -> BoardEntry]
    BY RingAdd
  <2>2. first_free_message_index(b) = q
    BY RingNext DEF After
  <2> QED BY <2>1, <2>2 DEF add_message
<1>2. num_messages(b) = (IF c < M THEN c ELSE M)
  BY RingCount
<1>3. n = IF c < M THEN c + 1 ELSE M
  <2>1. num_messages(d) = IF c + 1 < M THEN c + 1 ELSE M
    <3> HIDE DEF d, q
    <3> QED BY <1>1, RingCount
  <2> HIDE DEF d
  <2> QED BY <2>1
<1>4. latest_message_index(d) = q /\ q \in Slots
  <2> HIDE DEF d, q
  <2> QED BY <1>1, RingLatest
<1>5. d[nth_latest_index(d, 1)] = e
  <2>1. nth_latest_index(d, 1) = q
    <3> HIDE DEF d, q
    <3> QED BY <1>4 DEF nth_latest_index, Slots
  <2>2. d[q] = e
    <3> HIDE DEF d, q, e
    <3> QED BY <1>1, <1>4
  <2> QED BY <2>1, <2>2
<1>6. \A k \in 1 .. n : new[k] = d[nth_latest_index(d, n + 1 - k)]
  BY DEF listing
<1>7. old \in Seq(MessageEntry) /\ Len(old) = num_messages(b)
  <2>1. num_messages(b) \in 0 .. num_messages(b)
    BY <1>2
  <2> QED BY <2>1, RingListing
<1>8. new \in Seq(MessageEntry) /\ Len(new) = n
  <2>1. num_messages(d) \in 0 .. num_messages(d)
    BY <1>3
  <2>2. listing(d, num_messages(d)) \in Seq(MessageEntry) /\ Len(listing(d, num_messages(d))) = num_messages(d)
    <3>1. c + 1 \in Nat
      OBVIOUS
    <3> HIDE DEF d, q
    <3> QED BY <2>1, <3>1, <1>1, RingListing
  <2> QED BY <2>2
<1>9. \A k \in 1 .. num_messages(b) : old[k] = b[nth_latest_index(b, num_messages(b) + 1 - k)]
  BY DEF listing
<1>10. new[n] = e
  <2>1. n \in 1 .. n /\ n + 1 - n = 1
    BY <1>3
  <2> QED BY <2>1, <1>5, <1>6
<1>11. ASSUME NEW k \in 1 .. n - 1
       PROVE  new[k] = b[nth_latest_index(b, n - k)]
  <2>1. c # 0 /\ n - k \in 1 .. M - 1 /\ n + 1 - k = (n - k) + 1
    BY <1>3
  <2>2. d[nth_latest_index(d, (n - k) + 1)] = b[nth_latest_index(b, n - k)]
    BY <2>1, WalkAfterAdd
  <2>3. new[k] = d[nth_latest_index(d, (n - k) + 1)]
    BY <1>3, <1>6, <2>1
  <2> QED BY <2>2, <2>3
<1>12. e \in MessageEntry
  BY DEF MessageEntry
<1> DEFINE all == Append(old, e)
<1>13. /\ all \in Seq(MessageEntry)
       /\ Len(all) = num_messages(b) + 1
       /\ \A k \in 1 .. num_messages(b) : all[k] = old[k]
       /\ all[num_messages(b) + 1] = e
  <2> HIDE DEF old, e
  <2> QED BY <1>7, <1>12
<1> SUFFICES new = Abstract!Latest(M, all)
  OBVIOUS
<1>14. CASE c < M
  <2>1. Abstract!Latest(M, all) = all
    <3> HIDE DEF all
    <3> QED BY <1>2, <1>13, <1>14 DEF Abstract!Latest
  <2>2. Len(new) = Len(all) /\ \A k \in 1 .. Len(all) : new[k] = all[k]
    <3>1. num_messages(b) = c /\ n = c + 1
      BY <1>2, <1>3, <1>14
    <3>2. \A k \in 1 .. c : new[k] = all[k]
      <4> SUFFICES ASSUME NEW k \in 1 .. c PROVE new[k] = all[k]
        OBVIOUS
      <4>1. new[k] = b[nth_latest_index(b, c + 1 - k)]
        BY <1>11, <3>1
      <4>2. old[k] = b[nth_latest_index(b, c + 1 - k)]
        BY <1>9, <3>1
      <4> QED BY <4>1, <4>2, <1>13, <3>1
    <3> HIDE DEF all, new, n, e
    <3> QED BY <1>8, <1>10, <1>13, <3>1, <3>2
  <2>3. new = all
    <3>1. new \in Seq(MessageEntry) /\ all \in Seq(MessageEntry)
      BY <1>8, <1>13
    <3> HIDE DEF all, new, n, e, q, d, old
    <3> QED BY <2>2, <3>1
  <2> HIDE DEF all, new, n, e, q, d, old
  <2> QED BY <2>1, <2>3
<1>15. CASE c >= M
  <2>1. num_messages(b) = M /\ n = M
    BY <1>2, <1>3, <1>15
  <2>2. Abstract!Latest(M, all) = SubSeq(all, 2, M + 1)
    <3> HIDE DEF all
    <3> QED BY <2>1, <1>13 DEF Abstract!Latest
  <2> DEFINE last == SubSeq(all, 2, M + 1)
  <2>3. last \in Seq(MessageEntry) /\ Len(last) = M /\ \A k \in 1 .. M : last[k] = all[k + 1]
    <3> HIDE DEF all
    <3> QED BY <2>1, <1>13
  <2>4. \A k \in 1 .. M : new[k] = all[k + 1]
    <3>1. new[M] = all[M + 1]
      <4> HIDE DEF all, new, n, e
      <4> QED BY <2>1, <1>10, <1>13
    <3>2. \A k \in 1 .. M - 1 : new[k] = all[k + 1]
      <4> SUFFICES ASSUME NEW k \in 1 .. M - 1 PROVE new[k] = all[k + 1]
        OBVIOUS
      <4>1. new[k] = b[nth_latest_index(b, M - k)]
        BY <1>11, <2>1
      <4>2. k + 1 \in 1 .. M /\ M + 1 - (k + 1) = M - k
        OBVIOUS
      <4>3. old[k + 1] = b[nth_latest_index(b, M - k)]
        BY <1>9, <2>1, <4>2
      <4> QED BY <4>1, <4>2, <4>3, <1>13, <2>1
    <3> HIDE DEF all, new
    <3> QED BY <3>1, <3>2
  <2> HIDE DEF all, new, last, n
  <2> QED BY <2>1, <2>2, <2>3, <2>4, <1>8 DEF last
<1> QED BY <1>14, <1>15

\* A request for n messages is answered with the last n of them.
LEMMA ListingOfFew ==
  ASSUME NEW b \in [Slots -> BoardEntry], NEW c \in Nat, NEW p \in -1 .. M - 1,
         Ring(b, c, p), NEW n \in 0 .. M + 1
  PROVE  listing(b, Clamp(b, n)) = Abstract!Latest(n, listing(b, num_messages(b)))
<1> USE MAssumption
<1> DEFINE l == num_messages(b)
           m == Clamp(b, n)
           all == listing(b, l)
           few == listing(b, m)
<1>1. l \in 0 .. M
  BY NumMessagesBound
<1>2. m \in 0 .. l /\ m = IF n > l THEN l ELSE n
  BY <1>1 DEF Clamp
<1>3. /\ few \in Seq(MessageEntry) /\ Len(few) = m
      /\ all \in Seq(MessageEntry) /\ Len(all) = l
  <2>1. l \in 0 .. num_messages(b)
    BY <1>1
  <2> QED BY <1>2, <2>1, RingListing
<1>4. CASE l <= n
  <2>1. m = l
    BY <1>1, <1>2, <1>4
  <2>2. Abstract!Latest(n, all) = all
    BY <1>3, <1>4 DEF Abstract!Latest
  <2> QED BY <2>1, <2>2
<1>5. CASE ~ (l <= n)
  <2> DEFINE last == SubSeq(all, l - n + 1, l)
  <2>1. m = n /\ n < l
    BY <1>1, <1>2, <1>5
  <2>2. Abstract!Latest(n, all) = last
    <3> HIDE DEF all, l
    <3> QED BY <1>3, <1>5 DEF Abstract!Latest
  <2>3. last \in Seq(MessageEntry) /\ Len(last) = n /\ \A k \in 1 .. n : last[k] = all[l - n + k]
    <3> HIDE DEF all, l
    <3> QED BY <1>1, <1>3, <2>1
  <2>4. ASSUME NEW k \in 1 .. n PROVE few[k] = all[l - n + k]
    <3>1. few[k] = b[nth_latest_index(b, n + 1 - k)]
      BY <2>1 DEF listing
    <3>2. l - n + k \in 1 .. l /\ l + 1 - (l - n + k) = n + 1 - k
      BY <1>1, <2>1
    <3>3. all[l - n + k] = b[nth_latest_index(b, l + 1 - (l - n + k))]
      BY <3>2 DEF listing
    <3> QED BY <3>1, <3>2, <3>3
  <2> HIDE DEF all, few, l, m, last
  <2> QED BY <1>3, <2>1, <2>2, <2>3, <2>4 DEF few, m, all, l
<1> QED BY <1>4, <1>5

\* For every size of board, a server with no peers behaves at each step as a
\* list of the last M messages published to it.
THEOREM BoardRefinesLatestMessages == Spec => RefinesLatestMessages
<1> USE MAssumption
<1>1. Init => Abstract!Init
  <2> SUFFICES ASSUME Init PROVE Abstract!Init
    OBVIOUS
  <2>1. Used(board) = {}
    BY DEF Init, EmptyBoard, Empty, Used
  <2>2. num_messages(board) = 0
    BY <2>1, FS_EmptySet DEF num_messages
  <2>3. listing(board, 0) = <<>>
    BY DEF listing
  <2> QED BY <2>2, <2>3 DEF Init, Abstract!Init
<1>2. RingInv /\ [Next]_vars => [Abstract!Next]_(Abstract!vars)
  <2> SUFFICES ASSUME RingInv, [Next]_vars PROVE [Abstract!Next]_(Abstract!vars)
    OBVIOUS
  <2>1. PICK p \in -1 .. M - 1 : Ring(board, lc, p)
    BY DEF RingInv
  <2>2. board \in [Slots -> BoardEntry] /\ lc \in Nat
    BY DEF RingInv, TypeOK, BoardEntry
  <2>3. ASSUME NEW t \in Texts, publish_message(t) PROVE Abstract!Publish(t)
    <3>1. /\ lc < MaxPublishes /\ lc' = lc + 1 /\ reply' = reply
          /\ board' = add_message(board, lc + 1, <<t>>)
      BY <2>3 DEF publish_message
    <3>2. listing(board', num_messages(board'))
            = Abstract!Latest(M, Append(listing(board, num_messages(board)),
                                        [lc |-> lc + 1, msg |-> <<t>>]))
      BY <3>1, <2>1, <2>2, ListingAfterAdd
    <3> QED BY <3>1, <3>2 DEF Abstract!Publish
  <2>4. ASSUME NEW n \in 0 .. M + 1, send_messages_to_terminal(n) PROVE Abstract!Show(n)
    <3>1. listing(board, Clamp(board, n)) = Abstract!Latest(n, listing(board, num_messages(board)))
      BY <2>1, <2>2, ListingOfFew
    <3> QED BY <2>4, <3>1 DEF send_messages_to_terminal, Abstract!Show
  <2>5. CASE UNCHANGED vars
    BY <2>5 DEF vars, Abstract!vars
  <2> QED BY <2>3, <2>4, <2>5 DEF Next, Abstract!Next
<1> QED BY <1>1, <1>2, BoardInvariant, PTL DEF Spec, RefinesLatestMessages, Abstract!Spec
=============================================================================
