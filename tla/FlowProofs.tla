----------------------------- MODULE FlowProofs -----------------------------
(***************************************************************************)
(* Two servers, or three in a circle, never wait for each other to read,   *)
(* for any number of servers and any capacity above the length of the      *)
(* circle.  Only select() changes Load, and it adds to a circle only when  *)
(* one of its sessions is empty.                                           *)
(***************************************************************************)
EXTENDS FlowControl, TLAPS

\* What the types need: select() reports frames that stay until they are read,
\* and an index starts from the first session.
PassOK ==
  /\ \A s \in Servers : \A r \in rfds[s] : pipe[r][s] > 0
  /\ \A s \in Servers : pc[s] = "select" => rfds[s] = {}
  /\ \A s \in Servers : pc[s] # "distribute" => i[s] = 1

FlowInv == TypeOK /\ PassOK /\ RoomInPairs /\ RoomInTriples

\* Initially no session holds anything.
LEMMA InitOK == Init => TypeOK /\ PassOK
<1> SUFFICES ASSUME Init PROVE TypeOK /\ PassOK
  OBVIOUS
<1>1. \A s \in Servers : peers[s] \in Seq(Servers)
  <2> SUFFICES ASSUME NEW s \in Servers PROVE peers[s] \in Seq(Servers)
    OBVIOUS
  <2>1. PICK n \in 0 .. Cardinality(Servers) : peers[s] \in [1 .. n -> Servers]
    BY DEF Init
  <2> QED
    BY <2>1
<1> QED
  BY <1>1, CapAssumption DEF Init, TypeOK, PassOK

\* The array of sessions names every other server once.
LEMMA Arrays ==
  ASSUME TypeOK, NEW s \in Servers
  PROVE  /\ Len(peers[s]) \in Nat
         /\ DOMAIN peers[s] = 1 .. Len(peers[s])
         /\ \A k \in 1 .. Len(peers[s]) : peers[s][k] \in Servers /\ peers[s][k] # s
         /\ \A j, k \in 1 .. Len(peers[s]) : peers[s][j] = peers[s][k] => j = k
<1>1. peers[s] \in Seq(Servers) /\ IsArray(s, peers[s])
  BY DEF TypeOK
<1>2. DOMAIN peers[s] = 1 .. Len(peers[s]) /\ Len(peers[s]) \in Nat
  BY <1>1
<1>3. \A k \in DOMAIN peers[s] : peers[s][k] \in Servers \ {s}
  BY <1>1 DEF IsArray
<1> QED
  BY <1>1, <1>2, <1>3 DEF IsArray

\* A pass starts.
LEMMA SelectOK ==
  ASSUME TypeOK, PassOK, NEW s \in Servers, NEW publish \in BOOLEAN, select(s, publish)
  PROVE  TypeOK' /\ PassOK'
<1>1. TypeOK'
  <2>1. peers[s] # <<>> => 1 \in DOMAIN peers[s]
    BY Arrays DEF TypeOK
  <2>2. \A t \in Servers : pc'[t] = "distribute" => i'[t] \in DOMAIN peers'[t]
    BY <2>1 DEF TypeOK, PassOK, select
  <2>3. rfds' \in [Servers -> SUBSET Servers]
    BY DEF TypeOK, select, Readable
  <2>4. pc' \in [Servers -> {"select", "distribute", "serve"}]
    BY DEF TypeOK, select
  <2>5. i' = i /\ peers' = peers /\ pipe' = pipe
    BY DEF select
  <2>6. \A t \in Servers : peers'[t] \in Seq(Servers) /\ IsArray(t, peers[t])'
    BY <2>5 DEF TypeOK, IsArray
  <2>7. i' \in [Servers -> Nat \ {0}] /\ pipe' \in [Servers -> [Servers -> 0 .. Cap]]
    BY <2>5 DEF TypeOK
  <2> QED
    BY <2>2, <2>3, <2>4, <2>6, <2>7 DEF TypeOK
<1>2. PassOK'
  BY DEF TypeOK, PassOK, select, Readable
<1> QED
  BY <1>1, <1>2

\* A write of a distribution.
LEMMA DistributeOK ==
  ASSUME TypeOK, PassOK, NEW s \in Servers, distribute_message(s)
  PROVE  TypeOK' /\ PassOK'
<1> DEFINE r == peers[s][i[s]]
<1>1. i[s] \in DOMAIN peers[s] /\ r \in Servers /\ r # s /\ Len(peers[s]) \in Nat
        /\ DOMAIN peers[s] = 1 .. Len(peers[s])
  BY Arrays DEF TypeOK, distribute_message
<1>2. pipe' = [pipe EXCEPT ![s] = [pipe[s] EXCEPT ![r] = pipe[s][r] + 1]]
  BY DEF distribute_message
<1>3. \A a \in Servers : \A b \in Servers : pipe[a][b] \in 0 .. Cap
  BY DEF TypeOK
<1>4. pipe[s][r] + 1 \in 0 .. Cap
  <2>1. pipe[s][r] < Cap
    BY DEF distribute_message, CanWrite
  <2> QED
    BY <1>1, <1>3, <2>1, CapAssumption
<1>5. TypeOK'
  <2>1. pipe \in [Servers -> [Servers -> 0 .. Cap]]
    BY DEF TypeOK
  <2>2. [pipe[s] EXCEPT ![r] = pipe[s][r] + 1] \in [Servers -> 0 .. Cap]
    BY <1>1, <1>4, <2>1
  <2>3. pipe' \in [Servers -> [Servers -> 0 .. Cap]]
    BY <1>2, <2>1, <2>2
  <2>4. pc' \in [Servers -> {"select", "distribute", "serve"}]
    BY DEF TypeOK, distribute_message
  <2>5. i' \in [Servers -> Nat \ {0}]
    <3>1. i \in [Servers -> Nat \ {0}]
      BY DEF TypeOK
    <3>2. i[s] + 1 \in Nat \ {0}
      BY <3>1
    <3> QED
      BY <3>1, <3>2 DEF distribute_message
  <2>6. peers' = peers /\ rfds' = rfds
    BY DEF distribute_message
  <2>7. \A t \in Servers : pc'[t] = "distribute" => i'[t] \in DOMAIN peers'[t]
    <3> SUFFICES ASSUME NEW t \in Servers, pc'[t] = "distribute"
                 PROVE  i'[t] \in DOMAIN peers[t]
      BY <2>6
    <3>1. CASE t = s
      <4>1. i[s] # Len(peers[s]) /\ i'[s] = i[s] + 1
        BY <3>1 DEF TypeOK, distribute_message
      <4> QED
        BY <1>1, <3>1, <4>1
    <3>2. CASE t # s
      <4>1. pc[t] = "distribute" /\ i'[t] = i[t]
        BY <3>2 DEF TypeOK, distribute_message
      <4> QED
        BY <4>1 DEF TypeOK
    <3> QED
      BY <3>1, <3>2
  <2>8. \A t \in Servers : peers'[t] \in Seq(Servers) /\ IsArray(t, peers[t])'
    BY <2>6 DEF TypeOK, IsArray
  <2>9. rfds' \in [Servers -> SUBSET Servers]
    BY <2>6 DEF TypeOK
  <2> QED
    BY <2>3, <2>4, <2>5, <2>7, <2>8, <2>9 DEF TypeOK
<1>6. \A a \in Servers : \A b \in Servers : pipe[a][b] > 0 => pipe'[a][b] > 0
  <2> SUFFICES ASSUME NEW a \in Servers, NEW b \in Servers, pipe[a][b] > 0
               PROVE  pipe'[a][b] > 0
    OBVIOUS
  <2>1. pipe \in [Servers -> [Servers -> 0 .. Cap]]
    BY DEF TypeOK
  <2>2. pipe'[a][b] = IF a = s /\ b = r THEN pipe[s][r] + 1 ELSE pipe[a][b]
    BY <1>1, <1>2, <2>1
  <2> QED
    BY <1>3, <2>2, CapAssumption
<1>7. PassOK'
  <2>1. rfds' = rfds /\ i' \in [Servers -> Nat \ {0}]
    BY <1>5 DEF TypeOK, distribute_message
  <2>2. \A t \in Servers : \A a \in rfds'[t] : pipe'[a][t] > 0
    BY <1>6, <2>1 DEF TypeOK, PassOK
  <2>3. \A t \in Servers : pc'[t] # "distribute" => i'[t] = 1
    BY DEF TypeOK, PassOK, distribute_message
  <2>4. \A t \in Servers : pc'[t] = "select" => rfds'[t] = {}
    BY DEF TypeOK, PassOK, distribute_message
  <2> QED
    BY <2>2, <2>3, <2>4 DEF PassOK
<1> QED
  BY <1>5, <1>7

\* The end of a pass.
LEMMA ServeOK ==
  ASSUME TypeOK, PassOK, NEW s \in Servers, serve(s)
  PROVE  TypeOK' /\ PassOK'
<1>1. \A a, b \in Servers : pipe'[a][b] =
        IF b = s /\ a \in rfds[s] THEN pipe[a][b] - 1 ELSE pipe[a][b]
  BY DEF TypeOK, serve
<1>2. pipe' \in [Servers -> [Servers -> 0 .. Cap]]
  <2>1. \A a \in Servers : pipe'[a] \in [Servers -> 0 .. Cap]
    BY <1>1, CapAssumption DEF TypeOK, PassOK, serve
  <2> QED
    BY <2>1 DEF serve
<1>3. TypeOK'
  <2>1. i' = i /\ peers' = peers
    BY DEF serve
  <2>2. \A t \in Servers : peers'[t] \in Seq(Servers) /\ IsArray(t, peers[t])'
    BY <2>1 DEF TypeOK, IsArray
  <2>3. i' \in [Servers -> Nat \ {0}]
    BY <2>1 DEF TypeOK
  <2>4. /\ pc' \in [Servers -> {"select", "distribute", "serve"}]
        /\ rfds' \in [Servers -> SUBSET Servers]
    BY DEF TypeOK, serve
  <2>5. \A t \in Servers : pc'[t] = "distribute" => i'[t] \in DOMAIN peers'[t]
    BY DEF TypeOK, serve
  <2> QED
    BY <1>2, <2>2, <2>3, <2>4, <2>5 DEF TypeOK
<1>4. PassOK'
  BY <1>1 DEF TypeOK, PassOK, serve
<1> QED
  BY <1>3, <1>4

\* A session holds no more than Cap, a server writes one frame at a time.
LEMMA LoadBounds ==
  ASSUME TypeOK, PassOK, NEW a \in Servers, NEW b \in Servers
  PROVE  /\ Load(a, b) \in Int
         /\ Load(a, b) <= Cap + 1
         /\ pipe[a][b] = 0 => Load(a, b) <= 1
<1> DEFINE toWrite == IF pc[a] = "distribute" /\ \E k \in i[a] .. Len(peers[a]) : peers[a][k] = b
                        THEN 1 ELSE 0
           toRead == IF a \in rfds[b] THEN 1 ELSE 0
<1>1. pipe[a][b] \in 0 .. Cap
  BY DEF TypeOK
<1>2. toWrite \in 0 .. 1 /\ toRead \in 0 .. 1
  OBVIOUS
<1>3. Load(a, b) = pipe[a][b] + toWrite - toRead
  BY DEF Load
<1> HIDE DEF toWrite, toRead
<1> QED
  BY <1>1, <1>2, <1>3, CapAssumption

\* ... and after a step.
LEMMA LoadBoundsPrimed ==
  ASSUME TypeOK', PassOK', NEW a \in Servers, NEW b \in Servers
  PROVE  Load(a, b)' \in Int /\ Load(a, b)' <= Cap + 1
<1>1. (pipe[a][b])' \in 0 .. Cap
  BY DEF TypeOK
<1>2. Load(a, b)' = (pipe[a][b])'
          + (IF (pc[a] = "distribute" /\ \E k \in i[a] .. Len(peers[a]) : peers[a][k] = b)' THEN 1 ELSE 0)
          - (IF (a \in rfds[b])' THEN 1 ELSE 0)
  BY DEF Load
<1> QED
  BY <1>1, <1>2, CapAssumption

\* select() begins a pass: what it will read is off the load at once, what it
\* will write is on it.
LEMMA SelectLoad ==
  ASSUME TypeOK, PassOK, NEW s \in Servers, NEW publish \in BOOLEAN, select(s, publish)
  PROVE  /\ \A a, b \in Servers \ {s} : Load(a, b)' = Load(a, b)
         /\ \A b \in Servers \ {s} : Load(s, b)' <= Load(s, b) + 1
         /\ \A a \in Servers \ {s} : \/ Load(a, s)' = Load(a, s) - 1
                                     \/ Load(a, s)' <= 1
<1>1. ASSUME NEW a \in Servers \ {s}, NEW b \in Servers \ {s}
      PROVE  Load(a, b)' = Load(a, b)
  BY <1>1 DEF TypeOK, select, Load
<1>2. ASSUME NEW b \in Servers \ {s}
      PROVE  Load(s, b)' <= Load(s, b) + 1
  BY <1>2, CapAssumption DEF TypeOK, select, Load
<1>3. ASSUME NEW a \in Servers \ {s}
      PROVE  Load(a, s)' = Load(a, s) - 1 \/ Load(a, s)' <= 1
  BY <1>3, CapAssumption DEF TypeOK, PassOK, select, Load, Readable
<1> QED
  BY <1>1, <1>2, <1>3

\* Nothing else changes a load: a write was announced by the pass it is part of.
LEMMA DistributeLoad ==
  ASSUME TypeOK, PassOK, NEW s \in Servers, distribute_message(s),
         NEW a \in Servers, NEW b \in Servers
  PROVE  Load(a, b)' = Load(a, b)
<1> DEFINE r == peers[s][i[s]]
           n == Len(peers[s])
<1>1. i[s] \in 1 .. n /\ r \in Servers /\ r # s /\ n \in Nat /\ DOMAIN peers[s] = 1 .. n
  BY Arrays DEF TypeOK, distribute_message
<1>2. pipe' = [pipe EXCEPT ![s][r] = @ + 1] /\ peers' = peers /\ rfds' = rfds
  BY DEF distribute_message
<1>3. \A k \in 1 .. n : peers[s][k] = r => k = i[s]
  BY <1>1, Arrays
<1>4. CASE a # s
  <2>1. pc'[a] = pc[a] /\ i'[a] = i[a]
    BY <1>4 DEF TypeOK, distribute_message
  <2>2. pipe'[a] = pipe[a]
    BY <1>2, <1>4 DEF TypeOK
  <2> QED
    BY <1>2, <2>1, <2>2 DEF Load
<1>5. CASE a = s /\ b = r
  <2>1. \E k \in i[s] .. n : peers[s][k] = r
    BY <1>1
  <2>2. ~ (pc'[s] = "distribute" /\ \E k \in i'[s] .. n : peers[s][k] = r)
    <3>1. pc'[s] = "distribute" => i'[s] = i[s] + 1
      BY DEF TypeOK, distribute_message
    <3> QED
      BY <1>1, <1>3, <3>1
  <2>3. pipe'[s][r] = pipe[s][r] + 1 /\ pipe[s][r] \in Int
    <3>1. pipe \in [Servers -> [Servers -> 0 .. Cap]]
      BY DEF TypeOK
    <3>2. pipe[s][r] \in 0 .. Cap
      BY <1>1, <3>1
    <3> QED
      BY <1>1, <1>2, <3>1, <3>2, CapAssumption
  <2>4. pc[s] = "distribute"
    BY DEF distribute_message
  <2>5. Load(a, b) = pipe[a][b] + 1 - (IF a \in rfds[b] THEN 1 ELSE 0)
    BY <1>5, <2>1, <2>4 DEF Load
  <2>6. Load(a, b)' = pipe'[a][b] + 0 - (IF a \in rfds[b] THEN 1 ELSE 0)
    BY <1>2, <1>5, <2>2 DEF Load
  <2> QED
    BY <1>5, <2>3, <2>5, <2>6
<1>6. CASE a = s /\ b # r
  <2>1. (\E k \in i[s] .. n : peers[s][k] = b) <=>
          (pc'[s] = "distribute" /\ \E k \in i'[s] .. n : peers[s][k] = b)
    <3>1. IF i[s] = n THEN pc'[s] # "distribute"
                      ELSE pc'[s] = "distribute" /\ i'[s] = i[s] + 1
      BY DEF TypeOK, distribute_message
    <3> QED
      BY <1>1, <1>6, <3>1
  <2>2. pipe'[s][b] = pipe[s][b]
    BY <1>1, <1>2, <1>6 DEF TypeOK
  <2>3. pc[s] = "distribute"
    BY DEF distribute_message
  <2> QED
    BY <1>2, <1>6, <2>1, <2>2, <2>3 DEF Load
<1> QED
  BY <1>4, <1>5, <1>6

\* ... and so was a read.
LEMMA ServeLoad ==
  ASSUME TypeOK, PassOK, NEW s \in Servers, serve(s),
         NEW a \in Servers, NEW b \in Servers
  PROVE  Load(a, b)' = Load(a, b)
BY CapAssumption DEF TypeOK, PassOK, serve, Load

\* Room in the circles that select() puts a frame into.
LEMMA SelectRoom ==
  ASSUME FlowInv, NEW s \in Servers, NEW publish \in BOOLEAN, select(s, publish)
  PROVE  RoomInPairs' /\ RoomInTriples'
<1> USE DEF FlowInv
<1>1. \A a, b \in Servers : /\ Load(a, b) \in Int /\ Load(a, b)' \in Int
                            /\ Load(a, b) <= Cap + 1 /\ Load(a, b)' <= Cap + 1
  BY SelectOK, LoadBounds, LoadBoundsPrimed
<1>2. /\ \A a, b \in Servers \ {s} : Load(a, b)' = Load(a, b)
      /\ \A b \in Servers \ {s} : Load(s, b)' <= Load(s, b) + 1
      /\ \A a \in Servers \ {s} : Load(a, s)' = Load(a, s) - 1 \/ Load(a, s)' <= 1
  BY SelectLoad
<1> HIDE DEF FlowInv
<1>3. ASSUME NEW b \in Servers \ {s}
      PROVE  Load(s, b)' + Load(b, s)' <= Cap + 2
  <2>1. Load(s, b) + Load(b, s) <= Cap + 2
    BY <1>3 DEF FlowInv, RoomInPairs
  <2> QED
    BY <1>1, <1>2, <1>3, <2>1, CapAssumption
<1>4. ASSUME NEW a \in Servers \ {s}, NEW b \in Servers \ {s}, a # b
      PROVE  Load(s, a)' + Load(a, b)' + Load(b, s)' <= 2 * Cap + 3
  <2>1. Load(s, a) + Load(a, b) + Load(b, s) <= 2 * Cap + 3
    BY <1>4 DEF FlowInv, RoomInTriples
  <2> QED
    BY <1>1, <1>2, <1>4, <2>1, CapAssumption
<1>5. RoomInPairs'
  <2> SUFFICES ASSUME NEW a \in Servers, NEW b \in Servers, a # b
               PROVE  Load(a, b)' + Load(b, a)' <= Cap + 2
    BY DEF RoomInPairs
  <2>1. CASE s \notin {a, b}
    <3>1. Load(a, b) + Load(b, a) <= Cap + 2
      BY DEF FlowInv, RoomInPairs
    <3> QED
      BY <1>2, <2>1, <3>1
  <2>2. CASE s \in {a, b}
    BY <1>1, <1>3, <2>2
  <2> QED
    BY <2>1, <2>2
<1>6. RoomInTriples'
  <2> SUFFICES ASSUME NEW a \in Servers, NEW b \in Servers, NEW c \in Servers,
                      a # b, b # c, c # a
               PROVE  Load(a, b)' + Load(b, c)' + Load(c, a)' <= 2 * Cap + 3
    BY DEF RoomInTriples
  <2>1. CASE s \notin {a, b, c}
    <3>1. Load(a, b) + Load(b, c) + Load(c, a) <= 2 * Cap + 3
      BY DEF FlowInv, RoomInTriples
    <3> QED
      BY <1>2, <2>1, <3>1
  <2>2. CASE s = a
    BY <1>4, <2>2
  <2>3. CASE s = b
    <3>1. Load(b, c)' + Load(c, a)' + Load(a, b)' <= 2 * Cap + 3
      BY <1>4, <2>3
    <3> QED
      BY <1>1, <3>1
  <2>4. CASE s = c
    <3>1. Load(c, a)' + Load(a, b)' + Load(b, c)' <= 2 * Cap + 3
      BY <1>4, <2>4
    <3> QED
      BY <1>1, <3>1
  <2> QED
    BY <2>1, <2>2, <2>3, <2>4
<1> QED
  BY <1>5, <1>6

\* The inductive invariant holds at first: nothing is on the way.
LEMMA FlowInvInit == Init => FlowInv
<1> SUFFICES ASSUME Init PROVE FlowInv
  OBVIOUS
<1>1. \A a, b \in Servers : Load(a, b) = 0
  BY DEF Init, Load
<1> QED
  BY <1>1, InitOK, CapAssumption DEF FlowInv, RoomInPairs, RoomInTriples

\* ... and every step keeps it.
LEMMA FlowInvNext == FlowInv /\ [Next]_vars => FlowInv'
<1> SUFFICES ASSUME FlowInv, [Next]_vars PROVE FlowInv'
  OBVIOUS
<1>1. ASSUME NEW s \in Servers, NEW publish \in BOOLEAN, select(s, publish)
      PROVE  FlowInv'
  BY <1>1, SelectOK, SelectRoom DEF FlowInv
<1>2. ASSUME NEW s \in Servers, distribute_message(s)
      PROVE  FlowInv'
  <2>1. \A a, b \in Servers : Load(a, b)' = Load(a, b)
    BY <1>2, DistributeLoad DEF FlowInv
  <2>2. RoomInPairs' /\ RoomInTriples'
    BY <2>1 DEF FlowInv, RoomInPairs, RoomInTriples
  <2> QED
    BY <1>2, <2>2, DistributeOK DEF FlowInv
<1>3. ASSUME NEW s \in Servers, serve(s)
      PROVE  FlowInv'
  <2>1. \A a, b \in Servers : Load(a, b)' = Load(a, b)
    BY <1>3, ServeLoad DEF FlowInv
  <2>2. RoomInPairs' /\ RoomInTriples'
    BY <2>1 DEF FlowInv, RoomInPairs, RoomInTriples
  <2> QED
    BY <1>3, <2>2, ServeOK DEF FlowInv
<1>4. CASE UNCHANGED vars
  BY <1>4 DEF vars, FlowInv, TypeOK, PassOK, IsArray, RoomInPairs, RoomInTriples, Load
<1> QED
  BY <1>1, <1>2, <1>3, <1>4 DEF Next

\* What the invariant says of a server that waits.
LEMMA WaitingLoad ==
  ASSUME FlowInv, NEW a \in Servers, NEW b \in Servers, WaitsFor(a, b)
  PROVE  a # b /\ Load(a, b) >= Cap
<1>1. pipe[a][b] \in 0 .. Cap /\ ~ (pipe[a][b] < Cap)
  BY DEF FlowInv, TypeOK, WaitsFor, CanWrite
<1>2. pc[a] = "distribute" /\ \E k \in i[a] .. Len(peers[a]) : peers[a][k] = b
  <2>1. i[a] \in 1 .. Len(peers[a]) /\ Len(peers[a]) \in Nat
    BY Arrays DEF FlowInv, TypeOK, WaitsFor
  <2> QED
    BY <2>1 DEF WaitsFor
<1>3. Load(a, b) = pipe[a][b] + 1 - (IF a \in rfds[b] THEN 1 ELSE 0)
  BY <1>2 DEF Load
<1>4. a # b
  <2>1. i[a] \in 1 .. Len(peers[a])
    BY Arrays DEF FlowInv, TypeOK, WaitsFor
  <2>2. peers[a][i[a]] # a
    BY <2>1, Arrays DEF FlowInv
  <2> QED
    BY <2>2 DEF WaitsFor
<1> QED
  BY <1>1, <1>3, <1>4, CapAssumption

\* Two servers that waited for each other would have 2 * Cap between them.
LEMMA NoPair == FlowInv => NoPairWaits
<1> SUFFICES ASSUME FlowInv, Cap > 2, NEW a \in Servers, NEW b \in Servers,
                    WaitsFor(a, b), WaitsFor(b, a)
             PROVE  FALSE
  BY DEF NoPairWaits
<1>1. a # b
  BY WaitingLoad
<1>2. Load(a, b) >= Cap /\ Load(b, a) >= Cap
  BY WaitingLoad
<1>3. Load(a, b) + Load(b, a) <= Cap + 2
  BY <1>1 DEF FlowInv, RoomInPairs
<1>4. Load(a, b) \in Int /\ Load(b, a) \in Int
  BY LoadBounds DEF FlowInv
<1> QED
  BY <1>2, <1>3, <1>4, CapAssumption

\* ... and three in a circle 3 * Cap.
LEMMA NoTriple == FlowInv => NoTripleWaits
<1> SUFFICES ASSUME FlowInv, Cap > 3,
                    NEW a \in Servers, NEW b \in Servers, NEW c \in Servers,
                    WaitsFor(a, b), WaitsFor(b, c), WaitsFor(c, a)
             PROVE  FALSE
  BY DEF NoTripleWaits
<1>1. a # b /\ b # c /\ c # a
  BY WaitingLoad
<1>2. Load(a, b) >= Cap /\ Load(b, c) >= Cap /\ Load(c, a) >= Cap
  BY WaitingLoad
<1>3. Load(a, b) + Load(b, c) + Load(c, a) <= 2 * Cap + 3
  BY <1>1 DEF FlowInv, RoomInTriples
<1>4. Load(a, b) \in Int /\ Load(b, c) \in Int /\ Load(c, a) \in Int
  BY LoadBounds DEF FlowInv
<1> QED
  BY <1>2, <1>3, <1>4, CapAssumption

LEMMA FlowInvAlways == Spec => []FlowInv
<1> QED
  BY FlowInvInit, FlowInvNext, PTL DEF Spec

\* Types, and no session beyond its capacity.
THEOREM FlowTypeOK == Spec => []TypeOK
<1>1. FlowInv => TypeOK
  BY DEF FlowInv
<1> QED
  BY <1>1, FlowInvAlways, PTL

\* Two servers never block on writing to each other, whatever the number of
\* servers and of frames that a session holds, if those are more than two.
THEOREM FlowNoPairWaits == Spec => []NoPairWaits
<1> QED
  BY FlowInvAlways, NoPair, PTL

\* Nor do three in a circle, if a session holds more than three.
THEOREM FlowNoTripleWaits == Spec => []NoTripleWaits
<1> QED
  BY FlowInvAlways, NoTriple, PTL
=============================================================================
