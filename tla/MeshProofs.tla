----------------------------- MODULE MeshProofs -----------------------------
(***************************************************************************)
(* Servers that have sessions with each other, and of which none is        *)
(* launched any more, implement FifoBroadcast: any number of servers with  *)
(* any sessions, at most one between two, whose boards can hold every      *)
(* message.  What is proved is the safety part.                            *)
(***************************************************************************)
EXTENDS ClusterProofs, ServerMesh

\* A board whose messages are in its first slots, and those in their order.
Filled(b) == \A k \in Slots : b[k].msg # <<>> <=> k < num_messages(b)

\* How many elements of a sequence are in a set.
Places(q, S) == {k \in DOMAIN q : q[k] \in S}

Count(q, S) == Cardinality(Places(q, S))

Elems(q) == {q[k] : k \in DOMAIN q}

-----------------------------------------------------------------------------
(* Boards and sequences *)

\* A message added to a filled board with room goes behind the others.
LEMMA AddAtEnd ==
  ASSUME NEW b \in [Slots -> Entry], Filled(b), num_messages(b) < M,
         NEW c \in Nat, NEW msg \in Msgs, msg # <<>>
  PROVE  LET d == add_message(b, c, msg)
             n == num_messages(b)
         IN  /\ num_messages(d) = n + 1
             /\ Filled(d)
             /\ n \in Slots
             /\ d[n] = [lc |-> c, msg |-> msg]
             /\ \A k \in Slots : k # n => d[k] = b[k]
<1> DEFINE d == add_message(b, c, msg)
           n == num_messages(b)
<1>1. n \in Nat /\ n \in Slots /\ n < M
  BY NumMessagesBound, MAssumption DEF Slots
<1>2. /\ \A k \in Slots : k \in Used(b) <=> k < n
      /\ n \notin Used(b)
  BY <1>1 DEF Filled, Used
<1>3. first_free_message_index(b) = n
  <2>1. Used(b) # Slots
    BY <1>1, <1>2
  <2>2. n \in Slots \ Used(b) /\ \A j \in Slots \ Used(b) : n <= j
    BY <1>1, <1>2 DEF Slots
  <2>3. FirstFree(b) \in Slots \ Used(b) /\ \A j \in Slots \ Used(b) : FirstFree(b) <= j
    BY <2>2 DEF FirstFree
  <2>4. FirstFree(b) <= n /\ n <= FirstFree(b)
    BY <2>2, <2>3
  <2>5. FirstFree(b) = n
    BY <1>1, <2>3, <2>4 DEF Slots
  <2> QED BY <2>1, <2>5 DEF first_free_message_index
<1>4. /\ d \in [Slots -> Entry]
      /\ \A k \in Slots : d[k] = IF k = n THEN [lc |-> c, msg |-> msg] ELSE b[k]
  BY <1>3, AddMessage
<1> HIDE DEF d
<1>5. d[n] = [lc |-> c, msg |-> msg] /\ \A k \in Slots : k # n => d[k] = b[k]
  BY <1>1, <1>4
<1>6. Used(d) = Used(b) \cup {n}
  <2> HIDE DEF n
  <2>1. d[n].msg = msg
    BY <1>5
  <2> QED BY <1>1, <1>5, <2>1 DEF Used
<1>7. num_messages(d) = n + 1
  <2>1. IsFiniteSet(Used(b))
    <3>1. IsFiniteSet(Slots)
      BY FS_Interval, MAssumption DEF Slots
    <3> QED BY <3>1, FS_Subset DEF Used
  <2> QED BY <1>2, <1>6, <2>1, FS_AddElement DEF num_messages
<1>8. Filled(d)
  <2> SUFFICES ASSUME NEW k \in Slots PROVE d[k].msg # <<>> <=> k < n + 1
    BY <1>7 DEF Filled
  <2>1. CASE k = n
    BY <1>1, <1>5, <2>1
  <2>2. CASE k # n
    <3>1. d[k].msg # <<>> <=> k < n
      BY <1>5, <2>2 DEF Filled
    <3>2. k \in Nat
      BY MAssumption DEF Slots
    <3> HIDE DEF n
    <3> QED BY <1>1, <2>2, <3>1, <3>2
  <2> QED BY <2>1, <2>2
<1> QED BY <1>1, <1>5, <1>7, <1>8 DEF d

\* What is in the log of a board.
LEMMA LogType ==
  ASSUME NEW b \in [Slots -> Entry]
  PROVE  /\ Log(b) \in Seq(Entry)
         /\ Len(Log(b)) = num_messages(b)
         /\ num_messages(b) \in 0 .. M
         /\ \A k \in 1 .. num_messages(b) : Log(b)[k] = b[k - 1]
<1>1. num_messages(b) \in 0 .. M
  BY NumMessagesBound
<1>2. \A k \in 1 .. num_messages(b) : k - 1 \in Slots
  BY <1>1, MAssumption DEF Slots
<1> QED BY <1>1, <1>2, MAssumption DEF Log

\* The log grows at its end.
LEMMA LogOfAdded ==
  ASSUME NEW b \in [Slots -> Entry], Filled(b), num_messages(b) < M,
         NEW c \in Nat, NEW msg \in Msgs, msg # <<>>
  PROVE  Log(add_message(b, c, msg)) = Append(Log(b), [lc |-> c, msg |-> msg])
<1> DEFINE d == add_message(b, c, msg)
           n == num_messages(b)
           e == [lc |-> c, msg |-> msg]
<1>1. /\ num_messages(d) = n + 1 /\ n \in Slots /\ d[n] = e
      /\ \A k \in Slots : k # n => d[k] = b[k]
  BY AddAtEnd
<1>2. n \in Nat /\ n < M
  BY NumMessagesBound, MAssumption
<1>3. Log(b) \in Seq(Entry) /\ Len(Log(b)) = n /\ \A k \in 1 .. n : Log(b)[k] = b[k - 1]
  BY LogType
<1>4. e \in Entry
  BY DEF Entry
<1> HIDE DEF d, n, e
<1>5. Log(d) = [k \in 1 .. n + 1 |-> d[k - 1]]
  BY <1>1 DEF Log
<1>6. /\ Append(Log(b), e) \in Seq(Entry) /\ Len(Append(Log(b), e)) = n + 1
      /\ Append(Log(b), e)[n + 1] = e
      /\ \A k \in 1 .. n : Append(Log(b), e)[k] = Log(b)[k]
  BY <1>2, <1>3, <1>4
<1>7. ASSUME NEW k \in 1 .. n + 1
      PROVE  d[k - 1] = Append(Log(b), e)[k]
  <2>1. CASE k = n + 1
    BY <1>1, <1>2, <1>6, <2>1
  <2>2. CASE k # n + 1
    <3>1. k \in 1 .. n /\ k - 1 \in Slots /\ k - 1 # n
      BY <1>2, <2>2, MAssumption DEF Slots
    <3> QED BY <1>1, <1>3, <1>6, <3>1
  <2> QED BY <2>1, <2>2
<1>8. Append(Log(b), e) = [k \in 1 .. n + 1 |-> Append(Log(b), e)[k]]
  <2> DEFINE a == Append(Log(b), e)
  <2>1. a \in Seq(Entry) /\ Len(a) = n + 1
    BY <1>6
  <2> HIDE DEF a
  <2>2. a = [k \in 1 .. n + 1 |-> a[k]]
    BY <2>1
  <2> QED BY <2>2 DEF a
<1> QED BY <1>5, <1>7, <1>8 DEF d, e

LEMMA CountType ==
  ASSUME NEW T, NEW q \in Seq(T), NEW S
  PROVE  IsFiniteSet(Places(q, S)) /\ Count(q, S) \in Nat
<1>1. IsFiniteSet(DOMAIN q)
  BY FS_Interval
<1>2. IsFiniteSet(Places(q, S))
  BY <1>1, FS_Subset DEF Places
<1> QED BY <1>2, FS_CardinalityType DEF Count

\* Counting a sequence that grows by an element of the set, or by another.
LEMMA CountAppend ==
  ASSUME NEW T, NEW q \in Seq(T), NEW x \in T, NEW S
  PROVE  Count(Append(q, x), S) = IF x \in S THEN Count(q, S) + 1 ELSE Count(q, S)
<1> DEFINE a == Append(q, x)
           n == Len(q)
<1>1. /\ n \in Nat /\ DOMAIN q = 1 .. n
      /\ DOMAIN a = 1 .. n + 1 /\ a[n + 1] = x /\ \A k \in 1 .. n : a[k] = q[k]
  OBVIOUS
<1> HIDE DEF a, n
<1>2. n + 1 \notin Places(q, S)
  BY <1>1 DEF Places
<1>3. CASE x \in S
  <2>1. Places(a, S) = Places(q, S) \cup {n + 1}
    BY <1>1, <1>3 DEF Places
  <2> QED BY <1>2, <1>3, <2>1, CountType, FS_AddElement DEF Count, a
<1>4. CASE x \notin S
  <2>1. Places(a, S) = Places(q, S)
    BY <1>1, <1>4 DEF Places
  <2> QED BY <1>4, <2>1 DEF Count, a
<1> QED BY <1>3, <1>4

\* A set that grows by what the sequence does not have.
LEMMA CountSame ==
  ASSUME NEW q, NEW S, NEW U, \A k \in DOMAIN q : q[k] \in S <=> q[k] \in U
  PROVE  Count(q, S) = Count(q, U)
<1>1. Places(q, S) = Places(q, U)
  BY DEF Places
<1> QED BY <1>1 DEF Count

\* Different elements of a finite set, none of which is x, leave room for x.
LEMMA RoomForOne ==
  ASSUME NEW S, IsFiniteSet(S), NEW n \in Nat, NEW f \in [1 .. n -> S],
         \A j, k \in 1 .. n : f[j] = f[k] => j = k,
         NEW x \in S, \A k \in 1 .. n : f[k] # x
  PROVE  n < Cardinality(S)
<1>1. /\ IsFiniteSet(S \ {x}) /\ Cardinality(S \ {x}) = Cardinality(S) - 1
      /\ Cardinality(S) \in Nat
  BY FS_RemoveElement, FS_CardinalityType
<1>2. f \in Injection(1 .. n, S \ {x})
  BY DEF Injection, IsInjective
<1>3. Cardinality(1 .. n) <= Cardinality(S \ {x})
  BY <1>1, <1>2, FS_Injection
<1>4. Cardinality(1 .. n) = n
  BY FS_Interval
<1> QED BY <1>1, <1>3, <1>4
-----------------------------------------------------------------------------
(* The state of a mesh *)

\* What a server has, what it has of another's messages, and whether it is
\* about to store one of them.
Sent(r) == Elems(published[r])

Got(s, r) == Count(Log(board[s]), Sent(r))

Parsing(s) == pc[s] = "add" /\ resp[s].body # <<>>

Hand(s, r) == IF Parsing(s) /\ resp[s].body[1] \in Sent(r) THEN 1 ELSE 0

\* Whether r has still to send its latest message on its end e of a session.
Pending(r, e) ==
  IF pc[r] = "distribute" /\ \E k \in DOMAIN sockets[r] : sockets[r][k] = e /\ i[r] <= k
  THEN 1 ELSE 0

\* No server is launched any more, those that run are past their start-up, and
\* the others have no sessions.
Running ==
  /\ starts = MaxStarts
  /\ \A s \in Servers : /\ pc[s] \in {"off", "add", "loop", "distribute"}
                        /\ backlog[s] = <<>>
                        /\ pc[s] = "distribute" => resp[s].type = "SMESSAGES"
                        /\ pc[s] = "off" => sockets[s] = <<>>

\* Messages are told apart by their texts.
OnceSent ==
  \A r, q \in Servers : \A j \in DOMAIN published[r], k \in DOMAIN published[q] :
    /\ \E t \in Texts : published[r][j].msg = <<t>>
    /\ published[r][j].msg = published[q][k].msg => r = q /\ j = k

\* A board holds published messages, each once.
Logs ==
  \A s \in Servers :
    /\ Filled(board[s])
    /\ \A k \in DOMAIN Log(board[s]) : \E r \in Servers : Log(board[s])[k] \in Sent(r)
    /\ \A j, k \in DOMAIN Log(board[s]) : Log(board[s])[j] = Log(board[s])[k] => j = k

\* What a server has of another's messages are the first of them.
GotFirst ==
  \A s, r \in Servers : s # r =>
    \A k \in Places(Log(board[s]), Sent(r)) :
      \E j \in 1 .. Got(s, r) : j \in DOMAIN published[r] /\ Log(board[s])[k] = published[r][j]

\* The message that a server is about to store is another's next.
HandIsNext ==
  \A s \in Servers : Parsing(s) =>
    \E r \in Servers \ {s} :
      /\ Got(s, r) + 1 \in DOMAIN published[r]
      /\ resp[s].body = <<published[r][Got(s, r) + 1]>>

\* What is in s's end e of a session with r are the messages that follow, one in
\* a frame, up to r's latest if r runs and has sent it.
Channel(s, e, r) ==
  LET n == Got(s, r) + Hand(s, r)
  IN  /\ n + Len(inbox[e]) <= Len(published[r])
      /\ \A j \in DOMAIN inbox[e] :
           inbox[e][j] = [type |-> "SMESSAGES", body |-> <<published[r][n + j]>>]
      /\ pc[r] # "off" => n + Len(inbox[e]) + Pending(r, Peer(e)) = Len(published[r])

Channels(own) == \A s \in Servers : \A e \in Held(s) : Channel(s, e, own[Peer(e)])

Contents == OnceSent /\ Logs /\ GotFirst

Mesh(own) == Running /\ Sessions(own) /\ Contents /\ HandIsNext /\ Channels(own)

MeshInv(own) == SessionInv /\ Mesh(own)

-----------------------------------------------------------------------------
(* Facts of a state *)

LEMMA MeshTypes ==
  ASSUME SessionInv
  PROVE  /\ pc \in [Servers -> Labels] /\ lc \in [Servers -> Nat]
         /\ board \in [Servers -> [Slots -> Entry]]
         /\ sockets \in [Servers -> Seq(Endpoints \cup {NULL})]
         /\ i \in [Servers -> Nat \ {0}]
         /\ resp \in [Servers -> Frame]
         /\ message \in [Servers -> Msgs]
         /\ inbox \in [Endpoints -> Seq(Frame)] /\ open \subseteq Endpoints
         /\ published \in [Servers -> Seq(Entry)]
         /\ SessionsOwned
BY DEF SessionInv, ClusterInv, TypeOK

LEMMA PeerOfPeer ==
  ASSUME NEW e \in Endpoints
  PROVE  Peer(e) \in Endpoints /\ Peer(Peer(e)) = e /\ Peer(e) # e
BY DEF Peer, Endpoints

LEMMA HeldSlot ==
  ASSUME SessionInv, NEW s \in Servers, NEW e
  PROVE  /\ e \in Held(s) <=> e # NULL /\ \E k \in DOMAIN sockets[s] : sockets[s][k] = e
         /\ e \in Held(s) => e \in Endpoints /\ e \in open
BY MeshTypes DEF Held, SessionsOwned

\* A server that has an open end has it among its sessions.
LEMMA OpenIsHeld ==
  ASSUME SessionInv, Running, NEW own, Sessions(own), NEW e \in open
  PROVE  own[e] \in Servers /\ e \in Held(own[e])
<1>1. PICK s \in Servers : e \in Held(s) \cup Waiting(s)
  BY MeshTypes DEF SessionsOwned
<1>2. Waiting(s) = {}
  BY DEF Running, Waiting
<1>3. e \in Held(s)
  BY <1>1, <1>2
<1> QED BY <1>3 DEF Sessions

\* The other end of a session with a server that runs is one of its sockets.
LEMMA PartnerHolds ==
  ASSUME SessionInv, Running, NEW own, Sessions(own), NEW s \in Servers, NEW e \in Held(s),
         pc[own[Peer(e)]] # "off"
  PROVE  /\ own[Peer(e)] \in Servers
         /\ \E k \in DOMAIN sockets[own[Peer(e)]] : sockets[own[Peer(e)]][k] = Peer(e)
<1>1. Peer(e) \in open
  BY DEF Sessions
<1>2. own[Peer(e)] \in Servers /\ Peer(e) \in Held(own[Peer(e)])
  BY <1>1, OpenIsHeld
<1> QED BY <1>2, HeldSlot

LEMMA GotType ==
  ASSUME SessionInv, NEW s \in Servers, NEW r
  PROVE  Got(s, r) \in Nat
<1>1. Log(board[s]) \in Seq(Entry)
  BY MeshTypes, LogType
<1> QED BY <1>1, CountType DEF Got

LEMMA SentType ==
  ASSUME SessionInv, NEW r \in Servers
  PROVE  Sent(r) \subseteq Entry /\ published[r] \in Seq(Entry)
BY MeshTypes DEF Sent, Elems

\* The same message is not of two servers.
LEMMA SentOnce ==
  ASSUME OnceSent, NEW r \in Servers, NEW q \in Servers, NEW x \in Sent(r), x \in Sent(q)
  PROVE  r = q
BY DEF OnceSent, Sent, Elems

LEMMA SentAt ==
  ASSUME OnceSent, NEW r \in Servers,
         NEW j \in DOMAIN published[r], NEW k \in DOMAIN published[r],
         published[r][j] = published[r][k]
  PROVE  j = k
BY DEF OnceSent

\* The message in a server's hands: it is another server's, not stored here, and
\* fits.
LEMMA InHand ==
  ASSUME SessionInv, Contents, HandIsNext, NEW s \in Servers, Parsing(s)
  PROVE  \E r \in Servers \ {s} :
           /\ Got(s, r) + 1 \in DOMAIN published[r]
           /\ resp[s].body = <<published[r][Got(s, r) + 1]>>
           /\ resp[s].body[1] \in Sent(r)
           /\ \A q \in Servers : resp[s].body[1] \in Sent(q) => q = r
           /\ \A k \in DOMAIN Log(board[s]) : Log(board[s])[k] # resp[s].body[1]
<1>1. PICK r \in Servers \ {s} :
        /\ Got(s, r) + 1 \in DOMAIN published[r]
        /\ resp[s].body = <<published[r][Got(s, r) + 1]>>
  BY DEF HandIsNext
<1> DEFINE m == resp[s].body[1]
           n == Got(s, r)
<1>2. m = published[r][n + 1]
  BY <1>1
<1>3. m \in Sent(r)
  BY <1>1, <1>2 DEF Sent, Elems
<1>4. \A q \in Servers : m \in Sent(q) => q = r
  BY <1>3, SentOnce DEF Contents
<1>5. n \in Nat
  BY GotType
<1>6. ASSUME NEW k \in DOMAIN Log(board[s]), Log(board[s])[k] = m PROVE FALSE
  <2>1. k \in Places(Log(board[s]), Sent(r))
    BY <1>3, <1>6 DEF Places
  <2>2. PICK j \in 1 .. n : j \in DOMAIN published[r] /\ m = published[r][j]
    BY <1>6, <2>1 DEF Contents, GotFirst
  <2>3. j = n + 1
    <3> HIDE DEF m, n
    <3> QED BY <1>1, <1>2, <2>2, SentAt DEF Contents, n
  <2> QED BY <1>5, <2>2, <2>3
<1> QED BY <1>1, <1>3, <1>4, <1>6

\* There is room for a message whose text the board does not have.
LEMMA RoomOnBoard ==
  ASSUME BoardsSuffice, SessionInv, Contents, NEW s \in Servers, NEW t \in Texts,
         \A k \in DOMAIN Log(board[s]) : Log(board[s])[k].msg # <<t>>
  PROVE  num_messages(board[s]) < M
<1> DEFINE log == Log(board[s])
           n == num_messages(board[s])
           f == [k \in 1 .. n |-> log[k].msg[1]]
<1>1. n \in Nat /\ log \in Seq(Entry) /\ DOMAIN log = 1 .. n
  BY MeshTypes, LogType, MAssumption
<1>2. \A k \in 1 .. n : \E u \in Texts : log[k].msg = <<u>>
  <2> SUFFICES ASSUME NEW k \in 1 .. n PROVE \E u \in Texts : log[k].msg = <<u>>
    OBVIOUS
  <2>1. PICK r \in Servers : log[k] \in Sent(r)
    BY <1>1 DEF Contents, Logs
  <2> QED BY <2>1 DEF Sent, Elems, Contents, OnceSent
<1>3. \A j, k \in 1 .. n : log[j].msg = log[k].msg => j = k
  <2> SUFFICES ASSUME NEW j \in 1 .. n, NEW k \in 1 .. n, log[j].msg = log[k].msg
               PROVE  j = k
    OBVIOUS
  <2>1. PICK r \in Servers : log[j] \in Sent(r)
    BY <1>1 DEF Contents, Logs
  <2>2. PICK q \in Servers : log[k] \in Sent(q)
    BY <1>1 DEF Contents, Logs
  <2>3. log[j] = log[k]
    BY <2>1, <2>2 DEF Sent, Elems, Contents, OnceSent
  <2> QED BY <1>1, <2>3 DEF Contents, Logs
<1> HIDE DEF log, n
<1>4. f \in [1 .. n -> Texts] /\ \A k \in 1 .. n : log[k].msg = <<f[k]>>
  BY <1>2
<1>5. \A j, k \in 1 .. n : f[j] = f[k] => j = k
  <2> HIDE DEF f
  <2> QED BY <1>3, <1>4
<1>6. \A k \in 1 .. n : f[k] # t
  <2>1. \A k \in 1 .. n : log[k].msg # <<t>>
    BY <1>1 DEF log
  <2> HIDE DEF f
  <2> QED BY <1>4, <2>1
<1>7. n < Cardinality(Texts)
  <2> HIDE DEF f
  <2> QED BY <1>1, <1>4, <1>5, <1>6, RoomForOne DEF BoardsSuffice
<1>8. Cardinality(Texts) \in Nat
  BY FS_CardinalityType DEF BoardsSuffice
<1> QED BY <1>1, <1>7, <1>8, MAssumption DEF BoardsSuffice, n
-----------------------------------------------------------------------------
(* What a step leaves alone *)

LEMMA ContentsKept ==
  ASSUME Contents, UNCHANGED <<board, published>>
  PROVE  /\ Contents'
         /\ \A s, r \in Servers : Got(s, r)' = Got(s, r)
         /\ \A r \in Servers : Sent(r)' = Sent(r)
<1>1. \A s, r \in Servers : Got(s, r)' = Got(s, r)
  BY DEF Got, Sent
<1>2. \A r \in Servers : Sent(r)' = Sent(r)
  BY DEF Sent
<1>3. OnceSent' /\ Logs'
  BY <1>2 DEF Contents, OnceSent, Logs
<1>4. GotFirst'
  BY <1>1, <1>2 DEF Contents, GotFirst
<1> QED BY <1>1, <1>2, <1>3, <1>4 DEF Contents

LEMMA SessionsKept ==
  ASSUME NEW own, Sessions(own), UNCHANGED <<sockets, open>>,
         \A r : pc'[r] # "off" => pc[r] # "off"
  PROVE  Sessions(own)'
<1>1. \A s \in Servers : Held(s)' = Held(s)
  BY DEF Held
<1> QED BY <1>1 DEF Sessions

LEMMA HandsKept ==
  ASSUME HandIsNext, UNCHANGED <<board, published>>,
         \A s \in Servers : Parsing(s)' => Parsing(s) /\ resp'[s].body = resp[s].body
  PROVE  HandIsNext'
<1>1. \A s, r \in Servers : Got(s, r)' = Got(s, r)
  BY DEF Got, Sent
<1> QED BY <1>1 DEF HandIsNext

LEMMA ChannelKept ==
  ASSUME NEW s, NEW e, NEW r, Channel(s, e, r),
         Got(s, r)' + Hand(s, r)' = Got(s, r) + Hand(s, r),
         published'[r] = published[r], inbox'[e] = inbox[e],
         pc'[r] # "off" => pc[r] # "off" /\ Pending(r, Peer(e))' = Pending(r, Peer(e))
  PROVE  Channel(s, e, r)'
BY DEF Channel

LEMMA HandType ==
  ASSUME NEW s, NEW r
  PROVE  Hand(s, r) \in {0, 1} /\ Pending(s, r) \in {0, 1}
BY DEF Hand, Pending

-----------------------------------------------------------------------------
(* The steps *)

LEMMA MeshStutter ==
  ASSUME NEW own, MeshInv(own),
         UNCHANGED <<starts, pc, backlog, resp, sockets, i, inbox, open, board, published>>
  PROVE  Mesh(own)'
<1> USE DEF MeshInv, Mesh
<1>1. Running'
  BY DEF Running
<1>2. Sessions(own)'
  BY SessionsKept
<1>3. Contents' /\ HandIsNext'
  BY ContentsKept, HandsKept DEF Parsing
<1>4. Channels(own)'
  <2> SUFFICES ASSUME NEW s \in Servers, NEW e \in Held(s)'
               PROVE  Channel(s, e, own[Peer(e)])'
    BY DEF Channels
  <2> DEFINE r == own[Peer(e)]
  <2>1. e \in Held(s)
    BY DEF Held
  <2>2. Channel(s, e, r)
    BY <2>1 DEF Channels
  <2> HIDE DEF r
  <2>3. Got(s, r)' = Got(s, r) /\ Hand(s, r)' = Hand(s, r)
    BY DEF Got, Hand, Parsing, Sent
  <2>4. Pending(r, Peer(e))' = Pending(r, Peer(e))
    BY DEF Pending
  <2>5. Channel(s, e, r)'
    BY <2>2, <2>3, <2>4, ChannelKept
  <2> QED BY <2>5 DEF r
<1> QED BY <1>1, <1>2, <1>3, <1>4

\* The frame goes to the end of the session, and is no longer to be sent there.
LEMMA MeshDistribute ==
  ASSUME NEW own \in [Endpoints -> Servers], MeshInv(own),
         NEW r \in Servers, distribute_message(r)
  PROVE  Mesh(own)'
<1> USE DEF MeshInv, Mesh
<1> DEFINE e == sockets[r][i[r]]
<1>0. /\ pc[r] = "distribute" /\ i[r] \in DOMAIN sockets[r]
      /\ IF e = NULL THEN inbox' = inbox ELSE Write(e, resp[r])
      /\ i' = [i EXCEPT ![r] = i[r] + 1]
      /\ UNCHANGED <<starts, pc, backlog, resp, sockets, open, board, published>>
  BY MeshTypes DEF distribute_message, memory, buffers, budget
<1>1. Running'
  BY <1>0 DEF Running
<1>2. Sessions(own)'
  BY <1>0, SessionsKept
<1>3. Contents' /\ HandIsNext'
  BY <1>0, ContentsKept, HandsKept DEF Parsing
<1>4. Channels(own)'
  <2> SUFFICES ASSUME NEW s \in Servers, NEW d \in Held(s)'
               PROVE  Channel(s, d, own[Peer(d)])'
    BY DEF Channels
  <2> DEFINE q == own[Peer(d)]
  <2>1. d \in Held(s)
    BY <1>0 DEF Held
  <2>2. /\ d \in Endpoints /\ d \in open /\ Peer(d) \in Endpoints /\ Peer(Peer(d)) = d
        /\ Peer(d) # NULL
    BY <2>1, HeldSlot, PeerOfPeer, NULLAssumption
  <2>3. Channel(s, d, q) /\ q \in Servers
    BY <2>1, <2>2 DEF Channels
  <2>4. Got(s, q)' = Got(s, q) /\ Hand(s, q)' = Hand(s, q)
    BY <1>0 DEF Got, Hand, Parsing, Sent
  <2>5. e # NULL => e \in Endpoints /\ own[e] = r /\ Peer(Peer(e)) = e
    BY <1>0, HeldSlot, PeerOfPeer DEF Sessions
  <2>6. i[r] \in Nat /\ i'[r] = i[r] + 1 /\ \A p \in Servers \ {r} : i'[p] = i[p]
    BY <1>0, MeshTypes
  <2>7. DOMAIN sockets[r] \subseteq Nat
    BY MeshTypes
  <2> HIDE DEF q
  <2>8. CASE q = r /\ d = Peer(e) /\ e # NULL
    <3>1. /\ inbox[d] \in Seq(Frame) /\ resp[r] \in Frame /\ published[r] \in Seq(Entry)
          /\ inbox' = [inbox EXCEPT ![d] = Append(inbox[d], resp[r])]
      BY <1>0, <2>2, <2>8, MeshTypes DEF Write
    <3>2. inbox'[d] = Append(inbox[d], resp[r])
      BY <2>2, <3>1, MeshTypes
    <3>3. Peer(d) = e
      BY <2>5, <2>8
    <3>4. Pending(r, Peer(d)) = 1
      <4>1. \E k \in DOMAIN sockets[r] : sockets[r][k] = Peer(d) /\ i[r] <= k
        BY <1>0, <2>6, <3>3
      <4> QED BY <1>0, <4>1 DEF Pending
    <3>5. Pending(r, Peer(d))' = 0
      <4>1. \A k \in DOMAIN sockets[r] : sockets[r][k] = Peer(d) => k = i[r]
        BY <1>0, <2>8, <3>3, MeshTypes DEF SessionsOwned
      <4> HIDE DEF e
      <4>2. ~ \E k \in DOMAIN sockets'[r] : sockets'[r][k] = Peer(d) /\ i'[r] <= k
        BY <1>0, <2>6, <2>7, <4>1
      <4> QED BY <4>2 DEF Pending
    <3> DEFINE n == Got(s, r) + Hand(s, r)
               L == Len(published[r])
    <3>6. n \in Nat /\ Len(inbox[d]) \in Nat /\ L \in Nat
      BY <3>1, GotType, HandType
    <3>7. /\ n + Len(inbox[d]) + 1 = L
          /\ \A j \in DOMAIN inbox[d] :
               inbox[d][j] = [type |-> "SMESSAGES", body |-> <<published[r][n + j]>>]
      <4> HIDE DEF e
      <4> QED BY <1>0, <2>3, <2>8, <3>4 DEF Channel
    <3>8. resp[r] = [type |-> "SMESSAGES", body |-> <<published[r][L]>>]
      <4>1. resp[r].type = "SMESSAGES" /\ resp[r].body = <<published[r][L]>>
        BY <1>0 DEF Running, SessionInv, ClusterInv, DistributesThePublished
      <4> HIDE DEF L
      <4> QED BY <3>1, <4>1 DEF Frame
    <3>9. Got(s, r)' + Hand(s, r)' = n
      BY <2>4, <2>8
    <3>10. published'[r] = published[r] /\ pc'[r] = pc[r]
      BY <1>0
    <3> HIDE DEF n, e
    <3>11. /\ Len(inbox'[d]) = Len(inbox[d]) + 1
           /\ \A j \in DOMAIN inbox'[d] :
                \/ j \in DOMAIN inbox[d] /\ inbox'[d][j] = inbox[d][j]
                \/ j = Len(inbox[d]) + 1 /\ inbox'[d][j] = resp[r]
      <4> HIDE DEF L
      <4> QED BY <3>1, <3>2, AppendParts
    <3>12. \A j \in DOMAIN inbox'[d] :
             inbox'[d][j] = [type |-> "SMESSAGES", body |-> <<published[r][n + j]>>]
      <4> SUFFICES ASSUME NEW j \in DOMAIN inbox'[d]
                   PROVE  inbox'[d][j] = [type |-> "SMESSAGES", body |-> <<published[r][n + j]>>]
        OBVIOUS
      <4>1. CASE j \in DOMAIN inbox[d] /\ inbox'[d][j] = inbox[d][j]
        BY <3>7, <4>1
      <4>2. CASE j = Len(inbox[d]) + 1 /\ inbox'[d][j] = resp[r]
        <5>1. n + j = L
          BY <3>6, <3>7, <4>2
        <5> QED BY <3>8, <4>2, <5>1
      <4> QED BY <3>11, <4>1, <4>2
    <3>13. Got(s, r)' + Hand(s, r)' + Len(inbox'[d]) = L /\ L = Len(published'[r])
      BY <3>6, <3>7, <3>9, <3>10, <3>11 DEF L
    <3>14. \A j \in DOMAIN inbox'[d] :
             inbox'[d][j] = [type |-> "SMESSAGES",
                             body |-> <<published'[r][Got(s, r)' + Hand(s, r)' + j]>>]
      BY <3>9, <3>10, <3>12
    <3> HIDE DEF L
    <3>15. Channel(s, d, r)'
      <4> DEFINE h == Got(s, r)' + Hand(s, r)'
      <4>1. Channel(s, d, r)' = (LET k == h
                                 IN  /\ k + Len(inbox'[d]) <= Len(published'[r])
                                     /\ \A j \in DOMAIN inbox'[d] :
                                          inbox'[d][j] = [type |-> "SMESSAGES",
                                                          body |-> <<published'[r][k + j]>>]
                                     /\ pc'[r] # "off" =>
                                          k + Len(inbox'[d]) + Pending(r, Peer(d))'
                                            = Len(published'[r]))
        BY DEF Channel
      <4> HIDE DEF h
      <4> QED BY <3>5, <3>6, <3>13, <3>14, <4>1 DEF h
    <3> QED BY <2>8, <3>15 DEF q
  <2>9. CASE ~ (q = r /\ d = Peer(e) /\ e # NULL)
    <3>1. inbox'[d] = inbox[d]
      <4>1. CASE e # NULL /\ d = Peer(e)
        <5>1. Peer(d) = e
          BY <2>5, <4>1
        <5> QED BY <2>5, <2>9, <4>1, <5>1 DEF q
      <4>2. CASE e = NULL
        BY <1>0, <4>2
      <4>3. CASE e # NULL /\ d # Peer(e)
        <5>1. Write(e, resp[r])
          BY <1>0, <4>3
        <5> HIDE DEF e
        <5> QED BY <2>2, <4>3, <5>1, MeshTypes DEF Write
      <4> QED BY <4>1, <4>2, <4>3
    <3>2. Pending(q, Peer(d))' = Pending(q, Peer(d))
      <4>1. CASE q # r
        BY <1>0, <2>3, <2>6, <4>1 DEF Pending
      <4>2. CASE q = r
        <5>1. \A k \in DOMAIN sockets[r] : sockets[r][k] = Peer(d) => k # i[r]
          BY <2>2, <2>5, <2>9, <4>2
        <5>2. \A k \in DOMAIN sockets[r] :
                sockets[r][k] = Peer(d) => (i[r] <= k <=> i'[r] <= k)
          BY <2>6, <2>7, <5>1
        <5> QED BY <1>0, <4>2, <5>2 DEF Pending
      <4> QED BY <4>1, <4>2
    <3>3. Channel(s, d, q)'
      BY <1>0, <2>3, <2>4, <3>1, <3>2, ChannelKept
    <3> QED BY <3>3 DEF q
  <2> QED BY <2>8, <2>9
<1> QED BY <1>1, <1>2, <1>3, <1>4

\* No session is left to send the message on.
LEMMA MeshDistributeDone ==
  ASSUME NEW own \in [Endpoints -> Servers], MeshInv(own),
         NEW r \in Servers, distribute_done(r)
  PROVE  Mesh(own)'
<1> USE DEF MeshInv, Mesh
<1>0. /\ pc[r] = "distribute" /\ i[r] \notin DOMAIN sockets[r]
      /\ pc' = [pc EXCEPT ![r] = "loop"]
      /\ i' = [i EXCEPT ![r] = 1]
      /\ resp' = [resp EXCEPT ![r] = NoFrame]
      /\ UNCHANGED <<starts, backlog, sockets, open, inbox, board, published>>
  BY DEF distribute_done, memory, network, budget
<1>t. /\ pc'[r] = "loop" /\ \A p \in Servers \ {r} : pc'[p] = pc[p] /\ i'[p] = i[p] /\ resp'[p] = resp[p]
      /\ \A p : p \notin Servers => (pc'[p] # "off" => pc[p] # "off")
  BY <1>0, MeshTypes
<1>1. Running'
  BY <1>0, <1>t DEF Running
<1>2. Sessions(own)'
  BY <1>0, <1>t, SessionsKept
<1>3. Contents' /\ HandIsNext'
  <2>1. \A s \in Servers : Parsing(s)' => Parsing(s) /\ resp'[s].body = resp[s].body
    BY <1>t DEF Parsing
  <2> QED BY <1>0, <2>1, ContentsKept, HandsKept
<1>4. Channels(own)'
  <2> SUFFICES ASSUME NEW s \in Servers, NEW d \in Held(s)'
               PROVE  Channel(s, d, own[Peer(d)])'
    BY DEF Channels
  <2> DEFINE q == own[Peer(d)]
  <2>1. d \in Held(s)
    BY <1>0 DEF Held
  <2>2. d \in Endpoints /\ Peer(d) \in Endpoints
    BY <2>1, HeldSlot, PeerOfPeer
  <2>3. Channel(s, d, q) /\ q \in Servers
    BY <2>1, <2>2 DEF Channels
  <2> HIDE DEF q
  <2>4. Got(s, q)' = Got(s, q) /\ Hand(s, q)' = Hand(s, q)
    BY <1>0, <1>t, ContentsKept, <2>3 DEF Hand, Parsing
  <2>5. Pending(q, Peer(d))' = Pending(q, Peer(d))
    <3>1. CASE q # r
      BY <1>0, <1>t, <2>3, <3>1 DEF Pending
    <3>2. CASE q = r
      <4>1. i[r] \in Nat \ {0} /\ sockets[r] \in Seq(Endpoints \cup {NULL})
        BY MeshTypes
      <4>2. \A k \in DOMAIN sockets[r] : ~ (i[r] <= k)
        BY <1>0, <4>1
      <4> QED BY <1>t, <3>2, <4>2 DEF Pending
    <3> QED BY <3>1, <3>2
  <2>6. pc'[q] # "off" => pc[q] # "off"
    BY <1>0, <1>t, <2>3
  <2>7. Channel(s, d, q)'
    BY <1>0, <2>3, <2>4, <2>5, <2>6, ChannelKept
  <2> QED BY <2>7 DEF q
<1> QED BY <1>1, <1>2, <1>3, <1>4

\* A frame with no records left is done with.
LEMMA MeshAddDone ==
  ASSUME NEW own \in [Endpoints -> Servers], MeshInv(own),
         NEW r \in Servers, add_done(r)
  PROVE  Mesh(own)'
<1> USE DEF MeshInv, Mesh
<1>0. /\ pc[r] = "add" /\ resp[r].body = <<>>
      /\ pc' = [pc EXCEPT ![r] = "loop"]
      /\ resp' = [resp EXCEPT ![r] = NoFrame]
      /\ UNCHANGED <<starts, backlog, sockets, i, open, inbox, board, published>>
  BY DEF add_done, memory, network, budget
<1>t. /\ pc'[r] = "loop" /\ \A p \in Servers \ {r} : pc'[p] = pc[p] /\ resp'[p] = resp[p]
      /\ \A p : p \notin Servers => (pc'[p] # "off" => pc[p] # "off")
  BY <1>0, MeshTypes
<1>1. Running'
  BY <1>0, <1>t DEF Running
<1>2. Sessions(own)'
  BY <1>0, <1>t, SessionsKept
<1>3. Contents' /\ HandIsNext'
  <2>1. \A s \in Servers : Parsing(s)' => Parsing(s) /\ resp'[s].body = resp[s].body
    BY <1>t DEF Parsing
  <2> QED BY <1>0, <2>1, ContentsKept, HandsKept
<1>4. Channels(own)'
  <2> SUFFICES ASSUME NEW s \in Servers, NEW d \in Held(s)'
               PROVE  Channel(s, d, own[Peer(d)])'
    BY DEF Channels
  <2> DEFINE q == own[Peer(d)]
  <2>1. d \in Held(s)
    BY <1>0 DEF Held
  <2>2. d \in Endpoints /\ Peer(d) \in Endpoints
    BY <2>1, HeldSlot, PeerOfPeer
  <2>3. Channel(s, d, q) /\ q \in Servers
    BY <2>1, <2>2 DEF Channels
  <2> HIDE DEF q
  <2>4. Got(s, q)' = Got(s, q) /\ Hand(s, q)' = Hand(s, q)
    BY <1>0, <1>t, ContentsKept, <2>3 DEF Hand, Parsing
  <2>5. Pending(q, Peer(d))' = Pending(q, Peer(d)) /\ (pc'[q] # "off" => pc[q] # "off")
    BY <1>0, <1>t, <2>3 DEF Pending
  <2>6. Channel(s, d, q)'
    BY <1>0, <2>3, <2>4, <2>5, ChannelKept
  <2> QED BY <2>6 DEF q
<1> QED BY <1>1, <1>2, <1>3, <1>4

\* The frame read is the next of its sender's messages, and no other's.
LEMMA MeshRead ==
  ASSUME NEW own \in [Endpoints -> Servers], MeshInv(own),
         NEW s \in Servers, NEW k \in DOMAIN sockets[s], read_smessages(s, k)
  PROVE  Mesh(own)'
<1> USE DEF MeshInv, Mesh
<1>1. PICK e : e = sockets[s][k]
  OBVIOUS
<1>2. /\ pc[s] = "loop" /\ e # NULL /\ inbox[e] # <<>>
      /\ pc' = [pc EXCEPT ![s] = "add"]
      /\ resp' = [resp EXCEPT ![s] = Head(inbox[e])]
      /\ inbox' = [inbox EXCEPT ![e] = Tail(inbox[e])]
      /\ UNCHANGED <<starts, backlog, sockets, i, open, board, published>>
  BY <1>1 DEF read_smessages, Ready, Readable, memory, budget
<1>3. e \in Held(s) /\ e \in Endpoints /\ inbox[e] \in Seq(Frame)
  BY <1>1, <1>2, HeldSlot, MeshTypes
<1>4. PICK p \in Servers : p = own[Peer(e)]
  BY <1>3, PeerOfPeer
<1>5. own[e] = s /\ p # s /\ Channel(s, e, p)
  BY <1>3, <1>4 DEF Sessions, Channels
<1>6. PICK n \in Nat : n = Got(s, p)
  BY GotType
<1>7. Hand(s, p) = 0
  BY <1>2 DEF Hand, Parsing
<1>8. /\ n + Len(inbox[e]) <= Len(published[p])
      /\ \A j \in DOMAIN inbox[e] :
           inbox[e][j] = [type |-> "SMESSAGES", body |-> <<published[p][n + j]>>]
      /\ pc[p] # "off" => n + Len(inbox[e]) + Pending(p, Peer(e)) = Len(published[p])
  BY <1>5, <1>6, <1>7 DEF Channel
<1>9. /\ 1 \in DOMAIN inbox[e] /\ Len(inbox[e]) \in Nat /\ Len(inbox[e]) > 0
      /\ Len(published[p]) \in Nat /\ DOMAIN published[p] = 1 .. Len(published[p])
      /\ Tail(inbox[e]) \in Seq(Frame) /\ Len(Tail(inbox[e])) = Len(inbox[e]) - 1
      /\ \A j \in DOMAIN Tail(inbox[e]) :
           j \in Nat /\ j + 1 \in DOMAIN inbox[e] /\ Tail(inbox[e])[j] = inbox[e][j + 1]
  BY <1>2, <1>3, SentType
<1>10. PICK m : m = published[p][n + 1]
  OBVIOUS
<1>11. n + 1 \in DOMAIN published[p] /\ m \in Sent(p)
  BY <1>8, <1>9, <1>10 DEF Sent, Elems
<1>12. Head(inbox[e]) = [type |-> "SMESSAGES", body |-> <<m>>]
  <2>1. Head(inbox[e]) = inbox[e][1]
    BY <1>2, <1>3
  <2>2. inbox[e][1] = [type |-> "SMESSAGES", body |-> <<published[p][n + 1]>>]
    BY <1>8, <1>9
  <2> QED BY <1>10, <2>1, <2>2
<1>13. /\ pc'[s] = "add" /\ resp'[s] = [type |-> "SMESSAGES", body |-> <<m>>]
       /\ \A q \in Servers \ {s} : pc'[q] = pc[q] /\ resp'[q] = resp[q]
       /\ \A q : q \notin Servers => (pc'[q] # "off" => pc[q] # "off")
       /\ inbox'[e] = Tail(inbox[e])
       /\ \A d \in Endpoints \ {e} : inbox'[d] = inbox[d]
  BY <1>2, <1>3, <1>12, MeshTypes
<1>14. Parsing(s)' /\ resp'[s].body = <<m>> /\ resp'[s].body[1] = m
  BY <1>13 DEF Parsing
<1>15. /\ Contents'
       /\ \A r, q \in Servers : Got(r, q)' = Got(r, q)
       /\ \A q \in Servers : Sent(q)' = Sent(q)
  BY <1>2, ContentsKept
<1>16. Running'
  BY <1>2, <1>13 DEF Running
<1>17. Sessions(own)'
  BY <1>2, <1>13, SessionsKept
<1>18. HandIsNext'
  <2> SUFFICES ASSUME NEW r \in Servers, Parsing(r)'
               PROVE  \E q \in Servers \ {r} :
                        /\ Got(r, q)' + 1 \in DOMAIN published'[q]
                        /\ resp'[r].body = <<published'[q][Got(r, q)' + 1]>>
    BY DEF HandIsNext
  <2>1. CASE r = s
    BY <1>2, <1>5, <1>6, <1>10, <1>11, <1>14, <1>15, <2>1
  <2>2. CASE r # s
    <3>1. Parsing(r)
      BY <1>13, <2>2 DEF Parsing
    <3> QED BY <1>2, <1>13, <1>15, <2>2, <3>1 DEF HandIsNext
  <2> QED BY <2>1, <2>2
<1>19. \A q \in Servers : Hand(s, q) = 0 /\ Hand(s, q)' = IF q = p THEN 1 ELSE 0
  <2> SUFFICES ASSUME NEW q \in Servers
               PROVE  Hand(s, q) = 0 /\ Hand(s, q)' = IF q = p THEN 1 ELSE 0
    OBVIOUS
  <2>1. Hand(s, q) = 0
    BY <1>2 DEF Hand, Parsing
  <2>2. m \in Sent(q) <=> q = p
    BY <1>11, SentOnce DEF Contents
  <2> QED BY <1>14, <1>15, <2>1, <2>2 DEF Hand
<1>20. \A r \in Servers \ {s}, q \in Servers : Hand(r, q)' = Hand(r, q)
  BY <1>13, <1>15 DEF Hand, Parsing
<1>21. \A q \in Servers : \A d : Pending(q, d)' = Pending(q, d)
  BY <1>2, <1>13 DEF Pending
<1>22. Channels(own)'
  <2> SUFFICES ASSUME NEW r \in Servers, NEW d \in Held(r)'
               PROVE  Channel(r, d, own[Peer(d)])'
    BY DEF Channels
  <2>0. d \in Held(r)
    BY <1>2 DEF Held
  <2>1. d \in Held(r) /\ d \in Endpoints /\ own[d] = r
    BY <2>0, HeldSlot DEF Sessions
  <2>2. PICK q \in Servers : q = own[Peer(d)]
    BY <2>1, PeerOfPeer
  <2>3. Channel(r, d, q)
    BY <2>1, <2>2 DEF Channels
  <2>4. pc'[q] # "off" => pc[q] # "off"
    BY <1>2, <1>13
  <2>5. CASE d = e
    <3>1. r = s /\ q = p
      BY <1>4, <1>5, <2>1, <2>2, <2>5
    <3>2. Got(s, p)' + Hand(s, p)' = n + 1
      BY <1>6, <1>15, <1>19
    <3>3. n + 1 + Len(inbox'[e]) = n + Len(inbox[e])
      <4>1. Len(inbox'[e]) = Len(inbox[e]) - 1
        BY <1>9, <1>13
      <4> QED BY <1>6, <1>9, <4>1
    <3>4. \A j \in DOMAIN inbox'[e] :
            inbox'[e][j] = [type |-> "SMESSAGES", body |-> <<published'[p][n + 1 + j]>>]
      <4> SUFFICES ASSUME NEW j \in DOMAIN inbox'[e]
                   PROVE  inbox'[e][j] = [type |-> "SMESSAGES",
                                          body |-> <<published'[p][n + 1 + j]>>]
        OBVIOUS
      <4>1. j \in Nat /\ j + 1 \in DOMAIN inbox[e] /\ inbox'[e][j] = inbox[e][j + 1]
        BY <1>9, <1>13
      <4>2. n + (j + 1) = n + 1 + j
        BY <4>1
      <4> QED BY <1>2, <1>8, <4>1, <4>2
    <3>5. pc'[p] # "off" => n + 1 + Len(inbox'[e]) + Pending(p, Peer(e))' = Len(published'[p])
      BY <1>2, <1>8, <1>21, <2>4, <3>1, <3>3
    <3>6. n + 1 + Len(inbox'[e]) <= Len(published'[p])
      BY <1>2, <1>8, <3>3
    <3>7. Channel(s, e, p)'
      BY <3>2, <3>4, <3>5, <3>6 DEF Channel
    <3> QED BY <2>2, <2>5, <3>1, <3>7
  <2>6. CASE d # e
    <3>1. Got(r, q)' + Hand(r, q)' = Got(r, q) + Hand(r, q)
      <4>1. CASE r = s
        <5>1. q # p
          BY <1>3, <1>4, <2>1, <2>2, <2>6, <4>1 DEF Sessions
        <5> QED BY <1>15, <1>19, <4>1, <5>1
      <4>2. CASE r # s
        BY <1>15, <1>20, <4>2
      <4> QED BY <4>1, <4>2
    <3>2. inbox'[d] = inbox[d] /\ published'[q] = published[q]
      BY <1>2, <1>13, <2>1, <2>6
    <3>3. Channel(r, d, q)'
      BY <1>21, <2>3, <2>4, <3>1, <3>2, ChannelKept
    <3> QED BY <2>2, <3>3
  <2> QED BY <2>5, <2>6
<1> QED BY <1>15, <1>16, <1>17, <1>18, <1>22

\* A session that ends with the server at its other end.
LEMMA MeshClosed ==
  ASSUME NEW own \in [Endpoints -> Servers], MeshInv(own),
         NEW s \in Servers, NEW k \in DOMAIN sockets[s], read_closed(s, k)
  PROVE  Mesh(own)'
<1> USE DEF MeshInv, Mesh
<1>1. PICK e : e = sockets[s][k]
  OBVIOUS
<1>2. /\ pc[s] = "loop" /\ e # NULL /\ Peer(e) \notin open
      /\ open' = open \ {e}
      /\ inbox' = [d \in Endpoints |-> IF d \in {e} THEN <<>> ELSE inbox[d]]
      /\ sockets' = [sockets EXCEPT ![s][k] = NULL]
      /\ UNCHANGED <<starts, backlog, pc, resp, i, board, published>>
  BY <1>1 DEF read_closed, Ready, AtEOF, Close, memory, buffers, budget
<1>3. e \in Held(s) /\ e \in Endpoints /\ e \in open
  BY <1>1, <1>2, HeldSlot
<1>4. /\ \A r \in Servers \ {s} : sockets'[r] = sockets[r]
      /\ DOMAIN sockets'[s] = DOMAIN sockets[s]
      /\ \A j \in DOMAIN sockets[s] : sockets'[s][j] = IF j = k THEN NULL ELSE sockets[s][j]
  BY <1>2, MeshTypes
<1>5. ASSUME NEW r \in Servers, NEW d \in Held(r)'
      PROVE  d \in Held(r) /\ d # e
  <2>1. PICK j \in DOMAIN sockets'[r] : sockets'[r][j] = d /\ d # NULL
    BY DEF Held
  <2>2. j \in DOMAIN sockets[r] /\ sockets[r][j] = d /\ ~ (r = s /\ j = k)
    BY <1>4, <2>1
  <2>3. d \in Held(r)
    BY <2>1, <2>2, HeldSlot
  <2>4. d # e
    BY <1>1, <1>2, <2>2, MeshTypes DEF SessionsOwned
  <2> QED BY <2>3, <2>4
<1>6. ASSUME NEW r \in Servers, NEW d \in Held(r)
      PROVE  Peer(d) # e
  <2>1. d \in open /\ Peer(Peer(d)) = d
    BY HeldSlot, PeerOfPeer
  <2> QED BY <1>2, <2>1
<1>7. Running'
  BY <1>2, <1>4 DEF Running
<1>8. Sessions(own)'
  BY <1>2, <1>5, <1>6 DEF Sessions
<1>9. Contents' /\ HandIsNext'
  BY <1>2, ContentsKept, HandsKept DEF Parsing
<1>10. Channels(own)'
  <2> SUFFICES ASSUME NEW r \in Servers, NEW d \in Held(r)'
               PROVE  Channel(r, d, own[Peer(d)])'
    BY DEF Channels
  <2>1. d \in Held(r) /\ d # e /\ d \in Endpoints
    BY <1>5, HeldSlot
  <2>2. PICK q \in Servers : q = own[Peer(d)]
    BY <2>1, PeerOfPeer
  <2>3. Channel(r, d, q)
    BY <2>1, <2>2 DEF Channels
  <2>4. Got(r, q)' = Got(r, q) /\ Hand(r, q)' = Hand(r, q)
    BY <1>2, ContentsKept DEF Hand, Parsing
  <2>5. inbox'[d] = inbox[d]
    BY <1>2, <2>1
  <2>6. Pending(q, Peer(d))' = Pending(q, Peer(d))
    <3>1. CASE q = s
      BY <1>2, <3>1 DEF Pending
    <3>2. CASE q # s
      BY <1>2, <1>4, <3>2 DEF Pending
    <3> QED BY <3>1, <3>2
  <2>7. Channel(r, d, q)'
    BY <1>2, <2>3, <2>4, <2>5, <2>6, ChannelKept
  <2> QED BY <2>2, <2>7
<1> QED BY <1>7, <1>8, <1>9, <1>10

\* A free board.
LEMMA EmptyLog ==
  num_messages(EmptyBoard) = 0 /\ Filled(EmptyBoard) /\ Log(EmptyBoard) = <<>>
<1>1. Used(EmptyBoard) = {}
  BY DEF Used, EmptyBoard, Empty
<1>2. num_messages(EmptyBoard) = 0
  BY <1>1, FS_EmptySet DEF num_messages
<1>3. \A k \in Slots : EmptyBoard[k].msg = <<>> /\ ~ (k < 0)
  BY MAssumption DEF EmptyBoard, Empty, Slots
<1>4. Filled(EmptyBoard)
  BY <1>2, <1>3 DEF Filled
<1>5. Log(EmptyBoard) = [k \in 1 .. 0 |-> EmptyBoard[k - 1]]
  BY <1>2 DEF Log
<1>6. Log(EmptyBoard) = <<>>
  BY <1>5
<1> QED BY <1>2, <1>4, <1>6

\* A server that stops takes its board and its ends of the sessions with it.
LEMMA MeshStop ==
  ASSUME NEW own \in [Endpoints -> Servers], MeshInv(own),
         NEW s \in Servers, stop(s)
  PROVE  Mesh(own)' /\ Log(board[s])' = <<>>
<1> USE DEF MeshInv, Mesh
<1>1. Waiting(s) = {}
  BY DEF Running, Waiting
<1>2. /\ pc' = [pc EXCEPT ![s] = "off"]
      /\ board' = [board EXCEPT ![s] = EmptyBoard]
      /\ sockets' = [sockets EXCEPT ![s] = <<>>]
      /\ i' = [i EXCEPT ![s] = 1]
      /\ resp' = [resp EXCEPT ![s] = NoFrame]
      /\ open' = open \ Held(s)
      /\ inbox' = [d \in Endpoints |-> IF d \in Held(s) THEN <<>> ELSE inbox[d]]
      /\ backlog' = [backlog EXCEPT ![s] = <<>>]
      /\ UNCHANGED <<starts, published>>
  BY <1>1 DEF stop, Close
<1>3. /\ pc'[s] = "off" /\ board'[s] = EmptyBoard /\ sockets'[s] = <<>> /\ backlog'[s] = <<>>
      /\ \A r \in Servers \ {s} : /\ pc'[r] = pc[r] /\ board'[r] = board[r]
                                  /\ sockets'[r] = sockets[r] /\ i'[r] = i[r]
                                  /\ resp'[r] = resp[r] /\ backlog'[r] = backlog[r]
  <2>1. backlog \in [Servers -> Seq(Endpoints)]
    BY DEF SessionInv, ClusterInv, TypeOK
  <2> QED BY <1>2, <2>1, MeshTypes
<1>4. Log(board[s])' = <<>> /\ Filled(board'[s])
  BY <1>3, EmptyLog
<1>5. \A r \in Servers \ {s} : Held(r)' = Held(r)
  BY <1>3 DEF Held
<1>6. Held(s)' = {}
  BY <1>3 DEF Held
<1>7. \A q \in Servers : Sent(q)' = Sent(q)
  BY <1>2 DEF Sent
<1>8. \A r \in Servers \ {s}, q \in Servers :
        Got(r, q)' = Got(r, q) /\ Hand(r, q)' = Hand(r, q)
  BY <1>3, <1>7 DEF Got, Hand, Parsing
<1>9. ASSUME NEW r \in Servers, NEW d \in Held(r)'
      PROVE  /\ r # s /\ d \in Held(r) /\ d \in Endpoints /\ own[d] = r
             /\ \A c \in Held(s) : d # c
             /\ own[Peer(d)] # s => Peer(d) \notin Held(s)
  <2>1. r # s /\ d \in Held(r) /\ own[d] = r
    BY <1>5, <1>6 DEF Sessions
  <2>2. \A c \in Held(s) : own[c] = s
    BY DEF Sessions
  <2> QED BY <2>1, <2>2, HeldSlot
<1>10. Running'
  BY <1>2, <1>3 DEF Running
<1>11. Sessions(own)'
  <2> SUFFICES ASSUME NEW r \in Servers, NEW e \in Held(r)'
               PROVE  /\ own[e] = r
                      /\ own[Peer(e)] # r
                      /\ pc'[own[Peer(e)]] # "off" => Peer(e) \in open'
                      /\ \A d \in Held(r)' : own[Peer(d)] = own[Peer(e)] => d = e
    BY DEF Sessions
  <2>1. r # s /\ e \in Held(r) /\ e \in Endpoints
    BY <1>9
  <2>2. own[Peer(e)] \in Servers
    BY <2>1, PeerOfPeer
  <2>3. pc'[own[Peer(e)]] # "off" => Peer(e) \in open'
    BY <1>2, <1>3, <1>9, <2>1, <2>2 DEF Sessions
  <2>4. \A d \in Held(r)' : d \in Held(r)
    BY <1>9
  <2> QED BY <2>1, <2>3, <2>4 DEF Sessions
<1>12. Contents'
  <2>1. OnceSent'
    BY <1>2 DEF Contents, OnceSent
  <2>2. Logs'
    <3> SUFFICES ASSUME NEW r \in Servers
                 PROVE  /\ Filled(board'[r])
                        /\ \A k \in DOMAIN Log(board'[r]) :
                             \E q \in Servers : Log(board'[r])[k] \in Sent(q)'
                        /\ \A j, k \in DOMAIN Log(board'[r]) :
                             Log(board'[r])[j] = Log(board'[r])[k] => j = k
      BY DEF Logs
    <3>1. CASE r = s
      BY <1>4, <3>1
    <3>2. CASE r # s
      <4>1. board'[r] = board[r]
        BY <1>3, <3>2
      <4>2. \A k \in DOMAIN Log(board[r]) : \E q \in Servers : Log(board[r])[k] \in Sent(q)'
        BY <1>7 DEF Contents, Logs
      <4> QED BY <4>1, <4>2 DEF Contents, Logs
    <3> QED BY <3>1, <3>2
  <2>3. GotFirst'
    <3> SUFFICES ASSUME NEW r \in Servers, NEW q \in Servers, r # q,
                        NEW k \in Places(Log(board'[r]), Sent(q)')
                 PROVE  \E j \in 1 .. Got(r, q)' :
                          j \in DOMAIN published'[q] /\ Log(board'[r])[k] = published'[q][j]
      BY DEF GotFirst
    <3>1. r # s
      BY <1>4 DEF Places
    <3> QED BY <1>2, <1>3, <1>7, <1>8, <3>1 DEF Contents, GotFirst
  <2> QED BY <2>1, <2>2, <2>3 DEF Contents
<1>13. HandIsNext'
  <2> SUFFICES ASSUME NEW r \in Servers, Parsing(r)'
               PROVE  \E q \in Servers \ {r} :
                        /\ Got(r, q)' + 1 \in DOMAIN published'[q]
                        /\ resp'[r].body = <<published'[q][Got(r, q)' + 1]>>
    BY DEF HandIsNext
  <2>1. r # s /\ Parsing(r)
    BY <1>3 DEF Parsing
  <2> QED BY <1>2, <1>3, <1>8, <2>1 DEF HandIsNext
<1>14. Channels(own)'
  <2> SUFFICES ASSUME NEW r \in Servers, NEW d \in Held(r)'
               PROVE  Channel(r, d, own[Peer(d)])'
    BY DEF Channels
  <2>1. r # s /\ d \in Held(r) /\ d \in Endpoints
    BY <1>9
  <2>2. PICK q \in Servers : q = own[Peer(d)]
    BY <2>1, PeerOfPeer
  <2>3. Channel(r, d, q)
    BY <2>1, <2>2 DEF Channels
  <2>4. inbox'[d] = inbox[d]
    BY <1>2, <1>9, <2>1
  <2>5. pc'[q] # "off" => pc[q] # "off" /\ Pending(q, Peer(d))' = Pending(q, Peer(d))
    BY <1>3 DEF Pending
  <2>6. Channel(r, d, q)'
    BY <1>2, <1>8, <2>1, <2>3, <2>4, <2>5, ChannelKept
  <2> QED BY <2>2, <2>6
<1> QED BY <1>4, <1>10, <1>11, <1>12, <1>13, <1>14

\* A frame of one record is read as that record.
LEMMA OneRecord ==
  ASSUME NEW m \in Entry, NEW t \in Texts, m.msg = <<t>>, Blank \notin Texts, NEW old
  PROVE  /\ FirstRecord(<<m>>) = m
         /\ RestOf(<<m>>) = <<>>
         /\ Scanned(m.msg, old) = m.msg
<1> DEFINE body == <<m>>
<1>1. body \in Seq(Entry) /\ Len(body) = 1 /\ DOMAIN body = {1} /\ body[1] = m
  OBVIOUS
<1>2. m.msg # <<>> /\ m.msg # <<Blank>>
  OBVIOUS
<1> HIDE DEF body
<1>3. /\ \E k \in DOMAIN body : body[k].msg # <<>>
      /\ \A k \in DOMAIN body : k = 1
      /\ \A j \in 1 .. 1 - 1 : body[j].msg = <<>>
  BY <1>1, <1>2
<1>4. EndOfRecord(body) = 1
  <2>1. \E k \in DOMAIN body :
          body[k].msg # <<>> /\ \A j \in 1 .. k - 1 : body[j].msg = <<>>
    BY <1>1, <1>2, <1>3
  <2>2. (CHOOSE k \in DOMAIN body :
           body[k].msg # <<>> /\ \A j \in 1 .. k - 1 : body[j].msg = <<>>) \in DOMAIN body
    BY <2>1
  <2> QED BY <1>3, <2>2 DEF EndOfRecord
<1>5. FirstRecord(body) = m
  <2> DEFINE clocks == [k \in 1 .. 1 - 1 |-> body[k + 1].lc]
  <2>1. clocks = <<>>
    OBVIOUS
  <2>2. FirstRecord(body) = [lc |-> m.lc, msg |-> clocks \o m.msg]
    BY <1>1, <1>4 DEF FirstRecord
  <2> HIDE DEF clocks
  <2>3. clocks \o m.msg = m.msg
    BY <2>1 DEF Entry, Msgs
  <2> QED BY <2>2, <2>3 DEF Entry
<1>6. RestOf(body) = <<>>
  BY <1>1, <1>4 DEF RestOf
<1>7. Scanned(m.msg, old) = m.msg
  BY <1>2 DEF Scanned
<1> QED BY <1>5, <1>6, <1>7 DEF body

\* What a message added at one server does to the logs.
LEMMA LogGrows ==
  ASSUME SessionInv, Contents, NEW s \in Servers, NEW m \in Entry, m.msg # <<>>,
         num_messages(board[s]) < M,
         board' = [board EXCEPT ![s] = add_message(board[s], m.lc, m.msg)]
  PROVE  /\ Log(board'[s]) = Append(Log(board[s]), m)
         /\ Filled(board'[s])
         /\ \A r \in Servers \ {s} : board'[r] = board[r]
         /\ \A r \in Servers : Log(board[r]) \in Seq(Entry)
<1>1. board[s] \in [Slots -> Entry] /\ Filled(board[s])
  BY MeshTypes DEF Contents, Logs
<1>2. m.lc \in Nat /\ m.msg \in Msgs /\ m = [lc |-> m.lc, msg |-> m.msg]
  BY DEF Entry
<1>3. /\ board'[s] = add_message(board[s], m.lc, m.msg)
      /\ \A r \in Servers \ {s} : board'[r] = board[r]
  BY MeshTypes
<1>4. Log(board'[s]) = Append(Log(board[s]), m)
  <2>1. Log(add_message(board[s], m.lc, m.msg)) = Append(Log(board[s]), [lc |-> m.lc, msg |-> m.msg])
    BY <1>1, <1>2, LogOfAdded
  <2> QED BY <1>2, <1>3, <2>1
<1>5. Filled(add_message(board[s], m.lc, m.msg))
  BY <1>1, <1>2, AddAtEnd
<1>6. \A r \in Servers : Log(board[r]) \in Seq(Entry)
  BY MeshTypes, LogType
<1> QED BY <1>3, <1>4, <1>5, <1>6

\* Elements that differ from the one that joins them stay different.
LEMMA StaysOnce ==
  ASSUME NEW T, NEW q \in Seq(T), NEW x \in T,
         \A j, k \in DOMAIN q : q[j] = q[k] => j = k,
         \A k \in DOMAIN q : q[k] # x
  PROVE  \A j, k \in DOMAIN Append(q, x) : Append(q, x)[j] = Append(q, x)[k] => j = k
<1> DEFINE a == Append(q, x)
<1>1. \A k \in DOMAIN a : (k = Len(q) + 1 /\ a[k] = x) \/ (k \in DOMAIN q /\ a[k] = q[k])
  BY AppendParts
<1> HIDE DEF a
<1>2. \A j, k \in DOMAIN a : a[j] = a[k] => j = k
  BY <1>1
<1> QED BY <1>2 DEF a

\* The message in a server's hands is stored, behind the others.
LEMMA MeshAdd ==
  ASSUME BoardsSuffice, NEW own \in [Endpoints -> Servers], MeshInv(own),
         NEW s \in Servers, add_smessages(s)
  PROVE  /\ Mesh(own)'
         /\ \E r \in Servers \ {s} :
              /\ Got(s, r) + 1 \in DOMAIN published[r]
              /\ Log(board'[s]) = Append(Log(board[s]), published[r][Got(s, r) + 1])
<1> USE DEF MeshInv, Mesh
<1>1. Parsing(s) /\ pc[s] = "add"
  BY DEF add_smessages, Parsing
<1>2. PICK r \in Servers \ {s} :
           /\ Got(s, r) + 1 \in DOMAIN published[r]
           /\ resp[s].body = <<published[r][Got(s, r) + 1]>>
           /\ resp[s].body[1] \in Sent(r)
           /\ \A q \in Servers : resp[s].body[1] \in Sent(q) => q = r
           /\ \A k \in DOMAIN Log(board[s]) : Log(board[s])[k] # resp[s].body[1]
  BY <1>1, InHand
<1>3. PICK n \in Nat : n = Got(s, r)
  BY GotType
<1>4. PICK m : m = published[r][n + 1]
  OBVIOUS
<1>5. /\ resp[s].body = <<m>> /\ resp[s].body[1] = m
      /\ n + 1 \in DOMAIN published[r] /\ m \in Sent(r)
      /\ \A q \in Servers : m \in Sent(q) <=> q = r
      /\ \A k \in DOMAIN Log(board[s]) : Log(board[s])[k] # m
  BY <1>2, <1>3, <1>4
<1>6. m \in Entry
  BY <1>5, SentType
<1>7. PICK t \in Texts : m.msg = <<t>>
  BY <1>4, <1>5 DEF Contents, OnceSent
<1>8. m.msg # <<>>
  BY <1>7
<1>9. /\ board' = [board EXCEPT ![s] = add_message(board[s], m.lc, m.msg)]
      /\ resp' = [resp EXCEPT ![s].body = <<>>]
      /\ UNCHANGED <<starts, pc, sockets, i, inbox, open, backlog, published>>
  <2>1. /\ FirstRecord(resp[s].body) = m
        /\ RestOf(resp[s].body) = <<>>
        /\ Scanned(m.msg, message[s]) = m.msg
    BY <1>5, <1>6, <1>7, OneRecord DEF BoardsSuffice
  <2> QED BY <2>1 DEF add_smessages, network, budget
<1>10. num_messages(board[s]) < M
  <2>1. \A k \in DOMAIN Log(board[s]) : Log(board[s])[k].msg # <<t>>
    <3> SUFFICES ASSUME NEW k \in DOMAIN Log(board[s]), Log(board[s])[k].msg = <<t>> PROVE FALSE
      OBVIOUS
    <3>1. PICK q \in Servers : Log(board[s])[k] \in Sent(q)
      BY DEF Contents, Logs
    <3>2. PICK j \in DOMAIN published[q] : Log(board[s])[k] = published[q][j]
      BY <3>1 DEF Sent, Elems
    <3>3. q = r /\ j = n + 1
      BY <1>4, <1>5, <1>7, <3>2 DEF Contents, OnceSent
    <3> QED BY <1>4, <1>5, <3>2, <3>3
  <2> QED BY <2>1, RoomOnBoard
<1>11. /\ Log(board'[s]) = Append(Log(board[s]), m)
       /\ Filled(board'[s])
       /\ \A p \in Servers \ {s} : board'[p] = board[p]
       /\ Log(board[s]) \in Seq(Entry)
  BY <1>6, <1>8, <1>9, <1>10, LogGrows
<1>12. /\ resp'[s].body = <<>> /\ resp'[s].type = resp[s].type
       /\ \A p \in Servers \ {s} : resp'[p] = resp[p]
  BY <1>9, MeshTypes DEF Frame
<1>13. ~ Parsing(s)' /\ \A p \in Servers \ {s} : Parsing(p)' = Parsing(p)
  BY <1>9, <1>12 DEF Parsing
<1>14. \A q \in Servers : Sent(q)' = Sent(q)
  BY <1>9 DEF Sent
<1>15. \A p \in Servers \ {s}, q \in Servers :
         Got(p, q)' = Got(p, q) /\ Hand(p, q)' = Hand(p, q)
  BY <1>11, <1>12, <1>13, <1>14 DEF Got, Hand
<1>16. \A q \in Servers : /\ Got(s, q)' = IF q = r THEN n + 1 ELSE Got(s, q)
                          /\ Hand(s, q)' = 0
                          /\ Hand(s, q) = IF q = r THEN 1 ELSE 0
  <2> SUFFICES ASSUME NEW q \in Servers
               PROVE  /\ Got(s, q)' = IF q = r THEN n + 1 ELSE Got(s, q)
                      /\ Hand(s, q)' = 0
                      /\ Hand(s, q) = IF q = r THEN 1 ELSE 0
    OBVIOUS
  <2>1. Got(s, q)' = Count(Append(Log(board[s]), m), Sent(q))
    BY <1>11, <1>14 DEF Got
  <2>2. Got(s, q)' = IF m \in Sent(q) THEN Got(s, q) + 1 ELSE Got(s, q)
    BY <1>6, <1>11, <2>1, CountAppend DEF Got
  <2>3. Hand(s, q)' = 0
    BY <1>13 DEF Hand
  <2>4. Hand(s, q) = IF q = r THEN 1 ELSE 0
    BY <1>1, <1>5 DEF Hand
  <2> QED BY <1>3, <1>5, <2>2, <2>3, <2>4
<1>17. \A q \in Servers : Got(s, q)' + Hand(s, q)' = Got(s, q) + Hand(s, q)
  <2> SUFFICES ASSUME NEW q \in Servers
               PROVE  Got(s, q)' + Hand(s, q)' = Got(s, q) + Hand(s, q)
    OBVIOUS
  <2>1. Got(s, q) \in Nat
    BY GotType
  <2> QED BY <1>3, <1>16, <2>1
<1>18. Running'
  BY <1>9, <1>12 DEF Running
<1>19. Sessions(own)'
  BY <1>9, SessionsKept
<1>20. OnceSent'
  BY <1>9 DEF Contents, OnceSent
<1>21. Logs'
  <2> SUFFICES ASSUME NEW p \in Servers
               PROVE  /\ Filled(board'[p])
                      /\ \A k \in DOMAIN Log(board'[p]) :
                           \E q \in Servers : Log(board'[p])[k] \in Sent(q)'
                      /\ \A j, k \in DOMAIN Log(board'[p]) :
                           Log(board'[p])[j] = Log(board'[p])[k] => j = k
    BY DEF Logs
  <2>1. CASE p = s
    <3>1. \A k \in DOMAIN Log(board'[s]) : \E q \in Servers : Log(board'[s])[k] \in Sent(q)'
      <4> SUFFICES ASSUME NEW k \in DOMAIN Log(board'[s])
                   PROVE  \E q \in Servers : Log(board'[s])[k] \in Sent(q)'
        OBVIOUS
      <4>1. CASE Log(board'[s])[k] = m
        BY <1>5, <1>14, <4>1
      <4>2. CASE k \in DOMAIN Log(board[s]) /\ Log(board'[s])[k] = Log(board[s])[k]
        BY <1>14, <4>2 DEF Contents, Logs
      <4> QED BY <1>6, <1>11, <4>1, <4>2, AppendParts
    <3>2. \A j, k \in DOMAIN Log(board'[s]) : Log(board'[s])[j] = Log(board'[s])[k] => j = k
      <4>1. \A j, k \in DOMAIN Log(board[s]) : Log(board[s])[j] = Log(board[s])[k] => j = k
        BY DEF Contents, Logs
      <4> QED BY <1>5, <1>6, <1>11, <4>1, StaysOnce
    <3> QED BY <1>11, <2>1, <3>1, <3>2
  <2>2. CASE p # s
    <3>1. board'[p] = board[p]
      BY <1>11, <2>2
    <3>2. \A k \in DOMAIN Log(board[p]) : \E q \in Servers : Log(board[p])[k] \in Sent(q)'
      BY <1>14 DEF Contents, Logs
    <3> QED BY <3>1, <3>2 DEF Contents, Logs
  <2> QED BY <2>1, <2>2
<1>22. GotFirst'
  <2> SUFFICES ASSUME NEW p \in Servers, NEW q \in Servers, p # q,
                      NEW k \in Places(Log(board'[p]), Sent(q)')
               PROVE  \E j \in 1 .. Got(p, q)' :
                        j \in DOMAIN published'[q] /\ Log(board'[p])[k] = published'[q][j]
    BY DEF GotFirst
  <2>1. CASE p # s
    <3>1. Log(board'[p]) = Log(board[p]) /\ Sent(q)' = Sent(q) /\ Got(p, q)' = Got(p, q)
      BY <1>11, <1>14, <1>15, <2>1
    <3> QED BY <1>9, <3>1 DEF Contents, GotFirst
  <2>2. CASE p = s
    <3>1. k \in DOMAIN Log(board'[s]) /\ Log(board'[s])[k] \in Sent(q)
      BY <1>14, <2>2 DEF Places
    <3>2. \/ Log(board'[s])[k] = m /\ m \in Sent(q)
          \/ k \in Places(Log(board[s]), Sent(q)) /\ Log(board'[s])[k] = Log(board[s])[k]
      <4>1. CASE Log(board'[s])[k] = m
        BY <3>1, <4>1
      <4>2. CASE k \in DOMAIN Log(board[s]) /\ Log(board'[s])[k] = Log(board[s])[k]
        BY <3>1, <4>2 DEF Places
      <4> QED BY <1>6, <1>11, <3>1, <4>1, <4>2, AppendParts
    <3>3. CASE Log(board'[s])[k] = m /\ m \in Sent(q)
      <4>1. q = r /\ Got(s, q)' = n + 1
        BY <1>5, <1>16, <3>3
      <4>2. n + 1 \in 1 .. n + 1
        OBVIOUS
      <4> QED BY <1>4, <1>5, <1>9, <2>2, <3>3, <4>1, <4>2
    <3>4. CASE k \in Places(Log(board[s]), Sent(q)) /\ Log(board'[s])[k] = Log(board[s])[k]
      <4>1. PICK j \in 1 .. Got(s, q) :
              j \in DOMAIN published[q] /\ Log(board[s])[k] = published[q][j]
        BY <2>2, <3>4 DEF Contents, GotFirst
      <4>2. j \in 1 .. Got(s, q)'
        <5>1. Got(s, q) \in Nat
          BY GotType
        <5> QED BY <1>3, <1>16, <5>1
      <4> QED BY <1>9, <2>2, <3>4, <4>1, <4>2
    <3> QED BY <3>2, <3>3, <3>4
  <2> QED BY <2>1, <2>2
<1>23. HandIsNext'
  <2> SUFFICES ASSUME NEW p \in Servers, Parsing(p)'
               PROVE  \E q \in Servers \ {p} :
                        /\ Got(p, q)' + 1 \in DOMAIN published'[q]
                        /\ resp'[p].body = <<published'[q][Got(p, q)' + 1]>>
    BY DEF HandIsNext
  <2>1. p # s /\ Parsing(p)
    BY <1>13
  <2> QED BY <1>9, <1>12, <1>15, <2>1 DEF HandIsNext
<1>24. Channels(own)'
  <2> SUFFICES ASSUME NEW p \in Servers, NEW d \in Held(p)'
               PROVE  Channel(p, d, own[Peer(d)])'
    BY DEF Channels
  <2>0. d \in Held(p)
    BY <1>9 DEF Held
  <2>1. d \in Endpoints
    BY <2>0, HeldSlot
  <2>2. PICK q \in Servers : q = own[Peer(d)]
    BY <2>1, PeerOfPeer
  <2>3. Channel(p, d, q)
    BY <2>0, <2>2 DEF Channels
  <2>4. Pending(q, Peer(d))' = Pending(q, Peer(d))
    BY <1>9 DEF Pending
  <2>5. Got(p, q)' + Hand(p, q)' = Got(p, q) + Hand(p, q)
    BY <1>15, <1>17
  <2>6. Channel(p, d, q)'
    BY <1>9, <2>3, <2>4, <2>5, ChannelKept
  <2> QED BY <2>2, <2>6
<1>25. Mesh(own)'
  BY <1>18, <1>19, <1>20, <1>21, <1>22, <1>23, <1>24 DEF Contents
<1> QED BY <1>2, <1>3, <1>4, <1>11, <1>25

\* A text published is on no board, in no hands and in no other message yet.
LEMMA NewText ==
  ASSUME SessionInv, Contents, HandIsNext, NEW t \in Texts, Unpublished(t)
  PROVE  /\ \A r \in Servers : \A x \in Sent(r) : x.msg # <<t>>
         /\ \A s \in Servers : \A k \in DOMAIN Log(board[s]) : Log(board[s])[k].msg # <<t>>
         /\ \A s \in Servers : Parsing(s) => resp[s].body[1].msg # <<t>>
<1>1. \A r \in Servers : \A x \in Sent(r) : x.msg # <<t>>
  BY DEF Unpublished, Sent, Elems
<1>2. \A s \in Servers : \A k \in DOMAIN Log(board[s]) : Log(board[s])[k].msg # <<t>>
  BY <1>1 DEF Contents, Logs
<1>3. \A s \in Servers : Parsing(s) => resp[s].body[1].msg # <<t>>
  BY <1>1, InHand
<1> QED BY <1>1, <1>2, <1>3

\* A message published is the last of the server's own, and is still to be sent
\* on each of its sessions.
LEMMA MeshPublish ==
  ASSUME BoardsSuffice, NEW own \in [Endpoints -> Servers], MeshInv(own),
         NEW s \in Servers, NEW t \in Texts, publish_message(s, t)
  PROVE  /\ Mesh(own)'
         /\ published' = [published EXCEPT
              ![s] = Append(@, [lc |-> lc[s] + 1, msg |-> <<t>>])]
         /\ Log(board'[s]) = Append(Log(board[s]), [lc |-> lc[s] + 1, msg |-> <<t>>])
<1> USE DEF MeshInv, Mesh
<1>1. PICK m : m = [lc |-> lc[s] + 1, msg |-> <<t>>]
  OBVIOUS
<1>2. m \in Entry /\ m.msg = <<t>> /\ m.msg # <<>> /\ m.lc = lc[s] + 1
  <2>1. lc[s] + 1 \in Nat
    BY MeshTypes
  <2> QED BY <1>1, <2>1 DEF Entry, Msgs
<1>3. /\ pc[s] = "loop" /\ Unpublished(t)
      /\ pc' = [pc EXCEPT ![s] = "distribute"]
      /\ board' = [board EXCEPT ![s] = add_message(board[s], m.lc, m.msg)]
      /\ published' = [published EXCEPT ![s] = Append(published[s], m)]
      /\ i' = [i EXCEPT ![s] = 1]
      /\ resp'[s].type = "SMESSAGES"
      /\ \A r \in Servers \ {s} : resp'[r] = resp[r]
      /\ UNCHANGED <<starts, sockets, inbox, open, backlog>>
  <2>1. lc'[s] = lc[s] + 1
    BY MeshTypes DEF publish_message
  <2> QED BY <1>1, <1>2, <2>1, MeshTypes DEF publish_message, network, budget
<1>4. /\ pc'[s] = "distribute" /\ i'[s] = 1 /\ published'[s] = Append(published[s], m)
      /\ \A r \in Servers \ {s} :
           pc'[r] = pc[r] /\ i'[r] = i[r] /\ published'[r] = published[r]
      /\ \A r : r \notin Servers => (pc'[r] # "off" => pc[r] # "off")
  BY <1>3, MeshTypes
<1>5. /\ \A r \in Servers : m \notin Sent(r)
      /\ \A p \in Servers : \A k \in DOMAIN Log(board[p]) :
           Log(board[p])[k] # m /\ Log(board[p])[k].msg # <<t>>
      /\ \A p \in Servers : Parsing(p) => resp[p].body[1] # m
  BY <1>2, <1>3, NewText
<1>6. num_messages(board[s]) < M
  BY <1>5, RoomOnBoard
<1>7. /\ Log(board'[s]) = Append(Log(board[s]), m)
      /\ Filled(board'[s])
      /\ \A p \in Servers \ {s} : board'[p] = board[p]
      /\ Log(board[s]) \in Seq(Entry)
  BY <1>2, <1>3, <1>6, LogGrows
<1>8. published[s] \in Seq(Entry)
  BY MeshTypes
<1>9. Sent(s)' = Sent(s) \cup {m}
  <2> DEFINE q == published[s]
  <2>1. Elems(Append(q, m)) = Elems(q) \cup {m}
    <3> HIDE DEF q
    <3> SUFFICES ASSUME q \in Seq(Entry) PROVE Elems(Append(q, m)) = Elems(q) \cup {m}
      BY <1>8 DEF q
    <3>1. /\ \A k \in DOMAIN Append(q, m) :
                \/ k = Len(q) + 1 /\ Append(q, m)[k] = m
                \/ k \in DOMAIN q /\ Append(q, m)[k] = q[k]
          /\ \A k \in DOMAIN q : k \in DOMAIN Append(q, m) /\ Append(q, m)[k] = q[k]
          /\ Len(q) + 1 \in DOMAIN Append(q, m) /\ Append(q, m)[Len(q) + 1] = m
      BY <1>2, AppendParts
    <3> QED BY <3>1 DEF Elems
  <2> QED BY <1>4, <2>1 DEF Sent
<1>10. \A q \in Servers \ {s} : Sent(q)' = Sent(q)
  BY <1>4 DEF Sent
<1>11. ~ Parsing(s) /\ ~ Parsing(s)' /\ \A p \in Servers \ {s} : Parsing(p)' = Parsing(p)
  BY <1>3, <1>4 DEF Parsing
<1>12. \A p \in Servers \ {s}, q \in Servers :
         Got(p, q)' = Got(p, q) /\ Hand(p, q)' = Hand(p, q)
  <2> SUFFICES ASSUME NEW p \in Servers \ {s}, NEW q \in Servers
               PROVE  Got(p, q)' = Got(p, q) /\ Hand(p, q)' = Hand(p, q)
    OBVIOUS
  <2>1. board'[p] = board[p] /\ resp'[p] = resp[p]
    BY <1>3, <1>7
  <2>2. CASE q # s
    BY <1>10, <1>11, <2>1, <2>2 DEF Got, Hand
  <2>3. CASE q = s
    <3>1. Count(Log(board[p]), Sent(s)) = Count(Log(board[p]), Sent(s)')
      <4>1. \A k \in DOMAIN Log(board[p]) :
              Log(board[p])[k] \in Sent(s) <=> Log(board[p])[k] \in Sent(s)'
        BY <1>5, <1>9
      <4> QED BY <4>1, CountSame
    <3>2. Got(p, s)' = Got(p, s)
      BY <2>1, <3>1 DEF Got
    <3>3. Parsing(p) => (resp[p].body[1] \in Sent(s)' <=> resp[p].body[1] \in Sent(s))
      BY <1>5, <1>9
    <3>4. Hand(p, s)' = Hand(p, s)
      BY <1>11, <2>1, <3>3 DEF Hand
    <3> QED BY <2>3, <3>2, <3>4
  <2> QED BY <2>2, <2>3
<1>13. \A q \in Servers \ {s} : Got(s, q)' = Got(s, q) /\ Hand(s, q)' = Hand(s, q)
  <2> SUFFICES ASSUME NEW q \in Servers \ {s}
               PROVE  Got(s, q)' = Got(s, q) /\ Hand(s, q)' = Hand(s, q)
    OBVIOUS
  <2>1. Got(s, q)' = Count(Append(Log(board[s]), m), Sent(q))
    BY <1>7, <1>10 DEF Got
  <2>2. Got(s, q)' = Got(s, q)
    BY <1>2, <1>5, <1>7, <2>1, CountAppend DEF Got
  <2> QED BY <1>11, <2>2 DEF Hand
<1>14. /\ Len(published'[s]) = Len(published[s]) + 1
       /\ Len(published[s]) \in Nat
       /\ published'[s][Len(published[s]) + 1] = m
       /\ \A j \in DOMAIN published[s] :
            j \in DOMAIN published'[s] /\ published'[s][j] = published[s][j]
       /\ \A j \in DOMAIN published'[s] :
            \/ j = Len(published[s]) + 1 /\ published'[s][j] = m
            \/ j \in DOMAIN published[s] /\ published'[s][j] = published[s][j]
  BY <1>2, <1>4, <1>8, AppendParts
<1>15. \A q \in Servers : \A j \in DOMAIN published[q] :
         j \in DOMAIN published'[q] /\ published'[q][j] = published[q][j]
  BY <1>4, <1>14
<1>16. Running'
  BY <1>3, <1>4 DEF Running
<1>17. Sessions(own)'
  <2>1. \A r : pc'[r] # "off" => pc[r] # "off"
    BY <1>3, <1>4
  <2> QED BY <1>3, <2>1, SessionsKept
<1>18. OnceSent'
  <2>1. \A q \in Servers : \A j \in DOMAIN published'[q] :
          \/ q = s /\ j = Len(published[s]) + 1 /\ published'[q][j] = m
          \/ j \in DOMAIN published[q] /\ published'[q][j] = published[q][j]
    BY <1>4, <1>14
  <2>2. \A q \in Servers : \A j \in DOMAIN published[q] : published[q][j].msg # <<t>>
    BY <1>3 DEF Unpublished
  <2> SUFFICES ASSUME NEW r \in Servers, NEW q \in Servers,
                      NEW j \in DOMAIN published'[r], NEW k \in DOMAIN published'[q]
               PROVE  /\ \E u \in Texts : published'[r][j].msg = <<u>>
                      /\ published'[r][j].msg = published'[q][k].msg => r = q /\ j = k
    BY DEF OnceSent
  <2>3. \/ r = s /\ j = Len(published[s]) + 1 /\ published'[r][j] = m
        \/ j \in DOMAIN published[r] /\ published'[r][j] = published[r][j]
    BY <2>1
  <2>4. \/ q = s /\ k = Len(published[s]) + 1 /\ published'[q][k] = m
        \/ k \in DOMAIN published[q] /\ published'[q][k] = published[q][k]
    BY <2>1
  <2>5. \E u \in Texts : published'[r][j].msg = <<u>>
    BY <1>2, <2>3 DEF Contents, OnceSent
  <2>6. published'[r][j].msg = published'[q][k].msg => r = q /\ j = k
    BY <1>2, <2>2, <2>3, <2>4 DEF Contents, OnceSent
  <2> QED BY <2>5, <2>6
<1>19. Logs'
  <2> SUFFICES ASSUME NEW p \in Servers
               PROVE  /\ Filled(board'[p])
                      /\ \A k \in DOMAIN Log(board'[p]) :
                           \E q \in Servers : Log(board'[p])[k] \in Sent(q)'
                      /\ \A j, k \in DOMAIN Log(board'[p]) :
                           Log(board'[p])[j] = Log(board'[p])[k] => j = k
    BY DEF Logs
  <2>0. \A q \in Servers : Sent(q) \subseteq Sent(q)'
    BY <1>9, <1>10
  <2>1. CASE p = s
    <3>1. \A k \in DOMAIN Log(board'[s]) : \E q \in Servers : Log(board'[s])[k] \in Sent(q)'
      <4> SUFFICES ASSUME NEW k \in DOMAIN Log(board'[s])
                   PROVE  \E q \in Servers : Log(board'[s])[k] \in Sent(q)'
        OBVIOUS
      <4>1. CASE Log(board'[s])[k] = m
        BY <1>9, <4>1
      <4>2. CASE k \in DOMAIN Log(board[s]) /\ Log(board'[s])[k] = Log(board[s])[k]
        BY <2>0, <4>2 DEF Contents, Logs
      <4> QED BY <1>2, <1>7, <4>1, <4>2, AppendParts
    <3>2. \A j, k \in DOMAIN Log(board'[s]) : Log(board'[s])[j] = Log(board'[s])[k] => j = k
      <4>1. \A j, k \in DOMAIN Log(board[s]) : Log(board[s])[j] = Log(board[s])[k] => j = k
        BY DEF Contents, Logs
      <4>2. \A k \in DOMAIN Log(board[s]) : Log(board[s])[k] # m
        BY <1>5
      <4> QED BY <1>2, <1>7, <4>1, <4>2, StaysOnce
    <3> QED BY <1>7, <2>1, <3>1, <3>2
  <2>2. CASE p # s
    <3>1. board'[p] = board[p]
      BY <1>7, <2>2
    <3>2. \A k \in DOMAIN Log(board[p]) : \E q \in Servers : Log(board[p])[k] \in Sent(q)'
      BY <2>0 DEF Contents, Logs
    <3> QED BY <3>1, <3>2 DEF Contents, Logs
  <2> QED BY <2>1, <2>2
<1>20. GotFirst'
  <2> SUFFICES ASSUME NEW p \in Servers, NEW q \in Servers, p # q,
                      NEW k \in Places(Log(board'[p]), Sent(q)')
               PROVE  \E j \in 1 .. Got(p, q)' :
                        j \in DOMAIN published'[q] /\ Log(board'[p])[k] = published'[q][j]
    BY DEF GotFirst
  <2>1. Got(p, q)' = Got(p, q)
    BY <1>12, <1>13
  <2>2. k \in Places(Log(board[p]), Sent(q)) /\ Log(board'[p])[k] = Log(board[p])[k]
    <3>1. CASE p = s
      <4>1. k \in DOMAIN Log(board'[s]) /\ Log(board'[s])[k] \in Sent(q)
        BY <1>10, <3>1 DEF Places
      <4>2. m \notin Sent(q)
        BY <1>5
      <4>3. CASE Log(board'[s])[k] = m
        BY <4>1, <4>2, <4>3
      <4>4. CASE k \in DOMAIN Log(board[s]) /\ Log(board'[s])[k] = Log(board[s])[k]
        BY <3>1, <4>1, <4>4 DEF Places
      <4> QED BY <1>2, <1>7, <4>1, <4>3, <4>4, AppendParts
    <3>2. CASE p # s
      <4>1. board'[p] = board[p]
        BY <1>7, <3>2
      <4>2. k \in DOMAIN Log(board[p]) /\ Log(board[p])[k] \in Sent(q)'
        BY <4>1 DEF Places
      <4>3. Log(board[p])[k] \in Sent(q)
        BY <1>5, <1>9, <1>10, <4>2
      <4> QED BY <4>1, <4>2, <4>3 DEF Places
    <3> QED BY <3>1, <3>2
  <2>3. PICK j \in 1 .. Got(p, q) :
          j \in DOMAIN published[q] /\ Log(board[p])[k] = published[q][j]
    BY <2>2 DEF Contents, GotFirst
  <2> QED BY <1>15, <2>1, <2>2, <2>3
<1>21. HandIsNext'
  <2> SUFFICES ASSUME NEW p \in Servers, Parsing(p)'
               PROVE  \E q \in Servers \ {p} :
                        /\ Got(p, q)' + 1 \in DOMAIN published'[q]
                        /\ resp'[p].body = <<published'[q][Got(p, q)' + 1]>>
    BY DEF HandIsNext
  <2>1. p # s /\ Parsing(p) /\ resp'[p] = resp[p]
    BY <1>3, <1>11
  <2>2. PICK q \in Servers \ {p} : /\ Got(p, q) + 1 \in DOMAIN published[q]
                                   /\ resp[p].body = <<published[q][Got(p, q) + 1]>>
    BY <2>1 DEF HandIsNext
  <2>3. Got(p, q)' = Got(p, q)
    BY <1>12, <2>1
  <2> QED BY <1>15, <2>1, <2>2, <2>3
<1>22. Channels(own)'
  <2> SUFFICES ASSUME NEW p \in Servers, NEW d \in Held(p)'
               PROVE  Channel(p, d, own[Peer(d)])'
    BY DEF Channels
  <2>0. d \in Held(p)
    BY <1>3 DEF Held
  <2>1. d \in Endpoints /\ own[Peer(d)] # p
    BY <2>0, HeldSlot DEF Sessions
  <2>2. PICK q \in Servers : q = own[Peer(d)]
    BY <2>1, PeerOfPeer
  <2>3. Channel(p, d, q) /\ q # p
    BY <2>0, <2>1, <2>2 DEF Channels
  <2>5. Got(p, q)' + Hand(p, q)' = Got(p, q) + Hand(p, q)
    BY <1>12, <1>13, <2>3
  <2>6. CASE q # s
    <3>1. Pending(q, Peer(d))' = Pending(q, Peer(d))
      BY <1>3, <1>4, <2>6 DEF Pending
    <3>2. Channel(p, d, q)'
      BY <1>3, <1>4, <2>3, <2>5, <2>6, <3>1, ChannelKept
    <3> QED BY <2>2, <3>2
  <2>7. CASE q = s
    <3>1. PICK n \in Nat : n = Got(p, s) + Hand(p, s)
      <4>1. Got(p, s) \in Nat /\ Hand(p, s) \in Nat
        BY GotType, HandType
      <4> QED BY <4>1
    <3>2. Pending(s, Peer(d)) = 0
      BY <1>3 DEF Pending
    <3>3. Pending(s, Peer(d))' = 1
      <4>0. own[Peer(d)] = s /\ pc[own[Peer(d)]] # "off"
        BY <1>3, <2>2, <2>7
      <4>1. PICK k \in DOMAIN sockets[s] : sockets[s][k] = Peer(d)
        BY <2>0, <4>0, PartnerHolds
      <4>2. 1 <= k
        BY MeshTypes
      <4> QED BY <1>3, <1>4, <4>1, <4>2 DEF Pending
    <3>4. /\ n + Len(inbox[d]) <= Len(published[s])
          /\ \A j \in DOMAIN inbox[d] :
               inbox[d][j] = [type |-> "SMESSAGES", body |-> <<published[s][n + j]>>]
          /\ n + Len(inbox[d]) + 0 = Len(published[s])
      BY <1>3, <2>3, <2>7, <3>1, <3>2 DEF Channel
    <3>5. inbox[d] \in Seq(Frame) /\ Len(inbox[d]) \in Nat
      BY <2>1, MeshTypes
    <3>6. \A j \in DOMAIN inbox'[d] :
            inbox'[d][j] = [type |-> "SMESSAGES", body |-> <<published'[s][n + j]>>]
      <4> SUFFICES ASSUME NEW j \in DOMAIN inbox[d]
                   PROVE  inbox[d][j] = [type |-> "SMESSAGES", body |-> <<published'[s][n + j]>>]
        BY <1>3
      <4>1. j \in 1 .. Len(inbox[d])
        BY <3>5
      <4>2. n + j \in 1 .. Len(published[s])
        BY <1>14, <3>1, <3>4, <3>5, <4>1
      <4>3. published'[s][n + j] = published[s][n + j]
        BY <1>8, <1>14, <4>2
      <4> QED BY <3>4, <4>3
    <3>7. Got(p, s)' + Hand(p, s)' = n
      BY <2>5, <2>7, <3>1
    <3>8. /\ n + Len(inbox'[d]) <= Len(published'[s])
          /\ n + Len(inbox'[d]) + Pending(s, Peer(d))' = Len(published'[s])
      BY <1>3, <1>14, <3>1, <3>3, <3>4, <3>5
    <3>9. Channel(p, d, s)'
      BY <3>6, <3>7, <3>8 DEF Channel
    <3> QED BY <2>2, <2>7, <3>9
  <2> QED BY <2>6, <2>7
<1>23. Mesh(own)'
  BY <1>16, <1>17, <1>18, <1>19, <1>20, <1>21, <1>22 DEF Contents
<1> QED BY <1>1, <1>3, <1>7, <1>23
-----------------------------------------------------------------------------
(* The invariant *)

\* The steps that servers past their start-up can take.
LEMMA MeshSteps ==
  ASSUME NEW own \in [Endpoints -> Servers], MeshInv(own), [Next]_vars
  PROVE  \/ UNCHANGED <<starts, pc, backlog, resp, sockets, i, inbox, open, board, published>>
         \/ \E s \in Servers :
              \/ distribute_message(s) \/ distribute_done(s) \/ add_done(s)
              \/ \E k \in DOMAIN sockets[s] : read_smessages(s, k) \/ read_closed(s, k)
              \/ add_smessages(s) \/ stop(s)
              \/ \E t \in Texts : publish_message(s, t)
<1> USE DEF MeshInv, Mesh
<1>1. CASE UNCHANGED vars
  BY <1>1 DEF vars
<1>2. ASSUME NEW s \in Servers, join(s) \/ lapse(s)
      PROVE  UNCHANGED <<starts, pc, backlog, resp, sockets, i, inbox, open, board, published>>
  BY <1>2 DEF join, lapse, memory, buffers, network, budget
<1>3. ASSUME NEW s \in Servers, start(s) PROVE FALSE
  BY <1>3, ClusterAssumption DEF start, Running
<1>4. ASSUME NEW s \in Servers, Startup(s) \/ accept(s) PROVE FALSE
  <2>1. pc[s] \in {"off", "add", "loop", "distribute"} /\ backlog[s] = <<>>
    BY DEF Running
  <2> QED BY <1>4, <2>1 DEF Startup, get_servers, register, connect_msgservs, request_messages,
                           request_fails, await_frame, await_closed, request_done,
                           accept
<1>5. ASSUME NEW s \in Servers, NEW k \in DOMAIN sockets[s], send_messages_to_msgserv(s, k)
      PROVE  FALSE
  <2>1. PICK e : e = sockets[s][k]
    OBVIOUS
  <2>2. e # NULL /\ inbox[e] # <<>> /\ Head(inbox[e]).type = "SGET_MESSAGES"
    BY <1>5, <2>1 DEF send_messages_to_msgserv, Ready, Readable
  <2>3. e \in Held(s) /\ e \in Endpoints /\ inbox[e] \in Seq(Frame)
    BY <2>1, <2>2, HeldSlot, MeshTypes
  <2>4. Channel(s, e, own[Peer(e)])
    BY <2>3 DEF Channels
  <2>5. 1 \in DOMAIN inbox[e] /\ Head(inbox[e]) = inbox[e][1]
    BY <2>2, <2>3
  <2>6. inbox[e][1].type = "SMESSAGES"
    <3>1. PICK n : \A j \in DOMAIN inbox[e] :
            inbox[e][j] = [type |-> "SMESSAGES", body |-> <<published[own[Peer(e)]][n + j]>>]
      BY <2>4 DEF Channel
    <3>2. inbox[e][1] = [type |-> "SMESSAGES", body |-> <<published[own[Peer(e)]][n + 1]>>]
      BY <2>5, <3>1
    <3> QED BY <3>2
  <2> QED BY <2>2, <2>5, <2>6
<1> QED BY <1>1, <1>2, <1>3, <1>4, <1>5 DEF Next, Run, ServePeer, Finish, Environment

\* From a state of the mesh, every step leads to another.
LEMMA MeshStep ==
  ASSUME BoardsSuffice, NEW own \in [Endpoints -> Servers], MeshInv(own), [Next]_vars
  PROVE  MeshInv(own)'
<1>1. SessionInv'
  BY OwnedStep, TypeStep, ClockStep, DistributeStep DEF MeshInv, SessionInv, ClusterInv
<1>2. Mesh(own)'
  BY MeshSteps, MeshStutter, MeshDistribute, MeshDistributeDone, MeshAddDone, MeshRead,
     MeshClosed, MeshAdd, MeshStop, MeshPublish
<1> QED BY <1>1, <1>2 DEF MeshInv

LEMMA MeshInitially ==
  ASSUME NEW own \in [Endpoints -> Servers], MeshStart(own)
  PROVE  MeshInv(own)
<1> USE DEF MeshStart
<1>1. SessionInv
  <2>1. ClockCoversBoard
    BY DEF ClockCoversBoard, TypeOK, EmptyBoard, Empty
  <2>2. DistributesThePublished /\ WaitsOnce
    BY DEF DistributesThePublished, WaitsOnce
  <2> QED BY <2>1, <2>2 DEF SessionInv, ClusterInv
<1>2. Running
  BY DEF Running
<1>3. \A s \in Servers : Log(board[s]) = <<>> /\ Filled(board[s])
  BY EmptyLog
<1>4. \A r \in Servers : Sent(r) = {}
  BY DEF Sent, Elems
<1>5. Contents /\ HandIsNext
  BY <1>3 DEF Contents, OnceSent, Logs, GotFirst, Places, HandIsNext, Parsing
<1>6. Channels(own)
  <2> SUFFICES ASSUME NEW s \in Servers, NEW e \in Held(s)
               PROVE  Channel(s, e, own[Peer(e)])
    BY DEF Channels
  <2>1. e \in Endpoints /\ inbox[e] = <<>>
    BY <1>1, HeldSlot
  <2>2. PICK r \in Servers : r = own[Peer(e)]
    BY <2>1, PeerOfPeer
  <2>3. Got(s, r) = 0
    <3>1. Places(<<>>, Sent(r)) = {}
      BY DEF Places
    <3> QED BY <1>3, <3>1, FS_EmptySet DEF Got, Count
  <2>4. Hand(s, r) = 0 /\ Pending(r, Peer(e)) = 0
    BY DEF Hand, Parsing, Pending
  <2>5. published[r] = <<>>
    OBVIOUS
  <2>6. Channel(s, e, r)
    BY <2>1, <2>3, <2>4, <2>5 DEF Channel
  <2> QED BY <2>2, <2>6
<1> QED BY <1>1, <1>2, <1>5, <1>6 DEF MeshInv, Mesh
-----------------------------------------------------------------------------
(* The refinement *)

\* A state without messages is where the broadcast starts.
LEMMA BroadcastInit ==
  ASSUME NEW own, MeshStart(own)
  PROVE  Broadcast!Init
<1> USE DEF MeshStart
<1>1. {s \in Servers : pc[s] # "off"} = Servers
  OBVIOUS
<1>2. published = [s \in Servers |-> <<>>]
  BY DEF TypeOK
<1>3. [s \in Servers |-> Log(board[s])] = [s \in Servers |-> <<>>]
  BY EmptyLog
<1> QED BY <1>1, <1>2, <1>3 DEF Broadcast!Init

\* A step that neither stores, publishes nor stops anything is no step of the
\* broadcast.
LEMMA QuietStep ==
  ASSUME UNCHANGED <<board, published>>,
         \A s \in Servers : pc'[s] # "off" <=> pc[s] # "off"
  PROVE  UNCHANGED Broadcast!vars
BY DEF Broadcast!vars

\* A publication broadcasts the message, under a clock later than all it has.
LEMMA PublishBroadcasts ==
  ASSUME BoardsSuffice, Nat \ {0} \subseteq Clocks,
         NEW own \in [Endpoints -> Servers], MeshInv(own),
         NEW s \in Servers, NEW t \in Texts, publish_message(s, t)
  PROVE  \E c \in Clocks : Broadcast!Broadcast(s, t, c)
<1>0. PICK c : c = lc[s] + 1
  OBVIOUS
<1> DEFINE Delivered == [r \in Servers |-> Log(board[r])]
           m == [lc |-> c, msg |-> <<t>>]
<1>1. SessionInv
  BY DEF MeshInv
<1>2. lc[s] \in Nat /\ c \in Clocks
  BY <1>0, <1>1, MeshTypes
<1>3. /\ published' = [published EXCEPT ![s] = Append(@, m)]
      /\ Log(board'[s]) = Append(Log(board[s]), m)
  BY <1>0, MeshPublish
<1>4. /\ pc[s] = "loop" /\ pc' = [pc EXCEPT ![s] = "distribute"] /\ Unpublished(t)
      /\ \A r \in Servers \ {s} : board'[r] = board[r]
  BY <1>1, MeshTypes DEF publish_message
<1>5. {r \in Servers : pc'[r] # "off"} = {r \in Servers : pc[r] # "off"}
  BY <1>1, <1>4, MeshTypes
<1>6. Broadcast!Fresh(t)
  BY <1>4 DEF Unpublished, Broadcast!Fresh, Broadcast!Elements
<1>7. \A x \in Broadcast!Elements(Delivered[s]) : x.lc < c
  <2> SUFFICES ASSUME NEW k \in DOMAIN Log(board[s]) PROVE Log(board[s])[k].lc < c
    BY DEF Broadcast!Elements
  <2>1. /\ board[s] \in [Slots -> Entry] /\ num_messages(board[s]) \in 0 .. M
        /\ k \in 1 .. num_messages(board[s]) /\ Log(board[s])[k] = board[s][k - 1]
    BY <1>1, MeshTypes, LogType
  <2>2. k - 1 \in Slots
    BY <2>1, MAssumption DEF Slots
  <2>3. board[s][k - 1].lc <= lc[s] /\ board[s][k - 1].lc \in Nat
    BY <1>1, <2>1, <2>2 DEF SessionInv, ClusterInv, ClockCoversBoard, Entry
  <2> QED BY <1>0, <1>2, <2>1, <2>3
<1>8. Delivered' = [Delivered EXCEPT ![s] = Append(@, m)]
  BY <1>3, <1>4
<1>9. Broadcast!Broadcast(s, t, c)
  <2> HIDE DEF Delivered
  <2> QED BY <1>3, <1>4, <1>5, <1>6, <1>7, <1>8 DEF Broadcast!Broadcast, Delivered
<1> QED BY <1>2, <1>9

\* FifoBroadcast counts as this module does.
LEMMA SameCardinality ==
  ASSUME NEW S
  PROVE  Broadcast!Cardinality(S) = Cardinality(S)
BY DEF Broadcast!Cardinality, Cardinality, Broadcast!IsFiniteSet, IsFiniteSet

\* A record stored is the next of its publisher's messages, delivered.
LEMMA AddDelivers ==
  ASSUME BoardsSuffice, NEW own \in [Endpoints -> Servers], MeshInv(own),
         NEW s \in Servers, add_smessages(s)
  PROVE  \E r \in Servers : Broadcast!Deliver(s, r)
<1> DEFINE Delivered == [r \in Servers |-> Log(board[r])]
<1>1. SessionInv
  BY DEF MeshInv
<1>2. PICK r \in Servers \ {s} :
        /\ Got(s, r) + 1 \in DOMAIN published[r]
        /\ Log(board'[s]) = Append(Log(board[s]), published[r][Got(s, r) + 1])
  BY MeshAdd
<1>3. /\ pc[s] = "add" /\ UNCHANGED <<pc, published>>
      /\ \A q \in Servers \ {s} : board'[q] = board[q]
  BY <1>1, MeshTypes DEF add_smessages
<1>4. Broadcast!Received(s, r) = Got(s, r)
  <2>1. Broadcast!Elements(published[r]) = Sent(r)
    BY DEF Broadcast!Elements, Sent, Elems
  <2>2. {k \in DOMAIN Delivered[s] : Delivered[s][k] \in Broadcast!Elements(published[r])}
          = Places(Log(board[s]), Sent(r))
    BY <2>1 DEF Places
  <2>3. Broadcast!Received(s, r) =
          Cardinality({k \in DOMAIN Delivered[s] :
                         Delivered[s][k] \in Broadcast!Elements(published[r])})
    BY SameCardinality DEF Broadcast!Received
  <2> QED BY <2>2, <2>3 DEF Got, Count
<1>5. Broadcast!Received(s, r) < Len(published[r])
  <2>1. Got(s, r) \in Nat /\ published[r] \in Seq(Entry)
    BY <1>1, GotType, SentType
  <2> QED BY <1>2, <1>4, <2>1
<1>6. Delivered' = [Delivered EXCEPT ![s] = Append(@, published[r][Got(s, r) + 1])]
  BY <1>2, <1>3
<1>7. Broadcast!Deliver(s, r)
  <2> HIDE DEF Delivered
  <2> QED BY <1>3, <1>4, <1>5, <1>6 DEF Broadcast!Deliver, Delivered
<1> QED BY <1>7

\* A server that stops is a crash.
LEMMA StopCrashes ==
  ASSUME NEW own \in [Endpoints -> Servers], MeshInv(own), NEW s \in Servers, stop(s)
  PROVE  Broadcast!Crash(s)
<1>1. Log(board'[s]) = <<>>
  BY MeshStop
<1>2. SessionInv
  BY DEF MeshInv
<1>3. /\ pc[s] # "off" /\ pc' = [pc EXCEPT ![s] = "off"] /\ UNCHANGED published
      /\ \A q \in Servers \ {s} : board'[q] = board[q]
  BY <1>2, MeshTypes DEF stop
<1>4. {r \in Servers : pc'[r] # "off"} = {r \in Servers : pc[r] # "off"} \ {s}
  BY <1>2, <1>3, MeshTypes
<1>5. [r \in Servers |-> Log(board'[r])] =
        [[r \in Servers |-> Log(board[r])] EXCEPT ![s] = <<>>]
  BY <1>1, <1>3
<1> QED BY <1>3, <1>4, <1>5 DEF Broadcast!Crash

\* The steps that only move messages.
LEMMA StaysUp ==
  ASSUME SessionInv, NEW s \in Servers,
         \/ distribute_message(s) \/ distribute_done(s) \/ add_done(s)
         \/ \E k \in DOMAIN sockets[s] : read_smessages(s, k) \/ read_closed(s, k)
  PROVE  UNCHANGED <<board, published>> /\ \A r \in Servers : pc'[r] # "off" <=> pc[r] # "off"
<1>1. UNCHANGED <<board, published>>
  BY DEF distribute_message, distribute_done, add_done, read_smessages, read_closed, memory
<1>2. pc[s] # "off" /\ (pc' = pc \/ pc' = [pc EXCEPT ![s] = "loop"] \/ pc' = [pc EXCEPT ![s] = "add"])
  BY DEF distribute_message, distribute_done, add_done, read_smessages, read_closed, Ready
<1>3. \A r \in Servers : pc'[r] # "off" <=> pc[r] # "off"
  BY <1>2, MeshTypes
<1> QED BY <1>1, <1>3

\* Every step of the servers is one of the broadcast, or none.
LEMMA BroadcastStep ==
  ASSUME BoardsSuffice, Nat \ {0} \subseteq Clocks,
         NEW own \in [Endpoints -> Servers], MeshInv(own), [Next]_vars
  PROVE  [Broadcast!Next]_(Broadcast!vars)
<1>1. SessionInv
  BY DEF MeshInv
<1>2. CASE UNCHANGED <<starts, pc, backlog, resp, sockets, i, inbox, open, board, published>>
  BY <1>2, QuietStep
<1>3. ASSUME NEW s \in Servers,
             \/ distribute_message(s) \/ distribute_done(s) \/ add_done(s)
             \/ \E k \in DOMAIN sockets[s] : read_smessages(s, k) \/ read_closed(s, k)
      PROVE  UNCHANGED Broadcast!vars
  BY <1>1, <1>3, StaysUp, QuietStep
<1>4. ASSUME NEW s \in Servers,
             add_smessages(s) \/ stop(s) \/ \E t \in Texts : publish_message(s, t)
      PROVE  Broadcast!Next
  <2>1. \/ \E t \in Texts, c \in Clocks : Broadcast!Broadcast(s, t, c)
        \/ \E r \in Servers : Broadcast!Deliver(s, r)
        \/ Broadcast!Crash(s)
    BY <1>4, AddDelivers, StopCrashes, PublishBroadcasts
  <2> QED BY <2>1 DEF Broadcast!Next
<1> QED BY <1>2, <1>3, <1>4, MeshSteps

\* Any number of servers, from any state in which they have sessions with each
\* other and nothing is under way, broadcast their messages to each other: what
\* COMMMSGSERV_distribute_message and add_smessages are there for, as long as
\* no board is full and no server is launched.
THEOREM MeshRefinesBroadcast ==
  ASSUME BoardsSuffice, Nat \ {0} \subseteq Clocks, NEW own \in [Endpoints -> Servers]
  PROVE  MeshStart(own) /\ [][Next]_vars => RefinesBroadcast
<1>1. MeshStart(own) => Broadcast!Init /\ MeshInv(own)
  BY BroadcastInit, MeshInitially
<1>2. MeshInv(own) /\ [Next]_vars => MeshInv(own)'
  BY MeshStep
<1>3. MeshInv(own) /\ [Next]_vars => [Broadcast!Next]_(Broadcast!vars)
  BY BroadcastStep
<1> QED BY <1>1, <1>2, <1>3, PTL DEF RefinesBroadcast, Broadcast!SafeSpec
-----------------------------------------------------------------------------
(* When nothing is under way *)

\* As many different places as there are values take every value.
LEMMA EveryValueTaken ==
  ASSUME NEW P, IsFiniteSet(P), NEW n \in Nat, Cardinality(P) = n, NEW f \in [P -> 1 .. n],
         \A a, b \in P : f[a] = f[b] => a = b
  PROVE  \A j \in 1 .. n : \E a \in P : f[a] = j
<1> SUFFICES ASSUME NEW j \in 1 .. n, \A a \in P : f[a] # j PROVE FALSE
  OBVIOUS
<1>1. IsFiniteSet(1 .. n) /\ Cardinality(1 .. n) = n
  BY FS_Interval
<1>2. IsFiniteSet((1 .. n) \ {j}) /\ Cardinality((1 .. n) \ {j}) = n - 1
  BY <1>1, FS_RemoveElement
<1>3. f \in Injection(P, (1 .. n) \ {j})
  BY DEF Injection, IsInjective
<1>4. Cardinality(P) <= Cardinality((1 .. n) \ {j})
  BY <1>2, <1>3, FS_Injection
<1> QED BY <1>2, <1>4

\* The log of a board is what it stores.
LEMMA LogIsStored ==
  ASSUME SessionInv, Logs, NEW s \in Servers
  PROVE  Stored(s) = Elems(Log(board[s]))
<1>1. /\ num_messages(board[s]) \in 0 .. M
      /\ DOMAIN Log(board[s]) = 1 .. num_messages(board[s])
      /\ \A k \in 1 .. num_messages(board[s]) : Log(board[s])[k] = board[s][k - 1]
  BY MeshTypes, LogType
<1>2. ASSUME NEW k \in 1 .. num_messages(board[s]) PROVE k - 1 \in Used(board[s])
  <2>1. k - 1 \in Slots /\ k - 1 < num_messages(board[s])
    BY <1>1, MAssumption DEF Slots
  <2> QED BY <2>1 DEF Logs, Filled, Used
<1>3. ASSUME NEW k \in Used(board[s])
      PROVE  k + 1 \in 1 .. num_messages(board[s]) /\ (k + 1) - 1 = k
  <2>1. k \in Slots /\ k < num_messages(board[s])
    BY DEF Logs, Filled, Used
  <2> QED BY <1>1, <2>1, MAssumption DEF Slots
<1>4. Stored(s) = {board[s][k] : k \in Used(board[s])}
  BY DEF Stored
<1>5. ASSUME NEW x \in Stored(s) PROVE x \in Elems(Log(board[s]))
  <2>1. PICK k \in Used(board[s]) : x = board[s][k]
    BY <1>4, <1>5
  <2>2. PICK j \in 1 .. num_messages(board[s]) : j - 1 = k
    BY <1>3
  <2>3. Log(board[s])[j] = x /\ j \in DOMAIN Log(board[s])
    BY <1>1, <2>1, <2>2
  <2> QED BY <2>3 DEF Elems
<1>6. ASSUME NEW x \in Elems(Log(board[s])) PROVE x \in Stored(s)
  <2>1. PICK k \in DOMAIN Log(board[s]) : x = Log(board[s])[k]
    BY <1>6 DEF Elems
  <2>2. PICK j : j = k - 1
    OBVIOUS
  <2>3. j \in Used(board[s]) /\ x = board[s][j]
    BY <1>1, <1>2, <2>1, <2>2
  <2> QED BY <1>4, <2>3
<1> QED BY <1>5, <1>6

\* A server that got as many of another's messages as there are has them all.
LEMMA AllStored ==
  ASSUME NEW own, MeshInv(own), NEW s \in Servers, NEW r \in Servers, s # r,
         Got(s, r) = Len(published[r])
  PROVE  \A j \in DOMAIN published[r] : published[r][j] \in Stored(s)
<1> USE DEF MeshInv, Mesh
<1>1. PICK n \in Nat : n = Len(published[r]) /\ DOMAIN published[r] = 1 .. n
  BY SentType
<1>2. PICK log \in Seq(Entry) : log = Log(board[s])
  BY MeshTypes, LogType
<1>3. PICK P : P = Places(log, Sent(r))
  OBVIOUS
<1>4. IsFiniteSet(P) /\ Cardinality(P) = n
  BY <1>1, <1>2, <1>3, CountType DEF Got, Count
<1>5. \A k \in P : \E j \in 1 .. n : log[k] = published[r][j]
  <2> SUFFICES ASSUME NEW k \in P PROVE \E j \in 1 .. n : log[k] = published[r][j]
    OBVIOUS
  <2>1. k \in Places(Log(board[s]), Sent(r))
    BY <1>2, <1>3
  <2>2. PICK j \in 1 .. Got(s, r) : Log(board[s])[k] = published[r][j]
    BY <2>1 DEF Contents, GotFirst
  <2>3. j \in 1 .. n
    BY <1>1
  <2> QED BY <1>2, <2>2, <2>3
<1> DEFINE f == [k \in P |-> CHOOSE j \in 1 .. n : log[k] = published[r][j]]
<1>6. f \in [P -> 1 .. n] /\ \A k \in P : log[k] = published[r][f[k]]
  BY <1>5
<1>7. \A k \in P : k \in DOMAIN log
  BY <1>3 DEF Places
<1>8. \A a, b \in P : f[a] = f[b] => a = b
  <2> HIDE DEF f
  <2>1. \A a, b \in DOMAIN log : log[a] = log[b] => a = b
    BY <1>2 DEF Contents, Logs
  <2> SUFFICES ASSUME NEW a \in P, NEW b \in P, f[a] = f[b] PROVE a = b
    OBVIOUS
  <2>2. log[a] = log[b]
    BY <1>6
  <2> QED BY <1>7, <2>1, <2>2
<1> HIDE DEF f
<1>9. \A j \in 1 .. n : \E k \in P : f[k] = j
  BY <1>4, <1>6, <1>8, EveryValueTaken
<1>10. \A k \in DOMAIN log : log[k] \in Stored(s)
  BY <1>2, LogIsStored DEF Contents, Elems
<1> QED BY <1>1, <1>6, <1>7, <1>9, <1>10

\* When nothing is on a session and its ends are in their loops, each has all
\* that the other published.
LEMMA QuietStored ==
  ASSUME NEW own \in [Endpoints -> Servers], MeshInv(own), Quiet,
         NEW r \in Servers, NEW s \in Servers, NEW e \in Held(r), Peer(e) \in Held(s)
  PROVE  s # r /\ pc[r] = "loop" /\ Sent(r) \subseteq Stored(s)
<1> USE DEF MeshInv, Mesh
<1>1. e \in Endpoints /\ Peer(e) \in open /\ Peer(Peer(e)) = e /\ own[e] = r
  BY HeldSlot, PeerOfPeer DEF Sessions
<1>2. Channel(s, Peer(e), r) /\ s # r
  BY <1>1 DEF Channels, Sessions
<1>3. pc[r] = "loop" /\ pc[s] \in {"off", "loop"}
  <2>1. sockets[r] # <<>>
    BY DEF Held
  <2> QED BY <2>1 DEF Quiet, Running
<1>4. inbox[Peer(e)] = <<>>
  BY <1>1 DEF Quiet
<1>5. Hand(s, r) = 0 /\ Pending(r, Peer(Peer(e))) = 0
  BY <1>3 DEF Hand, Parsing, Pending
<1>6. Got(s, r) = Len(published[r])
  <2>1. Got(s, r) + Hand(s, r) + Len(inbox[Peer(e)]) + Pending(r, Peer(Peer(e)))
          = Len(published[r])
    BY <1>2, <1>3 DEF Channel
  <2>2. Len(inbox[Peer(e)]) = 0 /\ Got(s, r) \in Nat
    BY <1>4, GotType
  <2> QED BY <1>5, <2>1, <2>2
<1>7. \A j \in DOMAIN published[r] : published[r][j] \in Stored(s)
  BY <1>2, <1>6, AllStored
<1> QED BY <1>2, <1>3, <1>7 DEF Sent, Elems

\* Whenever nothing is under way between such servers, nothing is missing at the
\* other end of any session, whoever stopped in between.
THEOREM MeshPublishersHeard ==
  ASSUME BoardsSuffice, NEW own \in [Endpoints -> Servers]
  PROVE  MeshStart(own) /\ [][Next]_vars => []PublishersHeard
<1>1. MeshStart(own) => MeshInv(own)
  BY MeshInitially
<1>2. MeshInv(own) /\ [Next]_vars => MeshInv(own)'
  BY MeshStep
<1>3. MeshInv(own) => PublishersHeard
  <2> SUFFICES ASSUME MeshInv(own), Quiet, NEW r \in Servers, NEW s \in Servers,
                      NEW e \in Held(r), Peer(e) \in Held(s)
               PROVE  {published[r][k] : k \in DOMAIN published[r]} \subseteq Stored(s)
    BY DEF PublishersHeard
  <2> QED BY QuietStored DEF Sent, Elems
<1> QED BY <1>1, <1>2, <1>3, PTL

\* A server that runs has its own messages.
OwnStored ==
  \A s \in Servers : pc[s] # "off" =>
    \A k \in DOMAIN published[s] : published[s][k] \in Elems(Log(board[s]))

\* What joins the end of a log leaves the rest in it.
LEMMA ElemsGrow ==
  ASSUME NEW T, NEW q \in Seq(T), NEW x \in T
  PROVE  Elems(q) \cup {x} \subseteq Elems(Append(q, x))
<1>1. /\ \A k \in DOMAIN q : k \in DOMAIN Append(q, x) /\ Append(q, x)[k] = q[k]
      /\ Len(q) + 1 \in DOMAIN Append(q, x) /\ Append(q, x)[Len(q) + 1] = x
  BY AppendParts
<1>2. ASSUME NEW y \in Elems(q) \cup {x} PROVE \E k \in DOMAIN Append(q, x) : Append(q, x)[k] = y
  BY <1>1 DEF Elems
<1> QED BY <1>2 DEF Elems

LEMMA OwnStoredStep ==
  ASSUME BoardsSuffice, NEW own \in [Endpoints -> Servers], MeshInv(own), OwnStored,
         [Next]_vars
  PROVE  OwnStored'
<1>0. SessionInv
  BY DEF MeshInv
<1>1. CASE UNCHANGED <<starts, pc, backlog, resp, sockets, i, inbox, open, board, published>>
  BY <1>1 DEF OwnStored
<1>2. ASSUME NEW s \in Servers,
             \/ distribute_message(s) \/ distribute_done(s) \/ add_done(s)
             \/ \E k \in DOMAIN sockets[s] : read_smessages(s, k) \/ read_closed(s, k)
      PROVE  OwnStored'
  <2>1. UNCHANGED <<board, published>> /\ \A r \in Servers : pc'[r] # "off" => pc[r] # "off"
    BY <1>0, <1>2, StaysUp
  <2> QED BY <2>1 DEF OwnStored
<1>3. ASSUME NEW s \in Servers, stop(s) PROVE OwnStored'
  <2>1. /\ pc'[s] = "off" /\ UNCHANGED published
        /\ \A r \in Servers \ {s} : pc'[r] = pc[r] /\ board'[r] = board[r]
    BY <1>0, <1>3, MeshTypes DEF stop
  <2> QED BY <2>1 DEF OwnStored
<1>4. ASSUME NEW s \in Servers, add_smessages(s) PROVE OwnStored'
  <2>1. PICK r \in Servers \ {s} :
          /\ Got(s, r) + 1 \in DOMAIN published[r]
          /\ Log(board'[s]) = Append(Log(board[s]), published[r][Got(s, r) + 1])
    BY <1>4, MeshAdd
  <2>2. UNCHANGED <<pc, published>> /\ \A q \in Servers \ {s} : board'[q] = board[q]
    BY <1>0, <1>4, MeshTypes DEF add_smessages
  <2>3. PICK m : m = published[r][Got(s, r) + 1]
    OBVIOUS
  <2>4. m \in Entry /\ Log(board[s]) \in Seq(Entry)
    BY <1>0, <2>1, <2>3, SentType, MeshTypes, LogType
  <2>5. Elems(Log(board[s])) \subseteq Elems(Log(board'[s]))
    BY <2>1, <2>3, <2>4, ElemsGrow
  <2> QED BY <2>2, <2>5 DEF OwnStored
<1>5. ASSUME NEW s \in Servers, NEW t \in Texts, publish_message(s, t) PROVE OwnStored'
  <2>1. PICK m : m = [lc |-> lc[s] + 1, msg |-> <<t>>]
    OBVIOUS
  <2>2. /\ published' = [published EXCEPT ![s] = Append(@, m)]
        /\ Log(board'[s]) = Append(Log(board[s]), m)
    BY <1>5, <2>1, MeshPublish
  <2>3. m \in Entry /\ Log(board[s]) \in Seq(Entry) /\ published[s] \in Seq(Entry)
    <3>1. lc[s] + 1 \in Nat
      BY <1>0, MeshTypes
    <3>2. <<t>> \in Msgs
      BY DEF Msgs
    <3>3. m \in Entry
      BY <2>1, <3>1, <3>2 DEF Entry
    <3>4. board[s] \in [Slots -> Entry] /\ published[s] \in Seq(Entry)
      BY <1>0, MeshTypes
    <3> QED BY <3>3, <3>4, LogType
  <2>4. /\ pc[s] # "off" /\ published'[s] = Append(published[s], m)
        /\ \A r \in Servers \ {s} :
             pc'[r] = pc[r] /\ board'[r] = board[r] /\ published'[r] = published[r]
    BY <1>0, <1>5, <2>2, MeshTypes DEF publish_message
  <2>5. Elems(Log(board[s])) \cup {m} \subseteq Elems(Log(board'[s]))
    BY <2>2, <2>3, ElemsGrow
  <2>6. \A k \in DOMAIN published'[s] : published'[s][k] \in Elems(Log(board'[s]))
    <3>1. \A k \in DOMAIN published'[s] :
            \/ published'[s][k] = m
            \/ k \in DOMAIN published[s] /\ published'[s][k] = published[s][k]
      BY <2>3, <2>4, AppendParts
    <3> QED BY <2>4, <2>5, <3>1 DEF OwnStored
  <2> QED BY <2>4, <2>6 DEF OwnStored
<1> QED BY <1>1, <1>2, <1>3, <1>4, <1>5, MeshSteps

\* Servers that run, each with a session to each.
AllConnected == \A s, r \in Servers : pc[s] # "off" /\ (s # r => Connected(s, r))

\* When nothing is under way between them, they store the same.
LEMMA AllAgree ==
  ASSUME NEW own \in [Endpoints -> Servers], MeshInv(own), OwnStored, Quiet, AllConnected,
         NEW s \in Servers
  PROVE  Stored(s) = UNION {Sent(r) : r \in Servers}
<1> USE DEF MeshInv, Mesh
<1>1. Stored(s) = Elems(Log(board[s]))
  BY LogIsStored DEF Contents
<1>2. Elems(Log(board[s])) \subseteq UNION {Sent(r) : r \in Servers}
  BY DEF Contents, Logs, Elems
<1>3. ASSUME NEW r \in Servers PROVE Sent(r) \subseteq Stored(s)
  <2>1. CASE r = s
    BY <1>1, <2>1 DEF OwnStored, AllConnected, Sent, Elems
  <2>2. CASE r # s
    <3>1. PICK e \in Held(r) : Peer(e) \in Held(s)
      BY <2>2 DEF AllConnected, Connected
    <3> QED BY <3>1, QuietStored
  <2> QED BY <2>1, <2>2
<1> QED BY <1>1, <1>2, <1>3

\* Servers that all run and have sessions with each other store the same messages
\* with the same clocks whenever nothing is under way, for any number of servers.
THEOREM MeshAgrees ==
  ASSUME BoardsSuffice, NEW own \in [Endpoints -> Servers]
  PROVE  MeshStart(own) /\ [][Next]_vars =>
           [](Quiet /\ AllConnected => \A s, r \in Servers : Stored(s) = Stored(r))
<1>1. MeshStart(own) => MeshInv(own) /\ OwnStored
  BY MeshInitially DEF MeshStart, OwnStored
<1>2. MeshInv(own) /\ OwnStored /\ [Next]_vars => MeshInv(own)' /\ OwnStored'
  BY MeshStep, OwnStoredStep
<1>3. MeshInv(own) /\ OwnStored =>
        (Quiet /\ AllConnected => \A s, r \in Servers : Stored(s) = Stored(r))
  BY AllAgree
<1> QED BY <1>1, <1>2, <1>3, PTL
=============================================================================
