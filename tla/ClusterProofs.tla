---------------------------- MODULE ClusterProofs ----------------------------
(***************************************************************************)
(* What holds in every cluster, for any number of servers, any boards and  *)
(* any number of launches, crashes and publications: the types, that a     *)
(* server's clock covers its board, that what a server distributes is what *)
(* it was asked to publish, that each end of a TCP session has one owner,  *)
(* and that a server sent the list connects to every other server on it.   *)
(***************************************************************************)
EXTENDS Cluster, StoreProofs

\* The list of the ID server, in any order, is a sequence of servers.
LEMMA OrderingsType ==
  ASSUME registry \subseteq Servers, NEW list \in Orderings(registry)
  PROVE  list \in Seq(Servers)
<1>1. IsFiniteSet(registry)
  BY ClusterAssumption, FS_Subset
<1>2. Cardinality(registry) \in Nat
  BY <1>1, FS_CardinalityType
<1>3. list \in [1 .. Cardinality(registry) -> Servers]
  BY DEF Orderings
<1> QED BY <1>2, <1>3

\* The first record of a frame that has any ends somewhere in the frame.
LEMMA EndOfRecordType ==
  ASSUME NEW body \in Seq(Entry), body # <<>>
  PROVE  EndOfRecord(body) \in 1 .. Len(body)
<1>1. CASE \E k \in DOMAIN body : body[k].msg # <<>>
  <2> DEFINE T == {k \in DOMAIN body : body[k].msg # <<>>}
  <2>1. T \in SUBSET Nat /\ T # {}
    BY <1>1
  <2>2. PICK k \in T : \A j \in T : k <= j
    BY <2>1, NatMin
  <2>3. \A j \in 1 .. k - 1 : body[j].msg = <<>>
    BY <2>2
  <2>4. \E m \in DOMAIN body : body[m].msg # <<>> /\ \A j \in 1 .. m - 1 : body[j].msg = <<>>
    BY <2>2, <2>3
  <2>5. EndOfRecord(body) \in DOMAIN body
    BY <1>1, <2>4 DEF EndOfRecord
  <2> QED BY <2>5
<1>2. CASE ~ \E k \in DOMAIN body : body[k].msg # <<>>
  BY <1>2 DEF EndOfRecord
<1> QED BY <1>1, <1>2

LEMMA ConcatType ==
  ASSUME NEW T, NEW S \in SUBSET T, NEW p \in Seq(S), NEW q \in Seq(T)
  PROVE  p \o q \in Seq(T)
<1>1. p \in Seq(T)
  OBVIOUS
<1> QED BY <1>1

\* The record read from a frame is an entry: a clock and a text.
LEMMA FirstRecordType ==
  ASSUME NEW body \in Seq(Entry), body # <<>>
  PROVE  FirstRecord(body).lc \in Nat /\ FirstRecord(body).msg \in Msgs
<1> DEFINE n == EndOfRecord(body)
<1>1. n \in 1 .. Len(body)
  BY EndOfRecordType
<1>2. body[1] \in Entry /\ body[n] \in Entry
  BY <1>1
<1>3. [k \in 1 .. n - 1 |-> body[k + 1].lc] \in Seq(Nat)
  <2> HIDE DEF n
  <2>1. \A k \in 1 .. n - 1 : body[k + 1].lc \in Nat
    <3> SUFFICES ASSUME NEW k \in 1 .. n - 1 PROVE body[k + 1].lc \in Nat
      OBVIOUS
    <3>1. k + 1 \in 1 .. Len(body)
      BY <1>1
    <3>2. body[k + 1] \in Entry
      BY <3>1
    <3> QED BY <3>2 DEF Entry
  <2>2. n - 1 \in Nat
    BY <1>1
  <2> QED BY <2>1, <2>2
<1>4. [k \in 1 .. n - 1 |-> body[k + 1].lc] \o body[n].msg \in Msgs
  <2>1. body[n].msg \in Msgs
    BY <1>2 DEF Entry
  <2>2. Nat \subseteq Nat \cup Texts \cup {Blank}
    OBVIOUS
  <2> HIDE DEF n
  <2> QED BY <1>3, <2>1, <2>2, ConcatType DEF Msgs
<1> QED BY <1>2, <1>4 DEF FirstRecord, Entry

LEMMA RestOfType ==
  ASSUME NEW body \in Seq(Entry), body # <<>>
  PROVE  RestOf(body) \in Seq(Entry)
BY EndOfRecordType DEF RestOf

LEMMA ScannedType ==
  ASSUME NEW text \in Msgs, NEW old \in Msgs
  PROVE  Scanned(text, old) \in Msgs
<1>1. <<Blank>> \in Msgs
  BY DEF Msgs
<1> QED BY <1>1 DEF Scanned

\* A message added to a board is put in one slot, and the others are kept.
LEMMA AddMessage ==
  ASSUME NEW b \in [Slots -> Entry], NEW n \in Nat, NEW msg \in Msgs
  PROVE  /\ first_free_message_index(b) \in Slots
         /\ add_message(b, n, msg) \in [Slots -> Entry]
         /\ \A k \in Slots : add_message(b, n, msg)[k] =
              IF k = first_free_message_index(b) THEN [lc |-> n, msg |-> msg] ELSE b[k]
<1>1. \A k \in Slots : b[k].lc \in Nat
  BY DEF Entry
<1>2. first_free_message_index(b) \in Slots
  BY <1>1, FirstFreeIsSlot
<1>3. [lc |-> n, msg |-> msg] \in Entry
  BY DEF Entry
<1> QED BY <1>2, <1>3 DEF add_message

\* A clock no smaller than the board's and the new message's covers the board
\* the message is added to.
LEMMA AddCovered ==
  ASSUME NEW b \in [Slots -> Entry], NEW n \in Nat, NEW msg \in Msgs,
         NEW old \in Nat, \A k \in Slots : b[k].lc <= old,
         NEW new \in Nat, old <= new, n <= new
  PROVE  \A k \in Slots : add_message(b, n, msg)[k].lc <= new
<1> SUFFICES ASSUME NEW k \in Slots PROVE add_message(b, n, msg)[k].lc <= new
  OBVIOUS
<1>1. b[k].lc \in Nat /\ b[k].lc <= old
  BY DEF Entry
<1> DEFINE d == add_message(b, n, msg)
           f == first_free_message_index(b)
<1>2. d[k] = IF k = f THEN [lc |-> n, msg |-> msg] ELSE b[k]
  BY AddMessage
<1>3. d[k].lc <= new
  <2> HIDE DEF d, f
  <2>1. CASE k = f
    BY <1>2, <2>1
  <2>2. CASE k # f
    BY <1>1, <1>2, <2>2
  <2> QED BY <2>1, <2>2
<1> QED BY <1>3

\* The latest message of a board is the one just added, if its clock is later
\* than every other's.
LEMMA LatestIsAdded ==
  ASSUME NEW b \in [Slots -> Entry], NEW c \in Nat, \A k \in Slots : b[k].lc <= c,
         NEW msg \in Msgs
  PROVE  LET d == add_message(b, c + 1, msg)
         IN  d[latest_message_index(d)] = [lc |-> c + 1, msg |-> msg]
<1> DEFINE d == add_message(b, c + 1, msg)
           f == first_free_message_index(b)
           l == latest_message_index(d)
<1>1. /\ f \in Slots /\ d \in [Slots -> Entry]
      /\ \A k \in Slots : d[k] = IF k = f THEN [lc |-> c + 1, msg |-> msg] ELSE b[k]
  BY AddMessage
<1>2. \A k \in Slots : d[k].lc \in Nat /\ d[k].lc <= c + 1
  BY AddCovered, <1>1 DEF Entry
<1>3. l \in Slots /\ IsLatest(d, l)
  BY <1>2, LatestExists
<1>4. d[f].lc = c + 1 /\ \A k \in Slots : k # f => d[k].lc <= c
  <2> HIDE DEF d, f
  <2> QED BY <1>1
<1>5. l = f
  <2>1. d[f].lc < d[l].lc \/ d[l].lc = d[f].lc
    BY <1>1, <1>3 DEF IsLatest
  <2>2. d[l].lc \in Nat
    BY <1>2, <1>3
  <2> HIDE DEF d, f, l
  <2> QED BY <1>3, <1>4, <2>1, <2>2
<1> QED BY <1>1, <1>5

\* What a server sends as its board is a sequence of entries.
LEMMA ListingIsEntries ==
  ASSUME NEW b \in [Slots -> Entry], NEW c \in Nat, \A k \in Slots : b[k].lc <= c
  PROVE  listing(b, num_messages(b)) \in Seq(Entry)
<1>1. \A k \in Slots : b[k].lc \in Nat
  BY DEF Entry
<1>2. latest_message_index(b) \in Slots
  BY <1>1, LatestExists
<1>3. num_messages(b) \in 0 .. M
  BY NumMessagesBound
<1> QED BY <1>2, <1>3, ListingType
-----------------------------------------------------------------------------
\* The values the actions assign.
LEMMA Values ==
  /\ \A l \in {"off", "lookup", "register", "connect", "request", "await", "add",
               "loop", "distribute"} : l \in Labels
  /\ NoFrame \in Frame
  /\ [type |-> "SGET_MESSAGES", body |-> <<>>] \in Frame
  /\ \A body \in Seq(Entry) : [type |-> "SMESSAGES", body |-> body] \in Frame
  /\ <<>> \in Msgs
  /\ EmptyBoard \in [Slots -> Entry]
  /\ \A k \in Slots : EmptyBoard[k].lc = 0
<1>1. <<>> \in Msgs
  BY DEF Msgs
<1>2. <<>> \in Seq(Entry)
  OBVIOUS
<1>3. Empty \in Entry /\ Empty.lc = 0
  BY <1>1 DEF Empty, Entry
<1> QED BY <1>1, <1>2, <1>3 DEF Labels, NoFrame, Frame, EmptyBoard

\* An endpoint's peer is an endpoint.
LEMMA PeerType ==
  ASSUME NEW e \in Endpoints
  PROVE  Peer(e) \in Endpoints
BY DEF Peer, Endpoints

\* Writing a frame keeps the type of the queues.
LEMMA WriteType ==
  ASSUME inbox \in [Endpoints -> Seq(Frame)], NEW e \in Endpoints, NEW f \in Frame,
         Write(e, f)
  PROVE  inbox' \in [Endpoints -> Seq(Frame)]
<1>1. Peer(e) \in Endpoints
  BY PeerType
<1> QED BY <1>1 DEF Write

\* Closing endpoints does, too.
LEMMA CloseType ==
  ASSUME inbox \in [Endpoints -> Seq(Frame)], open \subseteq Endpoints, NEW E, Close(E)
  PROVE  inbox' \in [Endpoints -> Seq(Frame)] /\ open' \subseteq Endpoints
BY DEF Close

LEMMA SessionType ==
  ASSUME TypeOK, NEW s \in Servers, NEW k \in DOMAIN sockets[s], sockets[s][k] # NULL
  PROVE  sockets[s][k] \in Endpoints
BY DEF TypeOK
LEMMA IndexType ==
  ASSUME i \in [Servers -> Nat \ {0}], NEW s \in Servers,
         i' \in {i, [i EXCEPT ![s] = 1], [i EXCEPT ![s] = @ + 1]}
  PROVE  i' \in [Servers -> Nat \ {0}]
<1>1. i[s] + 1 \in Nat \ {0}
  OBVIOUS
<1> QED BY <1>1

\* Each step keeps the types, given that clocks cover boards.
LEMMA TypeStep ==
  ASSUME TypeOK, ClockCoversBoard, [Next]_vars
  PROVE  TypeOK'
<1> USE DEF memory, buffers, network, budget
<1>1. CASE UNCHANGED vars
  BY <1>1 DEF TypeOK, AwaitsASession, vars
<1>2. ASSUME NEW s \in Servers, lapse(s) PROVE TypeOK'
  BY <1>2 DEF TypeOK, AwaitsASession, lapse
<1>3. ASSUME NEW s \in Servers, join(s) PROVE TypeOK'
  BY <1>3 DEF TypeOK, AwaitsASession, join
<1>4. ASSUME NEW s \in Servers, start(s) PROVE TypeOK'
  BY <1>4, Values DEF TypeOK, AwaitsASession, start
<1>5. ASSUME NEW s \in Servers, stop(s) PROVE TypeOK'
  <2>1. AwaitsASession'
    BY <1>5 DEF TypeOK, AwaitsASession, stop
  <2>2. inbox' \in [Endpoints -> Seq(Frame)] /\ open' \subseteq Endpoints
    BY <1>5, CloseType DEF TypeOK, stop
  <2> QED BY <1>5, <2>1, <2>2, Values DEF TypeOK, stop
<1>6. ASSUME NEW s \in Servers, get_servers(s) PROVE TypeOK'
  <2>1. AwaitsASession'
    BY <1>6 DEF TypeOK, AwaitsASession, get_servers
  <2>2. server_list' \in [Servers -> Seq(Servers)]
    BY <1>6, OrderingsType DEF TypeOK, get_servers
  <2> QED BY <1>6, <2>1, <2>2, Values DEF TypeOK, get_servers
<1>7. ASSUME NEW s \in Servers, register(s) PROVE TypeOK'
  <2>1. AwaitsASession'
    BY <1>7 DEF TypeOK, AwaitsASession, register
  <2> QED BY <1>7, <2>1, Values DEF TypeOK, register
<1>8. ASSUME NEW s \in Servers, connect_msgservs(s) PROVE TypeOK'
  <2>1. AwaitsASession'
    BY <1>8 DEF TypeOK, AwaitsASession, connect_msgservs
  <2>2. server_list' \in [Servers -> Seq(Servers)] /\ Head(server_list[s]) \in Servers
    <3>1. server_list[s] \in Seq(Servers) /\ server_list[s] # <<>>
      BY <1>8 DEF TypeOK, connect_msgservs
    <3>2. Tail(server_list[s]) \in Seq(Servers) /\ Head(server_list[s]) \in Servers
      BY <3>1
    <3> QED BY <1>8, <3>2 DEF TypeOK, connect_msgservs
  <2> DEFINE c == CHOOSE c \in FreeConns : TRUE
  <2>3. FreeConns # {} => <<c, "connect">> \in Endpoints /\ <<c, "accept">> \in Endpoints
    <3>1. FreeConns # {} => c \in Conns
      BY DEF FreeConns
    <3> HIDE DEF c
    <3> QED BY <3>1 DEF Endpoints
  <2>4. /\ sockets' \in [Servers -> Seq(Endpoints \cup {NULL})]
        /\ backlog' \in [Servers -> Seq(Endpoints)]
        /\ open' \subseteq Endpoints
        /\ inbox' = inbox
    <3>1. CASE IsSelf(s, Head(server_list[s])) \/ ~ Listening(Head(server_list[s]))
      <4>1. /\ sockets' = [sockets EXCEPT ![s] = Append(@, NULL)]
            /\ backlog' = backlog /\ open' = open /\ inbox' = inbox
        BY <1>8, <3>1 DEF connect_msgservs
      <4>2. Append(sockets[s], NULL) \in Seq(Endpoints \cup {NULL})
        BY DEF TypeOK
      <4> QED BY <4>1, <4>2 DEF TypeOK
    <3>2. CASE ~ (IsSelf(s, Head(server_list[s])) \/ ~ Listening(Head(server_list[s])))
      <4>1. /\ FreeConns # {}
            /\ sockets' = [sockets EXCEPT ![s] = Append(@, <<c, "connect">>)]
            /\ backlog' = [backlog EXCEPT ![Head(server_list[s])] = Append(@, <<c, "accept">>)]
            /\ open' = open \cup {<<c, "connect">>, <<c, "accept">>}
            /\ inbox' = inbox
        BY <1>8, <3>2 DEF connect_msgservs
      <4> HIDE DEF c
      <4>2. /\ Append(sockets[s], <<c, "connect">>) \in Seq(Endpoints \cup {NULL})
            /\ Append(backlog[Head(server_list[s])], <<c, "accept">>) \in Seq(Endpoints)
        <5>1. <<c, "connect">> \in Endpoints /\ <<c, "accept">> \in Endpoints
          BY <2>3, <4>1
        <5>2. sockets[s] \in Seq(Endpoints \cup {NULL})
          BY DEF TypeOK
        <5>3. backlog[Head(server_list[s])] \in Seq(Endpoints)
          BY <2>2 DEF TypeOK
        <5> DEFINE e == <<c, "connect">>
                   a == <<c, "accept">>
        <5> HIDE DEF e, a
        <5>4. Append(sockets[s], e) \in Seq(Endpoints \cup {NULL})
          BY <5>1, <5>2 DEF e
        <5>5. Append(backlog[Head(server_list[s])], a) \in Seq(Endpoints)
          BY <5>1, <5>3 DEF a
        <5> QED BY <5>4, <5>5 DEF e, a
      <4> QED BY <2>2, <2>3, <4>1, <4>2 DEF TypeOK
    <3> QED BY <3>1, <3>2
  <2>5. pc' \in [Servers -> Labels]
    BY <1>8 DEF TypeOK, connect_msgservs, Labels
  <2>6. i' \in [Servers -> Nat \ {0}]
    <3>1. i' \in {i, [i EXCEPT ![s] = 1], [i EXCEPT ![s] = @ + 1]}
      BY <1>8 DEF connect_msgservs
    <3> QED BY <3>1, IndexType DEF TypeOK
  <2> QED BY <1>8, <2>1, <2>2, <2>4, <2>5, <2>6 DEF TypeOK, connect_msgservs
<1>9. ASSUME NEW s \in Servers, request_messages(s) PROVE TypeOK'
  <2>1. AwaitsASession'
    BY <1>9 DEF TypeOK, AwaitsASession, request_messages
  <2>2. inbox' \in [Endpoints -> Seq(Frame)]
    BY <1>9, WriteType, SessionType, Values DEF TypeOK, request_messages
  <2>3. pc' \in [Servers -> Labels]
    BY <1>9 DEF TypeOK, request_messages, Labels
  <2>4. i' \in [Servers -> Nat \ {0}]
    <3>1. i' \in {i, [i EXCEPT ![s] = 1], [i EXCEPT ![s] = @ + 1]}
      BY <1>9 DEF request_messages
    <3> QED BY <3>1, IndexType DEF TypeOK
  <2> QED BY <1>9, <2>1, <2>2, <2>3, <2>4 DEF TypeOK, request_messages
<1>10. ASSUME NEW s \in Servers, await_frame(s) PROVE TypeOK'
  <2>1. AwaitsASession'
    BY <1>10 DEF TypeOK, AwaitsASession, await_frame
  <2>2. sockets[s][i[s]] \in Endpoints
    BY <1>10, SessionType DEF TypeOK, AwaitsASession, await_frame
  <2>3. inbox' \in [Endpoints -> Seq(Frame)] /\ resp' \in [Servers -> Frame]
    BY <1>10, <2>2 DEF TypeOK, await_frame, Readable
  <2>4. pc' \in [Servers -> Labels]
    BY <1>10 DEF TypeOK, await_frame, Labels
  <2>5. i' \in [Servers -> Nat \ {0}]
    <3>1. i' \in {i, [i EXCEPT ![s] = 1], [i EXCEPT ![s] = @ + 1]}
      BY <1>10 DEF await_frame
    <3> QED BY <3>1, IndexType DEF TypeOK
  <2> QED BY <1>10, <2>1, <2>3, <2>4, <2>5 DEF TypeOK, await_frame
<1>11. ASSUME NEW s \in Servers, request_fails(s) \/ await_closed(s) PROVE TypeOK'
  <2>0. /\ NoAnswer(s) /\ i[s] \in DOMAIN sockets[s] /\ sockets[s][i[s]] # NULL
        /\ pc[s] \in {"request", "await"}
    BY <1>11 DEF TypeOK, AwaitsASession, request_fails, await_closed
  <2>1. AwaitsASession'
    BY <2>0 DEF TypeOK, AwaitsASession, NoAnswer
  <2>2. inbox' \in [Endpoints -> Seq(Frame)] /\ open' \subseteq Endpoints
    BY <2>0, CloseType DEF TypeOK, NoAnswer
  <2>3. sockets' \in [Servers -> Seq(Endpoints \cup {NULL})]
    <3>1. sockets[s] \in Seq(Endpoints \cup {NULL}) /\ i[s] \in DOMAIN sockets[s]
      BY <2>0 DEF TypeOK, AwaitsASession, NoAnswer
    <3>2. [sockets[s] EXCEPT ![i[s]] = NULL] \in Seq(Endpoints \cup {NULL})
      BY <3>1
    <3>3. sockets' \in {sockets, [sockets EXCEPT ![s] = [sockets[s] EXCEPT ![i[s]] = NULL]]}
      BY <2>0 DEF TypeOK, NoAnswer
    <3> QED BY <3>2, <3>3 DEF TypeOK
  <2>4. pc' \in [Servers -> Labels]
    BY <2>0 DEF TypeOK, NoAnswer, Labels
  <2>5. i' \in [Servers -> Nat \ {0}]
    <3>1. i' \in {i, [i EXCEPT ![s] = 1], [i EXCEPT ![s] = @ + 1]}
      BY <2>0 DEF NoAnswer
    <3> QED BY <3>1, IndexType DEF TypeOK
  <2> QED BY <2>0, <2>1, <2>2, <2>3, <2>4, <2>5 DEF TypeOK, NoAnswer
<1>12. ASSUME NEW s \in Servers, request_done(s) PROVE TypeOK'
  <2>1. AwaitsASession'
    BY <1>12 DEF TypeOK, AwaitsASession, request_done
  <2>2. pc' \in [Servers -> Labels]
    BY <1>12 DEF TypeOK, request_done, Labels
  <2>3. i' \in [Servers -> Nat \ {0}]
    <3>1. i' \in {i, [i EXCEPT ![s] = 1], [i EXCEPT ![s] = @ + 1]}
      BY <1>12 DEF request_done
    <3> QED BY <3>1, IndexType DEF TypeOK
  <2> QED BY <1>12, <2>1, <2>2, <2>3 DEF TypeOK, request_done
<1>13. ASSUME NEW s \in Servers, add_smessages(s) PROVE TypeOK'
  <2>1. AwaitsASession'
    BY <1>13 DEF TypeOK, AwaitsASession, add_smessages
  <2> DEFINE record == FirstRecord(resp[s].body)
             text == Scanned(record.msg, message[s])
  <2>2. resp[s].body \in Seq(Entry) /\ resp[s].body # <<>>
    BY <1>13 DEF TypeOK, Frame, add_smessages
  <2>3. RestOf(resp[s].body) \in Seq(Entry)
    BY <2>2, RestOfType
  <2>4. record.lc \in Nat /\ text \in Msgs
    <3>1. message[s] \in Msgs
      BY DEF TypeOK
    <3> QED BY <2>2, <3>1, FirstRecordType, ScannedType
  <2>5. add_message(board[s], record.lc, text) \in [Slots -> Entry]
    <3>1. board[s] \in [Slots -> Entry]
      BY DEF TypeOK
    <3> HIDE DEF record, text
    <3> QED BY <2>4, <3>1, AddMessage
  <2>6. Larger(record.lc, lc[s]) + 1 \in Nat
    BY <2>4 DEF TypeOK, Larger
  <2>7. /\ board' = [board EXCEPT ![s] = add_message(board[s], record.lc, text)]
        /\ lc' = [lc EXCEPT ![s] = Larger(record.lc, lc[s]) + 1]
        /\ message' = [message EXCEPT ![s] = text]
        /\ resp' = [resp EXCEPT ![s].body = RestOf(resp[s].body)]
    BY <1>13 DEF add_smessages
  <2>8. resp' \in [Servers -> Frame]
    BY <2>3, <2>7 DEF TypeOK, Frame
  <2>9. /\ board' \in [Servers -> [Slots -> Entry]]
        /\ lc' \in [Servers -> Nat]
        /\ message' \in [Servers -> Msgs]
    <3> HIDE DEF record, text
    <3> QED BY <2>4, <2>5, <2>6, <2>7 DEF TypeOK
  <2> QED BY <1>13, <2>1, <2>8, <2>9 DEF TypeOK, add_smessages
<1>14. ASSUME NEW s \in Servers, add_done(s) PROVE TypeOK'
  <2>1. AwaitsASession'
    BY <1>14 DEF TypeOK, AwaitsASession, add_done
  <2> QED BY <1>14, <2>1, Values DEF TypeOK, add_done
<1>15. ASSUME NEW s \in Servers, NEW t \in Texts, publish_message(s, t) PROVE TypeOK'
  <2>1. AwaitsASession'
    BY <1>15 DEF TypeOK, AwaitsASession, publish_message
  <2>2. lc[s] \in Nat /\ board[s] \in [Slots -> Entry] /\ \A k \in Slots : board[s][k].lc <= lc[s]
    BY DEF TypeOK, ClockCoversBoard
  <2>3. <<t>> \in Msgs
    BY DEF Msgs
  <2> DEFINE d == add_message(board[s], lc[s] + 1, <<t>>)
             e == [lc |-> lc[s] + 1, msg |-> <<t>>]
  <2>4. d \in [Slots -> Entry] /\ d[latest_message_index(d)] = e /\ e \in Entry
    <3>1. lc[s] + 1 \in Nat
      BY <2>2
    <3>2. e \in Entry
      BY <2>3, <3>1 DEF Entry
    <3>3. d \in [Slots -> Entry]
      BY <2>2, <2>3, <3>1, AddMessage
    <3>4. d[latest_message_index(d)] = e
      BY <2>2, <2>3, LatestIsAdded
    <3> QED BY <3>2, <3>3, <3>4
  <2>5. /\ lc' = [lc EXCEPT ![s] = lc[s] + 1]
        /\ board' = [board EXCEPT ![s] = d]
        /\ resp' = [resp EXCEPT ![s] = [type |-> "SMESSAGES",
                                        body |-> <<d[latest_message_index(d)]>>]]
        /\ published' = [published EXCEPT ![s] = Append(published[s], e)]
    BY <1>15 DEF TypeOK, publish_message
  <2>6. <<e>> \in Seq(Entry)
    <3> HIDE DEF e
    <3> QED BY <2>4
  <2>7. [type |-> "SMESSAGES", body |-> <<e>>] \in Frame
    BY <2>6, Values
  <2>8. /\ board' \in [Servers -> [Slots -> Entry]]
        /\ lc' \in [Servers -> Nat]
        /\ resp' \in [Servers -> Frame]
        /\ published' \in [Servers -> Seq(Entry)]
    <3> HIDE DEF d, e
    <3> QED BY <2>2, <2>4, <2>5, <2>7 DEF TypeOK
  <2>9. pc' \in [Servers -> Labels]
    BY <1>15 DEF TypeOK, publish_message, Labels
  <2>10. i' \in [Servers -> Nat \ {0}]
    <3>1. i' \in {i, [i EXCEPT ![s] = 1], [i EXCEPT ![s] = @ + 1]}
      BY <1>15 DEF publish_message
    <3> QED BY <3>1, IndexType DEF TypeOK
  <2> QED BY <1>15, <2>1, <2>8, <2>9, <2>10 DEF TypeOK, publish_message
<1>16. ASSUME NEW s \in Servers, distribute_message(s) PROVE TypeOK'
  <2>1. AwaitsASession'
    BY <1>16 DEF TypeOK, AwaitsASession, distribute_message
  <2>2. inbox' \in [Endpoints -> Seq(Frame)]
    BY <1>16, WriteType, SessionType DEF TypeOK, distribute_message
  <2> QED BY <1>16, <2>1, <2>2 DEF TypeOK, distribute_message
<1>17. ASSUME NEW s \in Servers, distribute_done(s) PROVE TypeOK'
  <2>1. AwaitsASession'
    BY <1>17 DEF TypeOK, AwaitsASession, distribute_done
  <2> QED BY <1>17, <2>1, Values DEF TypeOK, distribute_done
<1>18. ASSUME NEW s \in Servers, NEW k \in DOMAIN sockets[s], send_messages_to_msgserv(s, k)
       PROVE  TypeOK'
  <2>1. AwaitsASession'
    BY <1>18 DEF TypeOK, AwaitsASession, send_messages_to_msgserv
  <2> DEFINE f == [type |-> "SMESSAGES", body |-> listing(board[s], num_messages(board[s]))]
  <2>2. f \in Frame
    <3>1. lc[s] \in Nat /\ board[s] \in [Slots -> Entry] /\ \A j \in Slots : board[s][j].lc <= lc[s]
      BY DEF TypeOK, ClockCoversBoard
    <3> QED BY <3>1, ListingIsEntries, Values
  <2>3. sockets[s][k] \in Endpoints
    BY <1>18, SessionType DEF send_messages_to_msgserv, Ready
  <2>4. inbox' \in [Endpoints -> Seq(Frame)]
    <3> HIDE DEF f
    <3>1. \A d \in Endpoints : inbox[d] \in Seq(Frame) /\ Append(inbox[d], f) \in Seq(Frame)
                               /\ (inbox[d] # <<>> => Tail(inbox[d]) \in Seq(Frame))
      BY <2>2 DEF TypeOK
    <3> QED BY <1>18, <2>3, <3>1 DEF send_messages_to_msgserv, Readable, f
  <2>5. omitted' \subseteq {"stored", "unread"}
    BY <1>18 DEF TypeOK, send_messages_to_msgserv, LeftOut
  <2> QED BY <1>18, <2>1, <2>4, <2>5 DEF TypeOK, send_messages_to_msgserv
<1>19. ASSUME NEW s \in Servers, NEW k \in DOMAIN sockets[s], read_smessages(s, k)
       PROVE  TypeOK'
  <2>1. AwaitsASession'
    BY <1>19 DEF TypeOK, AwaitsASession, read_smessages
  <2>2. sockets[s][k] \in Endpoints
    BY <1>19, SessionType DEF read_smessages, Ready
  <2>3. inbox' \in [Endpoints -> Seq(Frame)] /\ resp' \in [Servers -> Frame]
    BY <1>19, <2>2 DEF TypeOK, read_smessages, Readable
  <2> QED BY <1>19, <2>1, <2>3, Values DEF TypeOK, read_smessages
<1>20. ASSUME NEW s \in Servers, NEW k \in DOMAIN sockets[s], read_closed(s, k)
       PROVE  TypeOK'
  <2>1. AwaitsASession'
    BY <1>20 DEF TypeOK, AwaitsASession, read_closed, Ready
  <2>2. inbox' \in [Endpoints -> Seq(Frame)] /\ open' \subseteq Endpoints
    BY <1>20, CloseType DEF TypeOK, read_closed
  <2> QED BY <1>20, <2>1, <2>2 DEF TypeOK, read_closed
<1>21. ASSUME NEW s \in Servers, accept(s) PROVE TypeOK'
  <2>1. AwaitsASession'
    BY <1>21 DEF TypeOK, AwaitsASession, accept
  <2> QED BY <1>21, <2>1 DEF TypeOK, accept
<1> QED
  BY <1>1, <1>2, <1>3, <1>4, <1>5, <1>6, <1>7, <1>8, <1>9, <1>10, <1>11, <1>12, <1>13,
     <1>14, <1>15, <1>16, <1>17, <1>18, <1>19, <1>20, <1>21
  DEF Next, Run, Startup, ServePeer, Finish, Environment

\* A step moves clocks forward with the boards they cover.  Only add_smessages,
\* publish_message and stop touch either.
LEMMA ClockStep ==
  ASSUME TypeOK, ClockCoversBoard, [Next]_vars
  PROVE  ClockCoversBoard'
<1> USE DEF memory
<1>1. CASE UNCHANGED vars
  BY <1>1 DEF ClockCoversBoard, vars
<1>2. CASE UNCHANGED memory
  BY <1>2 DEF ClockCoversBoard
<1>3. ASSUME NEW s \in Servers, stop(s) PROVE ClockCoversBoard'
  <2>1. lc'[s] = 0 /\ board'[s] = EmptyBoard
    BY <1>3 DEF TypeOK, stop
  <2>2. \A r \in Servers \ {s} : lc'[r] = lc[r] /\ board'[r] = board[r]
    BY <1>3 DEF TypeOK, stop
  <2> QED BY <2>1, <2>2, Values DEF ClockCoversBoard
<1>4. ASSUME NEW s \in Servers, add_smessages(s) PROVE ClockCoversBoard'
  <2> DEFINE record == FirstRecord(resp[s].body)
             text == Scanned(record.msg, message[s])
             d == add_message(board[s], record.lc, text)
             c == Larger(record.lc, lc[s]) + 1
  <2>1. board'[s] = d /\ lc'[s] = c
    BY <1>4 DEF TypeOK, add_smessages
  <2>2. \A r \in Servers \ {s} : lc'[r] = lc[r] /\ board'[r] = board[r]
    BY <1>4 DEF TypeOK, add_smessages
  <2>3. record.lc \in Nat /\ text \in Msgs
    <3>1. resp[s].body \in Seq(Entry) /\ resp[s].body # <<>> /\ message[s] \in Msgs
      BY <1>4 DEF TypeOK, Frame, add_smessages
    <3> QED BY <3>1, FirstRecordType, ScannedType
  <2>4. lc[s] \in Nat /\ board[s] \in [Slots -> Entry] /\ \A k \in Slots : board[s][k].lc <= lc[s]
    BY DEF TypeOK, ClockCoversBoard
  <2>5. c \in Nat /\ lc[s] <= c /\ record.lc <= c
    <3> HIDE DEF record
    <3> QED BY <2>3, <2>4 DEF Larger
  <2>6. \A k \in Slots : d[k].lc <= c
    <3> HIDE DEF record, text, c
    <3> QED BY <2>3, <2>4, <2>5, AddCovered
  <2> HIDE DEF d, c
  <2> QED BY <2>1, <2>2, <2>6 DEF ClockCoversBoard
<1>5. ASSUME NEW s \in Servers, NEW t \in Texts, publish_message(s, t) PROVE ClockCoversBoard'
  <2> DEFINE d == add_message(board[s], lc[s] + 1, <<t>>)
  <2>1. board'[s] = d /\ lc'[s] = lc[s] + 1
    BY <1>5 DEF TypeOK, publish_message
  <2>2. \A r \in Servers \ {s} : lc'[r] = lc[r] /\ board'[r] = board[r]
    BY <1>5 DEF TypeOK, publish_message
  <2>3. lc[s] \in Nat /\ board[s] \in [Slots -> Entry] /\ \A k \in Slots : board[s][k].lc <= lc[s]
    BY DEF TypeOK, ClockCoversBoard
  <2>4. <<t>> \in Msgs /\ lc[s] + 1 \in Nat /\ lc[s] <= lc[s] + 1
    BY <2>3 DEF Msgs
  <2>5. \A k \in Slots : d[k].lc <= lc[s] + 1
    BY <2>3, <2>4, AddCovered
  <2> HIDE DEF d
  <2> QED BY <2>1, <2>2, <2>5 DEF ClockCoversBoard
<1>6. ASSUME NEW s \in Servers, Startup(s) PROVE UNCHANGED memory
  BY <1>6 DEF Startup, get_servers, register, connect_msgservs, request_messages, request_fails,
              await_frame, await_closed, NoAnswer, request_done
<1>7. ASSUME NEW s \in Servers, ServePeer(s) PROVE UNCHANGED memory
  BY <1>7 DEF ServePeer, send_messages_to_msgserv, read_smessages, read_closed, accept
<1>8. ASSUME NEW s \in Servers, \/ add_done(s) \/ distribute_message(s) \/ distribute_done(s)
                               \/ lapse(s) \/ join(s) \/ start(s)
      PROVE  UNCHANGED memory
  BY <1>8 DEF add_done, distribute_message, distribute_done, lapse, join, start
<1> QED
  <2> HIDE DEF memory
  <2> QED BY <1>1, <1>2, <1>3, <1>4, <1>5, <1>6, <1>7, <1>8 DEF Next, Run, Finish, Environment

\* Between the publication and the end of its distribution nothing else writes
\* the frame, and no other publication is served.
LEMMA DistributeStep ==
  ASSUME TypeOK, ClockCoversBoard, DistributesThePublished, [Next]_vars
  PROVE  DistributesThePublished'
<1> USE DEF buffers
<1> DEFINE Kept(r) == pc'[r] = "distribute" =>
             pc[r] = "distribute" /\ resp'[r] = resp[r] /\ published'[r] = published[r]
<1>1. CASE \A r \in Servers : Kept(r)
  BY <1>1 DEF DistributesThePublished
<1>2. CASE UNCHANGED vars
  <2>1. \A r \in Servers : Kept(r)
    BY <1>2 DEF vars
  <2> QED BY <1>1, <2>1
<1>3. ASSUME NEW s \in Servers, NEW t \in Texts, publish_message(s, t)
      PROVE  DistributesThePublished'
  <2> DEFINE d == add_message(board[s], lc[s] + 1, <<t>>)
             e == [lc |-> lc[s] + 1, msg |-> <<t>>]
  <2>1. /\ lc[s] \in Nat /\ board[s] \in [Slots -> Entry] /\ published[s] \in Seq(Entry)
        /\ \A k \in Slots : board[s][k].lc <= lc[s]
    BY DEF TypeOK, ClockCoversBoard
  <2>2. <<t>> \in Msgs
    BY DEF Msgs
  <2>3. d[latest_message_index(d)] = e
    BY <2>1, <2>2, LatestIsAdded
  <2>4. /\ resp'[s].body = <<d[latest_message_index(d)]>>
        /\ published'[s] = Append(published[s], e)
    BY <1>3 DEF TypeOK, publish_message
  <2>5. e \in Entry
    BY <2>1, <2>2 DEF Entry
  <2>6. published'[s] # <<>> /\ published'[s][Len(published'[s])] = e
    <3> HIDE DEF e
    <3> QED BY <2>1, <2>4, <2>5
  <2>7. resp'[s].body = <<published'[s][Len(published'[s])]>>
    <3> HIDE DEF d, e
    <3> QED BY <2>3, <2>4, <2>6
  <2>8. \A r \in Servers \ {s} : Kept(r)
    BY <1>3 DEF TypeOK, publish_message
  <2> QED BY <2>6, <2>7, <2>8 DEF DistributesThePublished
<1>4. ASSUME NEW s \in Servers, lapse(s) PROVE \A r \in Servers : Kept(r)
  BY <1>4 DEF TypeOK, lapse
<1>5. ASSUME NEW s \in Servers, join(s) PROVE \A r \in Servers : Kept(r)
  BY <1>5 DEF TypeOK, join
<1>6. ASSUME NEW s \in Servers, start(s) PROVE \A r \in Servers : Kept(r)
  BY <1>6 DEF TypeOK, start
<1>7. ASSUME NEW s \in Servers, get_servers(s) PROVE \A r \in Servers : Kept(r)
  BY <1>7 DEF TypeOK, get_servers
<1>8. ASSUME NEW s \in Servers, register(s) PROVE \A r \in Servers : Kept(r)
  BY <1>8 DEF TypeOK, register
<1>9. ASSUME NEW s \in Servers, connect_msgservs(s) PROVE \A r \in Servers : Kept(r)
  BY <1>9 DEF TypeOK, connect_msgservs
<1>10. ASSUME NEW s \in Servers, request_messages(s) PROVE \A r \in Servers : Kept(r)
  BY <1>10 DEF TypeOK, request_messages
<1>11. ASSUME NEW s \in Servers, await_frame(s) PROVE \A r \in Servers : Kept(r)
  BY <1>11 DEF TypeOK, await_frame
<1>12. ASSUME NEW s \in Servers, request_fails(s) \/ await_closed(s)
      PROVE  \A r \in Servers : Kept(r)
  BY <1>12 DEF TypeOK, request_fails, await_closed, NoAnswer
<1>13. ASSUME NEW s \in Servers, request_done(s) PROVE \A r \in Servers : Kept(r)
  BY <1>13 DEF TypeOK, request_done
<1>14. ASSUME NEW s \in Servers, add_done(s) PROVE \A r \in Servers : Kept(r)
  BY <1>14 DEF TypeOK, add_done
<1>15. ASSUME NEW s \in Servers, distribute_message(s) PROVE \A r \in Servers : Kept(r)
  BY <1>15 DEF TypeOK, distribute_message
<1>16. ASSUME NEW s \in Servers, distribute_done(s) PROVE \A r \in Servers : Kept(r)
  BY <1>16 DEF TypeOK, distribute_done
<1>17. ASSUME NEW s \in Servers, accept(s) PROVE \A r \in Servers : Kept(r)
  BY <1>17 DEF TypeOK, accept
<1>18. ASSUME NEW s \in Servers, stop(s) PROVE \A r \in Servers : Kept(r)
  BY <1>18 DEF TypeOK, stop
<1>19. ASSUME NEW s \in Servers, add_smessages(s) PROVE \A r \in Servers : Kept(r)
  BY <1>19 DEF TypeOK, add_smessages
<1>20. ASSUME NEW s \in Servers, NEW k \in DOMAIN sockets[s], send_messages_to_msgserv(s, k)
      PROVE  \A r \in Servers : Kept(r)
  BY <1>20 DEF TypeOK, Ready, send_messages_to_msgserv
<1>21. ASSUME NEW s \in Servers, NEW k \in DOMAIN sockets[s], read_smessages(s, k)
      PROVE  \A r \in Servers : Kept(r)
  BY <1>21 DEF TypeOK, Ready, read_smessages
<1>22. ASSUME NEW s \in Servers, NEW k \in DOMAIN sockets[s], read_closed(s, k)
      PROVE  \A r \in Servers : Kept(r)
  BY <1>22 DEF TypeOK, Ready, read_closed
<1> HIDE DEF Kept
<1> QED
  BY <1>1, <1>2, <1>3, <1>4, <1>5, <1>6, <1>7, <1>8, <1>9, <1>10, <1>11, <1>12,
     <1>13, <1>14, <1>15, <1>16, <1>17, <1>18, <1>19, <1>20, <1>21, <1>22
  DEF Next, Run, Startup, ServePeer, Finish, Environment

\* The inductive invariant.  The types need the clocks (a server's board is
\* sent as entries only if its latest entry exists) and the frame that is
\* distributed needs both.
ClusterInv == TypeOK /\ ClockCoversBoard /\ DistributesThePublished

LEMMA ClusterInit == Init => ClusterInv
<1> SUFFICES ASSUME Init PROVE ClusterInv
  OBVIOUS
<1>1. AwaitsASession /\ DistributesThePublished
  BY DEF Init, AwaitsASession, DistributesThePublished
<1>2. TypeOK
  BY <1>1, Values DEF Init, TypeOK
<1>3. ClockCoversBoard
  BY Values DEF Init, ClockCoversBoard
<1> QED BY <1>1, <1>2, <1>3 DEF ClusterInv

\* Whatever the servers, the users and the ID server do, the invariant stays.
THEOREM ClusterInvariant == Spec => []ClusterInv
<1>1. Init => ClusterInv
  BY ClusterInit
<1>2. ClusterInv /\ [Next]_vars => ClusterInv'
  BY TypeStep, ClockStep, DistributeStep DEF ClusterInv
<1> QED BY <1>1, <1>2, PTL DEF Spec

\* Every variable stays in its type: in particular a server that waits for an
\* answer waits on a session it still has, and every frame is of entries.
THEOREM ClusterTypeOK == Spec => []TypeOK
BY ClusterInvariant, PTL DEF ClusterInv

\* A server's clock is never behind a message it stores (msgserv.c,
\* comm_msgserv.c:466-474), whichever way the message came.
THEOREM ClusterClockCoversBoard == Spec => []ClockCoversBoard
BY ClusterInvariant, PTL DEF ClusterInv

\* COMMMSGSERV_distribute_message sends "the latest message" of the board; it
\* is the one just published, whatever other servers have sent before.
THEOREM ClusterDistributesThePublished == Spec => []DistributesThePublished
BY ClusterInvariant, PTL DEF ClusterInv

-----------------------------------------------------------------------------
(* Sessions: each end has one owner, from connect() to close(). *)

\* A connection that waits to be accepted waits once.
WaitsOnce ==
  \A s, r \in Servers : \A k \in DOMAIN backlog[s], j \in DOMAIN backlog[r] :
    backlog[s][k] = backlog[r][j] => s = r /\ k = j

\* Each end of a session is in one place.  That a waiting one is there once
\* is what keeps it single when it is accepted.
SessionInv == ClusterInv /\ SessionsOwned /\ WaitsOnce

-----------------------------------------------------------------------------
(* Queues *)

\* A queue that something joined.
LEMMA AppendParts ==
  ASSUME NEW T, NEW q \in Seq(T), NEW x \in T
  PROVE  /\ \A k \in DOMAIN Append(q, x) :
              \/ k = Len(q) + 1 /\ Append(q, x)[k] = x
              \/ k \in DOMAIN q /\ Append(q, x)[k] = q[k]
         /\ \A k \in DOMAIN q : k \in DOMAIN Append(q, x) /\ Append(q, x)[k] = q[k]
         /\ Len(q) + 1 \in DOMAIN Append(q, x) /\ Append(q, x)[Len(q) + 1] = x
OBVIOUS

\* The head of a queue that is not empty, and what is left behind it.
LEMMA HeadAndTail ==
  ASSUME NEW T, NEW q \in Seq(T), q # <<>>
  PROVE  /\ Head(q) \in T /\ Head(q) = q[1] /\ 1 \in DOMAIN q
         /\ Tail(q) \in Seq(T)
         /\ \A k \in DOMAIN Tail(q) : k + 1 \in DOMAIN q /\ Tail(q)[k] = q[k + 1] /\ k + 1 # 1
         /\ \A k \in DOMAIN q : k # 1 => k - 1 \in DOMAIN Tail(q) /\ Tail(q)[k - 1] = q[k]
         /\ \A j, k \in DOMAIN Tail(q) : j + 1 = k + 1 => j = k
OBVIOUS

-----------------------------------------------------------------------------
(* What the parts of an action do to the owners *)

\* The three parts of SessionsOwned, for one endpoint each.
OwnedSocket(s, k) ==
  sockets[s][k] # NULL =>
    /\ sockets[s][k] \in open
    /\ \A r \in Servers :
         /\ sockets[s][k] \notin Waiting(r)
         /\ \A j \in DOMAIN sockets[r] : sockets[r][j] = sockets[s][k] => r = s /\ j = k

LEMMA OwnersByPart ==
  SessionsOwned <=> /\ \A s \in Servers : \A k \in DOMAIN sockets[s] : OwnedSocket(s, k)
                    /\ \A e \in open : \E s \in Servers : e \in Held(s) \cup Waiting(s)
                    /\ \A s \in Servers : Waiting(s) \subseteq open
BY DEF SessionsOwned, OwnedSocket

\* A skipped line of the list gets an entry, but no session.
LEMMA SkipOwned ==
  ASSUME SessionInv, NEW s \in Servers, sockets' = [sockets EXCEPT ![s] = Append(@, NULL)],
         UNCHANGED <<open, backlog>>
  PROVE  SessionsOwned' /\ WaitsOnce'
<1>0. sockets \in [Servers -> Seq(Endpoints \cup {NULL})] /\ SessionsOwned /\ WaitsOnce
  BY DEF SessionInv, ClusterInv, TypeOK
<1>1. /\ sockets'[s] = Append(sockets[s], NULL)
      /\ \A r \in Servers \ {s} : sockets'[r] = sockets[r]
  BY <1>0
<1>2. \A r \in Servers : \A k \in DOMAIN sockets'[r] :
        sockets'[r][k] # NULL => k \in DOMAIN sockets[r] /\ sockets'[r][k] = sockets[r][k]
  BY <1>0, <1>1
<1>3. \A r \in Servers : \A k \in DOMAIN sockets[r] :
        k \in DOMAIN sockets'[r] /\ sockets'[r][k] = sockets[r][k]
  BY <1>0, <1>1
<1>4. \A r \in Servers : Held(r)' = Held(r) /\ Waiting(r)' = Waiting(r)
  BY <1>2, <1>3 DEF Held, Waiting
<1>5. ASSUME NEW r \in Servers, NEW k \in DOMAIN sockets'[r]
      PROVE  OwnedSocket(r, k)'
  BY <1>0, <1>2, <1>4, OwnersByPart DEF OwnedSocket
<1> QED BY <1>0, <1>4, <1>5 DEF SessionsOwned, OwnedSocket, WaitsOnce

\* A session that ends at one server is nobody else's.
LEMMA ForgetOwned ==
  ASSUME SessionInv, NEW s \in Servers, NEW k \in DOMAIN sockets[s], sockets[s][k] # NULL,
         sockets' = [sockets EXCEPT ![s][k] = NULL], open' = open \ {sockets[s][k]},
         UNCHANGED backlog
  PROVE  SessionsOwned' /\ WaitsOnce'
<1>0. sockets \in [Servers -> Seq(Endpoints \cup {NULL})] /\ SessionsOwned /\ WaitsOnce
  BY DEF SessionInv, ClusterInv, TypeOK
<1>1. /\ sockets'[s] = [sockets[s] EXCEPT ![k] = NULL]
      /\ \A r \in Servers \ {s} : sockets'[r] = sockets[r]
  BY <1>0
<1>2. \A r \in Servers : /\ DOMAIN sockets'[r] = DOMAIN sockets[r]
                         /\ \A j \in DOMAIN sockets[r] :
                              sockets'[r][j] = IF r = s /\ j = k THEN NULL ELSE sockets[r][j]
  BY <1>0, <1>1
<1> DEFINE e == sockets[s][k]
<1>3. /\ e \in open
      /\ \A r \in Servers : e \notin Waiting(r)
      /\ \A r \in Servers : \A j \in DOMAIN sockets[r] : sockets[r][j] = e => r = s /\ j = k
  BY <1>0 DEF SessionsOwned
<1>4. \A r \in Servers : Waiting(r)' = Waiting(r)
  BY DEF Waiting
<1>5. ASSUME NEW r \in Servers
      PROVE  Held(r) \ {e} \subseteq Held(r)'
  BY <1>2, <1>3 DEF Held
<1> HIDE DEF e
<1>6. open' = open \ {e}
  BY DEF e
<1>7. ASSUME NEW r \in Servers, NEW j \in DOMAIN sockets'[r]
      PROVE  OwnedSocket(r, j)'
  <2>1. OwnedSocket(r, j) /\ j \in DOMAIN sockets[r]
    BY <1>0, <1>2, OwnersByPart
  <2> QED BY <1>2, <1>3, <1>4, <1>6, <2>1 DEF OwnedSocket
<1>8. ASSUME NEW d \in open' PROVE \E r \in Servers : d \in Held(r)' \cup Waiting(r)'
  BY <1>0, <1>4, <1>5, <1>6 DEF SessionsOwned
<1>9. \A r \in Servers : Waiting(r)' \subseteq open'
  BY <1>0, <1>3, <1>4, <1>6 DEF SessionsOwned
<1> QED BY <1>0, <1>7, <1>8, <1>9 DEF SessionsOwned, OwnedSocket, WaitsOnce

\* A new session is at its two servers only.
LEMMA ConnectOwned ==
  ASSUME SessionInv, NEW s \in Servers, NEW t \in Servers, NEW c \in FreeConns,
         sockets' = [sockets EXCEPT ![s] = Append(@, <<c, "connect">>)],
         backlog' = [backlog EXCEPT ![t] = Append(@, <<c, "accept">>)],
         open' = open \cup {<<c, "connect">>, <<c, "accept">>}
  PROVE  SessionsOwned' /\ WaitsOnce'
<1> DEFINE a == <<c, "connect">>
           b == <<c, "accept">>
<1>0. /\ sockets \in [Servers -> Seq(Endpoints \cup {NULL})] /\ backlog \in [Servers -> Seq(Endpoints)]
      /\ SessionsOwned /\ WaitsOnce
  BY DEF SessionInv, ClusterInv, TypeOK
<1>1. a \in Endpoints /\ b \in Endpoints /\ a # b /\ a \notin open /\ b \notin open
      /\ a # NULL /\ b # NULL
  BY NULLAssumption DEF FreeConns, Endpoints
<1> HIDE DEF a, b
<1>2. /\ sockets' = [sockets EXCEPT ![s] = Append(@, a)]
      /\ backlog' = [backlog EXCEPT ![t] = Append(@, b)]
      /\ open' = open \cup {a, b}
  BY DEF a, b
<1>3. /\ sockets'[s] = Append(sockets[s], a)
      /\ \A r \in Servers \ {s} : sockets'[r] = sockets[r]
      /\ backlog'[t] = Append(backlog[t], b)
      /\ \A r \in Servers \ {t} : backlog'[r] = backlog[r]
  BY <1>0, <1>2
<1>4. \A r \in Servers : \A k \in DOMAIN sockets'[r] :
        \/ r = s /\ k = Len(sockets[s]) + 1 /\ sockets'[r][k] = a
        \/ k \in DOMAIN sockets[r] /\ sockets'[r][k] = sockets[r][k]
  BY <1>0, <1>1, <1>3
<1>5. \A r \in Servers : \A k \in DOMAIN sockets[r] :
        k \in DOMAIN sockets'[r] /\ sockets'[r][k] = sockets[r][k]
  BY <1>0, <1>1, <1>3
<1>6. \A r \in Servers : \A k \in DOMAIN backlog'[r] :
        \/ r = t /\ k = Len(backlog[t]) + 1 /\ backlog'[r][k] = b
        \/ k \in DOMAIN backlog[r] /\ backlog'[r][k] = backlog[r][k]
  BY <1>0, <1>1, <1>3
<1>7. \A r \in Servers : \A k \in DOMAIN backlog[r] :
        k \in DOMAIN backlog'[r] /\ backlog'[r][k] = backlog[r][k]
  BY <1>0, <1>1, <1>3
<1>8. /\ Len(sockets[s]) + 1 \in DOMAIN sockets'[s]
      /\ sockets'[s][Len(sockets[s]) + 1] = a
      /\ Len(backlog[t]) + 1 \in DOMAIN backlog'[t]
      /\ backlog'[t][Len(backlog[t]) + 1] = b
  BY <1>0, <1>1, <1>3
<1>9. /\ \A r \in Servers : Waiting(r) \subseteq Waiting(r)'
      /\ \A r \in Servers : Waiting(r)' \subseteq Waiting(r) \cup {b}
      /\ b \in Waiting(t)'
  <2>1. ASSUME NEW r \in Servers PROVE Waiting(r) \subseteq Waiting(r)'
    BY <1>7 DEF Waiting
  <2>2. ASSUME NEW r \in Servers PROVE Waiting(r)' \subseteq Waiting(r) \cup {b}
    BY <1>6 DEF Waiting
  <2>3. b \in Waiting(t)'
    BY <1>8 DEF Waiting
  <2> QED BY <2>1, <2>2, <2>3
<1>10. /\ \A r \in Servers : Held(r) \subseteq Held(r)'
       /\ a \in Held(s)'
  BY <1>1, <1>5, <1>8 DEF Held
<1>11. /\ \A r \in Servers : Waiting(r) \subseteq open
       /\ \A r \in Servers : \A k \in DOMAIN backlog[r] : backlog[r][k] \in open
       /\ \A r \in Servers : \A k \in DOMAIN sockets[r] : sockets[r][k] # NULL => sockets[r][k] \in open
  BY <1>0 DEF SessionsOwned, Waiting
<1>12. ASSUME NEW r \in Servers, NEW k \in DOMAIN sockets'[r]
       PROVE  OwnedSocket(r, k)'
  <2>1. CASE r = s /\ k = Len(sockets[s]) + 1 /\ sockets'[r][k] = a
    <3>1. \A q \in Servers : a \notin Waiting(q)'
      BY <1>1, <1>9, <1>11
    <3>2. \A q \in Servers : \A j \in DOMAIN sockets'[q] : sockets'[q][j] = a => q = r /\ j = k
      BY <1>1, <1>4, <1>11, <2>1
    <3> QED BY <1>2, <2>1, <3>1, <3>2 DEF OwnedSocket
  <2>2. CASE k \in DOMAIN sockets[r] /\ sockets'[r][k] = sockets[r][k]
    <3> DEFINE e == sockets[r][k]
    <3>1. CASE e # NULL
      <4>1. /\ e \in open /\ \A q \in Servers : e \notin Waiting(q)
            /\ \A q \in Servers : \A j \in DOMAIN sockets[q] : sockets[q][j] = e => q = r /\ j = k
        BY <1>0, <2>2, <3>1 DEF SessionsOwned
      <4> HIDE DEF e
      <4>2. e # a /\ e # b
        BY <1>1, <4>1
      <4>3. \A q \in Servers : e \notin Waiting(q)'
        BY <1>9, <4>1, <4>2
      <4>4. \A q \in Servers : \A j \in DOMAIN sockets'[q] : sockets'[q][j] = e => q = r /\ j = k
        BY <1>4, <4>1, <4>2
      <4>5. sockets'[r][k] = e
        BY <2>2 DEF e
      <4> QED BY <1>2, <4>1, <4>3, <4>4, <4>5 DEF OwnedSocket
    <3>2. CASE e = NULL
      BY <2>2, <3>2 DEF OwnedSocket
    <3> QED BY <3>1, <3>2
  <2> QED BY <1>4, <2>1, <2>2
<1>13. ASSUME NEW e \in open' PROVE \E r \in Servers : e \in Held(r)' \cup Waiting(r)'
  <2>1. CASE e \in open
    <3>1. PICK r \in Servers : e \in Held(r) \cup Waiting(r)
      BY <1>0, <2>1 DEF SessionsOwned
    <3> QED BY <1>9, <1>10, <3>1
  <2>2. CASE e = a
    BY <1>10, <2>2
  <2>3. CASE e = b
    BY <1>9, <2>3
  <2> QED BY <1>2, <2>1, <2>2, <2>3
<1>14. \A r \in Servers : Waiting(r)' \subseteq open'
  BY <1>2, <1>9, <1>11
<1>15. ASSUME NEW r \in Servers, NEW q \in Servers, NEW k \in DOMAIN backlog'[r],
              NEW j \in DOMAIN backlog'[q], backlog'[r][k] = backlog'[q][j]
       PROVE  r = q /\ k = j
  <2>1. CASE backlog'[r][k] = b
    <3>1. \A p \in Servers : \A m \in DOMAIN backlog[p] : backlog[p][m] # b
      BY <1>1, <1>11
    <3>2. r = t /\ k = Len(backlog[t]) + 1
      BY <1>6, <2>1, <3>1
    <3>3. q = t /\ j = Len(backlog[t]) + 1
      BY <1>6, <1>15, <2>1, <3>1
    <3> QED BY <3>2, <3>3
  <2>2. CASE backlog'[r][k] # b
    <3>1. /\ k \in DOMAIN backlog[r] /\ backlog'[r][k] = backlog[r][k]
          /\ j \in DOMAIN backlog[q] /\ backlog'[q][j] = backlog[q][j]
      BY <1>6, <1>15, <2>2
    <3> QED BY <1>0, <1>15, <3>1 DEF WaitsOnce
  <2> QED BY <2>1, <2>2
<1> QED BY <1>12, <1>13, <1>14, <1>15 DEF SessionsOwned, OwnedSocket, WaitsOnce

\* An accepted session goes from the backlog to the array of its server.
LEMMA AcceptOwned ==
  ASSUME SessionInv, NEW s \in Servers, accept(s)
  PROVE  SessionsOwned' /\ WaitsOnce'
<1> DEFINE a == Head(backlog[s])
<1>0. /\ sockets \in [Servers -> Seq(Endpoints \cup {NULL})] /\ backlog \in [Servers -> Seq(Endpoints)]
      /\ SessionsOwned /\ WaitsOnce /\ UNCHANGED open
      /\ backlog[s] \in Seq(Endpoints) /\ backlog[s] # <<>>
  BY DEF SessionInv, ClusterInv, TypeOK, accept
<1>1. a \in Endpoints /\ a # NULL /\ a = backlog[s][1] /\ 1 \in DOMAIN backlog[s]
  BY <1>0, HeadAndTail, NULLAssumption
<1> HIDE DEF a
<1>2. /\ sockets' = [sockets EXCEPT ![s] = Append(@, a)]
      /\ backlog' = [backlog EXCEPT ![s] = Tail(backlog[s])]
  BY DEF a, accept
<1>3. /\ sockets'[s] = Append(sockets[s], a)
      /\ \A r \in Servers \ {s} : sockets'[r] = sockets[r]
      /\ backlog'[s] = Tail(backlog[s])
      /\ \A r \in Servers \ {s} : backlog'[r] = backlog[r]
  BY <1>0, <1>2
<1>s. sockets[s] \in Seq(Endpoints \cup {NULL}) /\ a \in Endpoints \cup {NULL}
  BY <1>0, <1>1
<1>4. \A r \in Servers : \A k \in DOMAIN sockets'[r] :
        \/ r = s /\ k = Len(sockets[s]) + 1 /\ sockets'[r][k] = a
        \/ k \in DOMAIN sockets[r] /\ sockets'[r][k] = sockets[r][k]
  BY <1>3, <1>s, AppendParts
<1>5. /\ \A r \in Servers : \A k \in DOMAIN sockets[r] :
           k \in DOMAIN sockets'[r] /\ sockets'[r][k] = sockets[r][k]
      /\ Len(sockets[s]) + 1 \in DOMAIN sockets'[s]
      /\ sockets'[s][Len(sockets[s]) + 1] = a
  BY <1>3, <1>s, AppendParts
<1>6. /\ \A k \in DOMAIN backlog'[s] : /\ k + 1 \in DOMAIN backlog[s] /\ k + 1 # 1
                                      /\ backlog'[s][k] = backlog[s][k + 1]
      /\ \A k \in DOMAIN backlog[s] : k # 1 => /\ k - 1 \in DOMAIN backlog'[s]
                                              /\ backlog'[s][k - 1] = backlog[s][k]
      /\ \A j, k \in DOMAIN backlog'[s] : j + 1 = k + 1 => j = k
  BY <1>0, <1>3, HeadAndTail
<1>7. \A r \in Servers : \A k \in DOMAIN backlog[r] :
        backlog[r][k] = a => r = s /\ k = 1
  BY <1>0, <1>1 DEF WaitsOnce
<1>8. /\ a \in Waiting(s) /\ a \in open
      /\ \A r \in Servers : \A k \in DOMAIN sockets[r] : sockets[r][k] # a
  BY <1>0, <1>1 DEF SessionsOwned, Waiting
<1>9. ASSUME NEW r \in Servers PROVE Waiting(r)' = Waiting(r) \ {a}
  <2>1. CASE r = s
    BY <1>1, <1>6, <1>7, <2>1 DEF Waiting
  <2>2. CASE r # s
    BY <1>3, <1>7, <2>2 DEF Waiting
  <2> QED BY <2>1, <2>2
<1>10. /\ \A r \in Servers : Held(r) \subseteq Held(r)'
       /\ a \in Held(s)'
  BY <1>1, <1>5 DEF Held
<1>11. ASSUME NEW r \in Servers, NEW k \in DOMAIN sockets'[r]
       PROVE  OwnedSocket(r, k)'
  <2>1. CASE r = s /\ k = Len(sockets[s]) + 1 /\ sockets'[r][k] = a
    BY <1>0, <1>4, <1>8, <1>9, <2>1 DEF OwnedSocket
  <2>2. CASE k \in DOMAIN sockets[r] /\ sockets'[r][k] = sockets[r][k]
    <3>1. OwnedSocket(r, k) /\ sockets[r][k] # a
      BY <1>0, <1>8, <2>2, OwnersByPart
    <3> QED BY <1>0, <1>4, <1>9, <2>2, <3>1 DEF OwnedSocket
  <2> QED BY <1>4, <2>1, <2>2
<1>12. ASSUME NEW e \in open' PROVE \E r \in Servers : e \in Held(r)' \cup Waiting(r)'
  BY <1>0, <1>9, <1>10 DEF SessionsOwned
<1>13. \A r \in Servers : Waiting(r)' \subseteq open'
  BY <1>0, <1>9 DEF SessionsOwned
<1>14. ASSUME NEW r \in Servers, NEW q \in Servers, NEW k \in DOMAIN backlog'[r],
              NEW j \in DOMAIN backlog'[q], backlog'[r][k] = backlog'[q][j]
       PROVE  r = q /\ k = j
  <2> DEFINE Old(p, m) == IF p = s THEN m + 1 ELSE m
  <2>1. /\ Old(r, k) \in DOMAIN backlog[r] /\ backlog[r][Old(r, k)] = backlog'[r][k]
        /\ Old(q, j) \in DOMAIN backlog[q] /\ backlog[q][Old(q, j)] = backlog'[q][j]
    BY <1>3, <1>6
  <2>2. r = q /\ Old(r, k) = Old(q, j)
    <3> HIDE DEF Old
    <3> QED BY <1>0, <1>14, <2>1 DEF WaitsOnce
  <2> QED BY <1>6, <2>2
<1> QED BY <1>11, <1>12, <1>13, <1>14 DEF SessionsOwned, OwnedSocket, WaitsOnce

\* A server that stops closes its own sessions and nobody else's.
LEMMA StopOwned ==
  ASSUME SessionInv, NEW s \in Servers, stop(s)
  PROVE  SessionsOwned' /\ WaitsOnce'
<1>0. /\ sockets \in [Servers -> Seq(Endpoints \cup {NULL})] /\ backlog \in [Servers -> Seq(Endpoints)]
      /\ SessionsOwned /\ WaitsOnce
  BY DEF SessionInv, ClusterInv, TypeOK
<1>1. /\ sockets' = [sockets EXCEPT ![s] = <<>>] /\ backlog' = [backlog EXCEPT ![s] = <<>>]
      /\ open' = open \ (Held(s) \cup Waiting(s))
  BY DEF stop, Close
<1>2. /\ DOMAIN sockets'[s] = {} /\ DOMAIN backlog'[s] = {}
      /\ \A r \in Servers \ {s} : sockets'[r] = sockets[r] /\ backlog'[r] = backlog[r]
  BY <1>0, <1>1
<1>3. /\ Held(s)' = {} /\ Waiting(s)' = {}
      /\ \A r \in Servers \ {s} : Held(r)' = Held(r) /\ Waiting(r)' = Waiting(r)
  BY <1>2 DEF Held, Waiting
<1>4. ASSUME NEW r \in Servers \ {s}
      PROVE  (Held(r) \cup Waiting(r)) \cap (Held(s) \cup Waiting(s)) = {}
  BY <1>0 DEF SessionsOwned, WaitsOnce, Held, Waiting
<1>5. ASSUME NEW r \in Servers, NEW k \in DOMAIN sockets'[r]
      PROVE  OwnedSocket(r, k)'
  <2>1. r # s /\ k \in DOMAIN sockets[r] /\ sockets'[r] = sockets[r]
    BY <1>2
  <2>2. OwnedSocket(r, k)
    BY <1>0, <2>1, OwnersByPart
  <2>3. sockets[r][k] # NULL => sockets[r][k] \in Held(r)
    BY <2>1 DEF Held
  <2>4. sockets[r][k] # NULL => sockets[r][k] \in open'
    BY <1>1, <1>4, <2>1, <2>2, <2>3 DEF OwnedSocket
  <2>5. \A q \in Servers : Waiting(q)' \subseteq Waiting(q)
    BY <1>3
  <2> QED BY <1>2, <2>1, <2>2, <2>4, <2>5 DEF OwnedSocket
<1>6. ASSUME NEW e \in open' PROVE \E r \in Servers : e \in Held(r)' \cup Waiting(r)'
  BY <1>0, <1>1, <1>3 DEF SessionsOwned
<1>7. \A r \in Servers : Waiting(r)' \subseteq open'
  BY <1>0, <1>1, <1>3, <1>4 DEF SessionsOwned
<1>8. WaitsOnce'
  <2>1. \A r \in Servers : \A k \in DOMAIN backlog'[r] : r # s /\ backlog'[r] = backlog[r]
    BY <1>2
  <2> QED BY <1>0, <2>1 DEF WaitsOnce
<1> QED BY <1>5, <1>6, <1>7, <1>8 DEF SessionsOwned, OwnedSocket

-----------------------------------------------------------------------------
(* Every step *)

\* The ways in which sessions come and go.
LEMMA SessionSteps ==
  ASSUME ClusterInv, [Next]_vars
  PROVE  \/ UNCHANGED <<sockets, open, backlog>>
         \/ \E s \in Servers : \/ connect_msgservs(s) \/ accept(s) \/ stop(s)
                              \/ request_fails(s) \/ await_closed(s)
                              \/ \E k \in DOMAIN sockets[s] : read_closed(s, k)
<1>1. CASE UNCHANGED vars
  BY <1>1 DEF vars
<1>2. ASSUME NEW s \in Servers, get_servers(s) \/ register(s) \/ request_messages(s)
                                \/ await_frame(s) \/ request_done(s) \/ Finish(s)
      PROVE  UNCHANGED <<sockets, open, backlog>>
  BY <1>2 DEF get_servers, register, request_messages, await_frame, request_done, Finish,
              add_smessages, add_done, distribute_message, distribute_done, network
<1>3. ASSUME NEW s \in Servers, NEW k \in DOMAIN sockets[s],
             send_messages_to_msgserv(s, k) \/ read_smessages(s, k)
      PROVE  UNCHANGED <<sockets, open, backlog>>
  BY <1>3 DEF send_messages_to_msgserv, read_smessages
<1>4. ASSUME NEW s \in Servers, start(s) \/ join(s) \/ lapse(s)
                                \/ \E t \in Texts : publish_message(s, t)
      PROVE  UNCHANGED <<sockets, open, backlog>>
  BY <1>4 DEF start, join, lapse, publish_message, network
<1> QED BY <1>1, <1>2, <1>3, <1>4 DEF Next, Run, Startup, ServePeer, Environment

\* One line of the list makes a session of two free ends, or an empty entry.
LEMMA ConnectCases ==
  ASSUME TypeOK, NEW s \in Servers, connect_msgservs(s)
  PROVE  LET t == Head(server_list[s])
         IN  /\ t \in Servers
             /\ \/ /\ IsSelf(s, t) \/ ~ Listening(t)
                   /\ sockets' = [sockets EXCEPT ![s] = Append(@, NULL)]
                   /\ UNCHANGED <<open, backlog>>
                \/ \E c \in FreeConns :
                     /\ sockets' = [sockets EXCEPT ![s] = Append(@, <<c, "connect">>)]
                     /\ backlog' = [backlog EXCEPT ![t] = Append(@, <<c, "accept">>)]
                     /\ open' = open \cup {<<c, "connect">>, <<c, "accept">>}
<1> DEFINE t == Head(server_list[s])
           c == CHOOSE c \in FreeConns : TRUE
<1>1. t \in Servers
  <2>1. server_list[s] \in Seq(Servers) /\ server_list[s] # <<>>
    BY DEF TypeOK, connect_msgservs
  <2> QED BY <2>1
<1>2. CASE IsSelf(s, t) \/ ~ Listening(t)
  BY <1>1, <1>2 DEF connect_msgservs, network
<1>3. CASE ~ (IsSelf(s, t) \/ ~ Listening(t))
  <2>1. /\ FreeConns # {}
        /\ sockets' = [sockets EXCEPT ![s] = Append(@, <<c, "connect">>)]
        /\ backlog' = [backlog EXCEPT ![t] = Append(@, <<c, "accept">>)]
        /\ open' = open \cup {<<c, "connect">>, <<c, "accept">>}
    BY <1>3 DEF connect_msgservs
  <2>2. c \in FreeConns
    BY <2>1
  <2> HIDE DEF c, t
  <2> QED BY <1>1, <2>1, <2>2 DEF t
<1> QED BY <1>2, <1>3

LEMMA OwnedStep ==
  ASSUME SessionInv, [Next]_vars
  PROVE  SessionsOwned' /\ WaitsOnce'
<1>0. ClusterInv /\ TypeOK
  BY DEF SessionInv, ClusterInv
<1>1. CASE UNCHANGED <<sockets, open, backlog>>
  BY <1>1 DEF SessionInv, SessionsOwned, WaitsOnce, Held, Waiting
<1>2. ASSUME NEW s \in Servers, connect_msgservs(s)
      PROVE  SessionsOwned' /\ WaitsOnce'
  BY <1>0, <1>2, ConnectCases, SkipOwned, ConnectOwned
<1>3. ASSUME NEW s \in Servers, request_fails(s) \/ await_closed(s)
      PROVE  SessionsOwned' /\ WaitsOnce'
  <2>1. i[s] \in DOMAIN sockets[s] /\ sockets[s][i[s]] # NULL /\ UNCHANGED backlog
    BY <1>0, <1>3 DEF TypeOK, AwaitsASession, request_fails, await_closed, NoAnswer
  <2>2. \/ UNCHANGED <<sockets, open>>
        \/ /\ sockets' = [sockets EXCEPT ![s][i[s]] = NULL]
           /\ open' = open \ {sockets[s][i[s]]}
    BY <1>3 DEF request_fails, await_closed, NoAnswer, Close
  <2> QED BY <1>1, <2>1, <2>2, ForgetOwned
<1>4. ASSUME NEW s \in Servers, NEW k \in DOMAIN sockets[s], read_closed(s, k)
      PROVE  SessionsOwned' /\ WaitsOnce'
  BY <1>4, ForgetOwned DEF read_closed, Ready, Close
<1> QED BY <1>0, <1>1, <1>2, <1>3, <1>4, SessionSteps, AcceptOwned, StopOwned

LEMMA SessionInitially == Init => SessionInv
<1> SUFFICES ASSUME Init PROVE SessionInv
  OBVIOUS
<1>1. SessionsOwned /\ WaitsOnce
  BY DEF Init, SessionsOwned, WaitsOnce, Waiting
<1> QED BY <1>1, ClusterInit DEF SessionInv

\* The invariant of the sessions is inductive.
THEOREM SessionInvariant == Spec => []SessionInv
<1>1. Init => SessionInv
  BY SessionInitially
<1>2. SessionInv /\ [Next]_vars => SessionInv'
  BY OwnedStep, TypeStep, ClockStep, DistributeStep DEF SessionInv, ClusterInv
<1> QED BY <1>1, <1>2, PTL DEF Spec

\* No descriptor is used after it was closed, closed twice, shared or leaked,
\* however servers crash, restart and give sessions up (SOCKET_close in
\* comm_msgserv.c and main_msgserv.c).
THEOREM EachSessionOwned == Spec => []SessionsOwned
BY SessionInvariant, PTL DEF SessionInv

-----------------------------------------------------------------------------
(* Connecting to the servers of the list *)

\* No two servers use the same port, so that none is taken for oneself.
DistinctPorts == \A s, t \in Servers : s # t => tpt[s] # tpt[t]

\* What one step must do for each server that goes on along its list.
SessionToNext(s) ==
  LET t == Head(server_list[s])
  IN  (pc[s] = "connect" /\ server_list'[s] # server_list[s] /\ pc'[s] # "off"
         /\ t # s /\ Listening(t)) =>
        \E e \in {sockets'[s][k] : k \in DOMAIN sockets'[s]} \ (Held(s) \cup {NULL}) :
          Peer(e) \in {backlog'[t][k] : k \in DOMAIN backlog'[t]}

\* Nothing else goes on along the list.
LEMMA ListStep ==
  ASSUME TypeOK, Next, NEW s \in Servers, pc[s] = "connect",
         server_list'[s] # server_list[s], pc'[s] # "off"
  PROVE  connect_msgservs(s)
<1>0. /\ pc \in [Servers -> Labels] /\ server_list \in [Servers -> Seq(Servers)]
  BY DEF TypeOK
<1>1. ASSUME NEW r \in Servers, get_servers(r) \/ stop(r) PROVE FALSE
  BY <1>0, <1>1 DEF get_servers, stop
<1>2. ASSUME NEW r \in Servers, connect_msgservs(r) PROVE r = s
  BY <1>0, <1>2 DEF connect_msgservs
<1>3. ASSUME NEW r \in Servers,
             \/ register(r) \/ request_messages(r) \/ request_fails(r)
             \/ await_frame(r) \/ await_closed(r) \/ request_done(r) \/ ServePeer(r) \/ Finish(r)
             \/ start(r) \/ join(r) \/ lapse(r) \/ \E t \in Texts : publish_message(r, t)
      PROVE  FALSE
  BY <1>3 DEF register, request_messages, request_fails, await_frame, await_closed,
              NoAnswer, request_done, ServePeer, accept, send_messages_to_msgserv, read_smessages, read_closed, Finish,
              add_smessages, add_done, distribute_message, distribute_done, start, join, lapse,
              publish_message
<1> QED BY <1>1, <1>2, <1>3 DEF Next, Run, Startup, Environment

LEMMA ConnectsStep ==
  ASSUME DistinctPorts, SessionInv, Next, NEW s \in Servers
  PROVE  SessionToNext(s)
<1> DEFINE t == Head(server_list[s])
<1> SUFFICES ASSUME pc[s] = "connect", server_list'[s] # server_list[s], pc'[s] # "off",
                    t # s, Listening(t)
             PROVE  \E e \in {sockets'[s][k] : k \in DOMAIN sockets'[s]} \ (Held(s) \cup {NULL}) :
                      Peer(e) \in {backlog'[t][k] : k \in DOMAIN backlog'[t]}
  BY DEF SessionToNext
<1>0. /\ TypeOK /\ SessionsOwned
      /\ sockets \in [Servers -> Seq(Endpoints \cup {NULL})] /\ backlog \in [Servers -> Seq(Endpoints)]
  BY DEF SessionInv, ClusterInv, TypeOK
<1>1. connect_msgservs(s)
  BY <1>0, ListStep
<1>2. t \in Servers /\ ~ IsSelf(s, t)
  BY <1>0, <1>1, ConnectCases DEF DistinctPorts, IsSelf
<1>3. PICK c \in FreeConns :
        /\ sockets' = [sockets EXCEPT ![s] = Append(@, <<c, "connect">>)]
        /\ backlog' = [backlog EXCEPT ![t] = Append(@, <<c, "accept">>)]
  BY <1>0, <1>1, <1>2, ConnectCases
<1> HIDE DEF t
<1> DEFINE a == <<c, "connect">>
           b == <<c, "accept">>
<1>4. a \in Endpoints /\ b \in Endpoints /\ a \notin open /\ a # NULL /\ Peer(a) = b
  BY NULLAssumption DEF FreeConns, Endpoints, Peer
<1> HIDE DEF a, b
<1>5. sockets'[s] = Append(sockets[s], a) /\ backlog'[t] = Append(backlog[t], b)
  BY <1>0, <1>2, <1>3 DEF a, b
<1>6. sockets[s] \in Seq(Endpoints \cup {NULL}) /\ backlog[t] \in Seq(Endpoints)
  BY <1>0, <1>2
<1>7. /\ Len(sockets[s]) + 1 \in DOMAIN sockets'[s] /\ sockets'[s][Len(sockets[s]) + 1] = a
      /\ Len(backlog[t]) + 1 \in DOMAIN backlog'[t] /\ backlog'[t][Len(backlog[t]) + 1] = b
  BY <1>4, <1>5, <1>6, AppendParts
<1>8. a \notin Held(s)
  BY <1>0, <1>4 DEF SessionsOwned, Held
<1>9. /\ a \in {sockets'[s][k] : k \in DOMAIN sockets'[s]} \ (Held(s) \cup {NULL})
      /\ b \in {backlog'[t][k] : k \in DOMAIN backlog'[t]}
  BY <1>4, <1>7, <1>8
<1> QED BY <1>4, <1>9

\* If no two servers use the same port, a server is never left without a
\* session to a running server of the list it was sent.
THEOREM ConnectedToAll ==
  ASSUME DistinctPorts
  PROVE  Spec => ConnectsToEveryOther
<1>1. SessionInv /\ [Next]_vars => [\A s \in Servers : SessionToNext(s)]_vars
  BY ConnectsStep
<1> QED BY <1>1, SessionInvariant, PTL DEF Spec, ConnectsToEveryOther, SessionToNext
=============================================================================
