----------------------------- MODULE RmbProofs -----------------------------
(***************************************************************************)
(* Proofs about the terminals, for every number of terminals and servers   *)
(* and everything the users may type.  The network is a bag, but all that  *)
(* the proofs ask of it is which datagrams may still arrive: its domain.   *)
(***************************************************************************)
EXTENDS RmbSession, TLAPS

-----------------------------------------------------------------------------
(* The inductive invariant *)

Answers == [from : Servers, body : Boards]

Publications == [type : {"PUBLISH"}, to : Servers, text : Texts, of : Terminals \X Nat]

Datagrams ==
  Publications
    \cup [type : {"GET_MESSAGES"}, to : Servers, from : Terminals \X Nat, n : Int]
    \cup [type : {"MESSAGES"}, from : Servers, to : Terminals \X Nat, body : Boards]

\* The types that TypeOK leaves out.
SocketTypes ==
  /\ port \in [Terminals -> Nat]
  /\ socket \in [Terminals -> Seq(Answers)]
  /\ BagToSet(net) \subseteq Datagrams

UserTypes ==
  /\ script \in [Terminals -> Seq(Typable)]
  /\ typed \in [Terminals -> Typable \cup {ShowServers}]
  /\ heeded \in [Terminals -> BOOLEAN]
  /\ told \in [Terminals -> BOOLEAN]

\* The port of a new socket is in no datagram yet.
PortsUsed ==
  \A d \in BagToSet(net) :
    /\ d.type = "MESSAGES" => d.to[2] <= port[d.to[1]]
    /\ d.type = "GET_MESSAGES" => d.from[2] <= port[d.from[1]]

\* Another turn has a try left, and nothing was typed before the start.
Turns ==
  \A t \in Terminals : /\ pc[t] = "send" => tries[t] > 0
                       /\ pc[t] = "start" => typed[t] = ShowServers

TextsOf(board) == {board[k] : k \in DOMAIN board}
TextsIn(messages) == {m.text : m \in messages}

\* A server was given whatever it keeps or has answered.
KeptWereReceived ==
  /\ \A s \in Servers : TextsOf(kept[s]) \subseteq TextsIn(received[s])
  /\ \A d \in BagToSet(net) :
       d.type = "MESSAGES" => TextsOf(d.body) \subseteq TextsIn(received[d.from])
  /\ \A t \in Terminals : \A k \in DOMAIN socket[t] :
       TextsOf(socket[t][k].body) \subseteq TextsIn(received[socket[t][k].from])

RmbInv ==
  /\ TypeOK /\ SocketTypes /\ UserTypes
  /\ PortsUsed /\ AnswersFromServer
  /\ Turns /\ KeptWereReceived /\ SuccessMeansReceived

-----------------------------------------------------------------------------
(* Bags, boards and commands *)

\* What is in a bag after something was added to it or taken from it.
LEMMA BagDomains ==
  /\ BagToSet(EmptyBag) = {}
  /\ \A S : BagToSet(SetToBag(S)) = S
  /\ \A a, b : BagToSet(a (+) b) = BagToSet(a) \cup BagToSet(b)
  /\ \A a, b : BagToSet(a (-) b) \subseteq BagToSet(a)
BY DEF BagToSet, SetToBag, EmptyBag, (+), (-)

\* A board is a sequence of at most M texts.
LEMMA BoardsAreSequences ==
  /\ \A q \in Boards : q \in Seq(Texts) /\ Len(q) <= M
  /\ \A q \in Seq(Texts) : Len(q) <= M => q \in Boards
<1> USE RmbAssumption
<1>1. ASSUME NEW q \in Boards PROVE q \in Seq(Texts) /\ Len(q) <= M
  <2>1. PICK k \in 0 .. M : q \in [1 .. k -> Texts]
    BY DEF Boards
  <2> QED BY <2>1
<1>2. ASSUME NEW q \in Seq(Texts), Len(q) <= M PROVE q \in Boards
  <2>1. Len(q) \in 0 .. M /\ q \in [1 .. Len(q) -> Texts]
    BY <1>2
  <2> QED BY <2>1 DEF Boards
<1> QED BY <1>1, <1>2

\* An answer lists texts of the board it is taken from.
LEMMA LatestOfBoard ==
  ASSUME NEW n \in Int, NEW q \in Seq(Texts)
  PROVE  /\ Latest(n, q) \in Seq(Texts)
         /\ Len(Latest(n, q)) <= Len(q)
         /\ n >= 0 => Len(Latest(n, q)) <= n
         /\ TextsOf(Latest(n, q)) \subseteq TextsOf(q)
<1>1. CASE Len(q) <= n
  BY <1>1 DEF Latest
<1>2. CASE Len(q) > n
  <2> DEFINE i == Len(q) - n + 1
             r == SubSeq(q, i, Len(q))
  <2>1. Latest(n, q) = r
    BY <1>2 DEF Latest
  <2>2. i \in Int /\ i > 1
    BY <1>2
  <2>3. r = [k \in 1 .. (Len(q) - i + 1) |-> q[k + i - 1]]
    BY <2>2
  <2>4. \A k \in 1 .. (Len(q) - i + 1) : k + i - 1 \in 1 .. Len(q)
    BY <2>2
  <2>5. r \in Seq(Texts) /\ Len(r) = IF i <= Len(q) THEN Len(q) - i + 1 ELSE 0
    BY <2>2, <2>3, <2>4
  <2>6. TextsOf(r) \subseteq TextsOf(q)
    <3>1. DOMAIN r = 1 .. (Len(q) - i + 1) /\ DOMAIN q = 1 .. Len(q)
      BY <2>3
    <3>2. \A k \in DOMAIN r : r[k] = q[k + i - 1] /\ k + i - 1 \in DOMAIN q
      BY <2>3, <2>4, <3>1
    <3> HIDE DEF r
    <3> QED BY <3>2 DEF TextsOf
  <2> QED BY <2>1, <2>2, <2>5, <2>6, <1>2
<1> QED BY <1>1, <1>2

\* A server's board after it was given a text.
LEMMA LatestWithText ==
  ASSUME NEW q \in Boards, NEW x \in Texts
  PROVE  /\ Latest(M, Append(q, x)) \in Boards
         /\ TextsOf(Latest(M, Append(q, x))) \subseteq TextsOf(q) \cup {x}
<1>1. Append(q, x) \in Seq(Texts) /\ TextsOf(Append(q, x)) \subseteq TextsOf(q) \cup {x}
  BY BoardsAreSequences DEF TextsOf
<1>2. M \in Int /\ M >= 0
  BY RmbAssumption
<1> QED BY <1>1, <1>2, LatestOfBoard, BoardsAreSequences

LEMMA LatestIsBoard ==
  ASSUME NEW q \in Boards, NEW n \in Int
  PROVE  Latest(n, q) \in Boards /\ TextsOf(Latest(n, q)) \subseteq TextsOf(q)
<1>1. q \in Seq(Texts) /\ Len(q) <= M /\ M \in Nat
  BY BoardsAreSequences, RmbAssumption
<1>2. /\ Latest(n, q) \in Seq(Texts) /\ Len(Latest(n, q)) <= Len(q)
      /\ TextsOf(Latest(n, q)) \subseteq TextsOf(q)
  BY <1>1, LatestOfBoard
<1>3. Len(Latest(n, q)) <= M
  BY <1>1, <1>2
<1> QED BY <1>2, <1>3, BoardsAreSequences

\* What is in a queue after something joined it.
LEMMA AppendedElements ==
  ASSUME NEW T, NEW q \in Seq(T), NEW x \in T
  PROVE  \A k \in DOMAIN Append(q, x) :
           Append(q, x)[k] = x \/ (k \in DOMAIN q /\ Append(q, x)[k] = q[k])
OBVIOUS

\* What a command of the user holds.
LEMMA CommandTypes ==
  ASSUME NEW c \in Typable \cup {ShowServers}
  PROVE  /\ c.op = "publish" => c.text \in Texts
         /\ c.op = "show_latest_messages" => c.n \in Int
         /\ c # ShowServers => c.op \in {"publish", "show_latest_messages"}
<1>1. ShowServers.op = "show_servers"
  BY DEF ShowServers
<1>2. c = ShowServers \/ c \in Typable
  OBVIOUS
<1>3. c \in Typable /\ c.op = "publish" => c.text \in Texts
  BY DEF Texts
<1>4. c \in Typable /\ c.op = "show_latest_messages" => c.n \in Int
  BY ScriptsAssumption DEF Show, Publish, ShowServers
<1>5. c \in Typable /\ c # ShowServers => c.op \in {"publish", "show_latest_messages"}
  BY ScriptsAssumption DEF Show, Publish, ShowServers
<1> QED BY <1>1, <1>2, <1>3, <1>4, <1>5

-----------------------------------------------------------------------------
(* What the parts of an action do *)

\* A new socket: none of the datagrams that remain is for it or the old one.
LEMMA ConnectEffect ==
  ASSUME RmbInv, NEW t \in Terminals, NEW s \in Servers \cup {NULL}, Connect(t, s)
  PROVE  /\ port' \in [Terminals -> Nat]
         /\ socket' \in [Terminals -> Seq(Answers)]
         /\ server' \in [Terminals -> Servers \cup {NULL}]
         /\ server'[t] = s /\ socket'[t] = <<>>
         /\ \A u \in Terminals \ {t} : /\ server'[u] = server[u]
                                       /\ socket'[u] = socket[u]
                                       /\ port'[u] = port[u]
         /\ \A u \in Terminals : port'[u] >= port[u]
         /\ BagToSet(net') \subseteq BagToSet(net)
         /\ \A d \in BagToSet(net') : ~ForSocket(d, t)'
<1>1. /\ port \in [Terminals -> Nat] /\ socket \in [Terminals -> Seq(Answers)]
      /\ server \in [Terminals -> Servers \cup {NULL}]
  BY DEF RmbInv, SocketTypes, UserTypes, TypeOK
<1>2. port' = [port EXCEPT ![t] = @ + 1] /\ server' = [server EXCEPT ![t] = s]
      /\ socket' = [socket EXCEPT ![t] = <<>>]
  BY DEF Connect
<1>3. BagToSet(net') = {e \in BagToSet(net) : ~ForSocket(e, t)}
  BY DEF Connect, BagToSet
<1>4. port'[t] = port[t] + 1 /\ port[t] \in Nat
  BY <1>1, <1>2
<1>5. ASSUME NEW d \in BagToSet(net') PROVE ~ForSocket(d, t)'
  <2>1. d \in BagToSet(net) /\ d \in Datagrams
    BY <1>3 DEF RmbInv, SocketTypes, UserTypes
  <2>2. d.type = "MESSAGES" /\ d.to = <<t, port[t] + 1>> => FALSE
    BY <2>1, <1>4 DEF RmbInv, PortsUsed
  <2>3. d.type = "GET_MESSAGES" /\ d.from = <<t, port[t] + 1>> => FALSE
    BY <2>1, <1>4 DEF RmbInv, PortsUsed
  <2> QED BY <2>2, <2>3, <1>4 DEF ForSocket, Here
<1>6. <<>> \in Seq(Answers)
  OBVIOUS
<1>7. \A u \in Terminals : port[u] \in Nat /\ port'[u] >= port[u]
  BY <1>1, <1>2
<1> QED BY <1>1, <1>2, <1>3, <1>5, <1>6, <1>7

\* The line that is chosen is of a server, or there is none.
LEMMA ChoiceIsServer ==
  ASSUME RmbInv
  PROVE  Choice \subseteq Servers \cup {NULL}
BY DEF RmbInv, TypeOK, Choice

\* What is sent is added to what is under way.
LEMMA SendEffect ==
  ASSUME NEW S, Send(S)
  PROVE  BagToSet(net') = BagToSet(net) \cup S
BY BagDomains DEF Send

\* A read takes the first answer; it is from the server of the connection.
LEMMA ReadEffect ==
  ASSUME RmbInv, NEW t \in Terminals, Read(t)
  PROVE  /\ server' = server
         /\ socket' \in [Terminals -> Seq(Answers)]
         /\ server[t] \in Servers
         /\ Head(socket[t]) \in Answers /\ Head(socket[t]).from = server[t]
         /\ Head(socket[t]) = socket[t][1] /\ 1 \in DOMAIN socket[t]
         /\ Len(socket'[t]) + 1 = Len(socket[t])
         /\ \A k \in DOMAIN socket'[t] : /\ k + 1 \in DOMAIN socket[t]
                                         /\ socket'[t][k] = socket[t][k + 1]
         /\ \A u \in Terminals \ {t} : socket'[u] = socket[u]
<1> DEFINE q == socket[t]
<1>1. /\ socket \in [Terminals -> Seq(Answers)]
      /\ server \in [Terminals -> Servers \cup {NULL}]
      /\ q \in Seq(Answers)
  BY DEF RmbInv, SocketTypes, UserTypes, TypeOK
<1>2. /\ q # <<>> /\ server' = [server EXCEPT ![t] = Head(q).from]
      /\ socket' = [socket EXCEPT ![t] = Tail(q)]
  BY DEF Read
<1> HIDE DEF q
<1>3. /\ Head(q) \in Answers /\ Head(q) = q[1] /\ 1 \in DOMAIN q
      /\ Tail(q) \in Seq(Answers) /\ Len(Tail(q)) + 1 = Len(q)
      /\ \A k \in DOMAIN Tail(q) : k + 1 \in DOMAIN q /\ Tail(q)[k] = q[k + 1]
  BY <1>1, <1>2
<1>4. q[1].from = server[t]
  BY <1>3 DEF RmbInv, AnswersFromServer, q
<1>5. Head(q).from \in Servers
  BY <1>3 DEF Answers
<1>6. server' = server
  BY <1>1, <1>2, <1>3, <1>4
<1>7. socket'[t] = Tail(q) /\ socket' \in [Terminals -> Seq(Answers)]
      /\ \A u \in Terminals \ {t} : socket'[u] = socket[u]
  BY <1>1, <1>2, <1>3
<1> QED BY <1>3, <1>4, <1>5, <1>6, <1>7 DEF q

\* What was taken is gone at most once, what was answered is added.
LEMMA TakeEffect ==
  ASSUME NEW a, NEW S
  PROVE  BagToSet(net (-) SetToBag({a})) \subseteq BagToSet(net)
         /\ BagToSet((net (-) SetToBag({a})) (+) SetToBag(S)) \subseteq BagToSet(net) \cup S
BY BagDomains

LEMMA TicketType ==
  ASSUME RmbInv, NEW t \in Terminals
  PROVE  Ticket(t) \in Terminals \X Nat
<1>1. script[t] \in Seq(Typable)
  BY DEF RmbInv, UserTypes
<1> QED BY <1>1 DEF Ticket

\* A turn sends at most a message and a request to the server.
LEMMA TurnEffect ==
  ASSUME RmbInv, NEW t \in Terminals, publish(t) \/ show_n_messages(t)
  PROVE  /\ server[t] \in Servers
         /\ \E n \in Int, S \in SUBSET Publications :
              BagToSet(net') = BagToSet(net) \cup S \cup {Request(t, n)}
         /\ \A n \in Int : Request(t, n) \in
              [type : {"GET_MESSAGES"}, to : {server[t]}, from : {Here(t)}, n : Int]
<1>1. server[t] \in Servers
  BY DEF RmbInv, TypeOK, publish, show_n_messages, Turn
<1>2. typed[t] \in Typable \cup {ShowServers}
  BY DEF RmbInv, SocketTypes, UserTypes
<1>3. CASE publish(t)
  <2> DEFINE p == [type |-> "PUBLISH", to |-> server[t], text |-> typed[t].text,
                   of |-> Ticket(t)]
  <2>1. typed[t].text \in Texts
    BY <1>2, <1>3, CommandTypes DEF publish
  <2>2. p \in Publications
    BY <2>1, <1>1, TicketType DEF Publications
  <2> HIDE DEF p
  <2>3. BagToSet(net') = BagToSet(net) \cup {p, Request(t, 1)}
    BY <1>3, SendEffect DEF publish, p
  <2>4. BagToSet(net') = BagToSet(net) \cup {p} \cup {Request(t, 1)}
    BY <2>3
  <2>5. 1 \in Int /\ {p} \in SUBSET Publications
    BY <2>2
  <2> QED BY <1>1, <2>4, <2>5 DEF Request
<1>4. CASE show_n_messages(t)
  <2>1. typed[t].n \in Int
    BY <1>2, <1>4, CommandTypes DEF show_n_messages
  <2>2. BagToSet(net') = BagToSet(net) \cup {} \cup {Request(t, typed[t].n)}
    BY <1>4, SendEffect DEF show_n_messages
  <2>3. {} \in SUBSET Publications
    OBVIOUS
  <2> QED BY <1>1, <2>1, <2>2, <2>3 DEF Request
<1> QED BY <1>3, <1>4

-----------------------------------------------------------------------------
(* What arrives, and where *)

\* The ways in which sockets and the network change.
LEMMA SocketSteps ==
  ASSUME RmbInv, Next
  PROVE  \/ UNCHANGED <<connection, net>>
         \/ \E t \in Terminals :
              \/ \E s \in Servers \cup {NULL} : Connect(t, s)
              \/ UNCHANGED connection /\ (publish(t) \/ show_n_messages(t))
              \/ Read(t)
              \/ deliver(t)
         \/ \E s \in Servers : publish_message(s) \/ send_messages_to_terminal(s)
<1>1. ASSUME NEW t \in Terminals, start(t) \/ failover(t) \/ reconnect(t)
      PROVE  \/ UNCHANGED <<connection, net>>
             \/ \E s \in Servers \cup {NULL} : Connect(t, s)
  BY <1>1, ChoiceIsServer DEF start, failover, reconnect
<1>2. ASSUME NEW t \in Terminals, no_servers(t) \/ User(t) \/ timeout(t)
      PROVE  UNCHANGED <<connection, net>>
  BY <1>2 DEF no_servers, User, type_command, show_servers, exit, Typing, timeout, connection
<1>3. ASSUME NEW t \in Terminals, publish(t) \/ show_n_messages(t)
      PROVE  UNCHANGED connection
  BY <1>3 DEF publish, show_n_messages, Turn
<1>4. ASSUME NEW t \in Terminals, read_publish(t) \/ read_show(t) \/ print_stray(t)
      PROVE  Read(t)
  BY <1>4 DEF read_publish, read_show, print_stray
<1>5. ASSUME NEW s \in Servers, hear(s) \/ stop(s) \/ lapse(s) \/ register(s)
      PROVE  UNCHANGED <<connection, net>>
  BY <1>5 DEF hear, stop, lapse, register, connection, terminals
<1> QED BY <1>1, <1>2, <1>3, <1>4, <1>5 DEF Next, Step, Environment

\* A port is used once, and a terminal only ever hears the server it is
\* connected to.
LEMMA SocketsStep ==
  ASSUME RmbInv, Next
  PROVE  SocketTypes' /\ PortsUsed' /\ AnswersFromServer'
<1> DEFINE Own(d) == /\ d.type = "MESSAGES" => d.to[2] <= port[d.to[1]]
                     /\ d.type = "GET_MESSAGES" => d.from[2] <= port[d.from[1]]
           From(d, t) == ForSocket(d, t) =>
                           server[t] = IF d.type = "MESSAGES" THEN d.from ELSE d.to
<1>0. /\ port \in [Terminals -> Nat] /\ socket \in [Terminals -> Seq(Answers)]
      /\ BagToSet(net) \subseteq Datagrams
      /\ \A d \in BagToSet(net) : Own(d)
      /\ \A t \in Terminals : \A d \in BagToSet(net) : From(d, t)
      /\ \A t \in Terminals : \A k \in DOMAIN socket[t] : socket[t][k].from = server[t]
  BY DEF RmbInv, SocketTypes, PortsUsed, AnswersFromServer
<1>1. CASE UNCHANGED <<connection, net>>
  BY <1>0, <1>1 DEF connection, SocketTypes, PortsUsed, AnswersFromServer, ForSocket, Here, RmbInv
<1>2. ASSUME NEW t \in Terminals, NEW s \in Servers \cup {NULL}, Connect(t, s)
      PROVE  SocketTypes' /\ PortsUsed' /\ AnswersFromServer'
  <2>1. /\ port' \in [Terminals -> Nat] /\ socket' \in [Terminals -> Seq(Answers)]
        /\ socket'[t] = <<>>
        /\ \A u \in Terminals \ {t} : /\ server'[u] = server[u]
                                      /\ socket'[u] = socket[u]
                                      /\ port'[u] = port[u]
        /\ \A u \in Terminals : port'[u] >= port[u]
        /\ BagToSet(net') \subseteq BagToSet(net)
        /\ \A d \in BagToSet(net') : ~ForSocket(d, t)'
    BY <1>2, ConnectEffect
  <2>2. SocketTypes'
    BY <1>0, <2>1 DEF SocketTypes
  <2>3. ASSUME NEW d \in BagToSet(net')
        PROVE  Own(d)'
    <3>1. d \in Datagrams /\ Own(d)
      BY <1>0, <2>1
    <3>2. \A w \in Terminals \X Nat :
             w[2] <= port[w[1]] => w[2] <= port'[w[1]]
      BY <1>0, <2>1
    <3>3. /\ d.type = "MESSAGES" => d.to \in Terminals \X Nat
          /\ d.type = "GET_MESSAGES" => d.from \in Terminals \X Nat
      BY <3>1 DEF Datagrams, Publications
    <3> QED BY <3>1, <3>2, <3>3
  <2>4. ASSUME NEW u \in Terminals, NEW d \in BagToSet(net')
        PROVE  From(d, u)'
    <3>1. CASE u = t
      BY <2>1, <3>1
    <3>2. CASE u # t
      BY <1>0, <2>1, <3>2 DEF ForSocket, Here
    <3> QED BY <3>1, <3>2
  <2>5. ASSUME NEW u \in Terminals, NEW k \in DOMAIN socket'[u]
        PROVE  socket'[u][k].from = server'[u]
    <3>1. u # t
      BY <2>1
    <3> QED BY <1>0, <2>1, <3>1
  <2> QED BY <2>2, <2>3, <2>4, <2>5 DEF PortsUsed, AnswersFromServer
<1>3. ASSUME NEW t \in Terminals, UNCHANGED connection, publish(t) \/ show_n_messages(t)
      PROVE  SocketTypes' /\ PortsUsed' /\ AnswersFromServer'
  <2>0. UNCHANGED <<server, port, socket>>
    BY <1>3 DEF connection
  <2>1. PICK n \in Int, S \in SUBSET Publications :
           BagToSet(net') = BagToSet(net) \cup S \cup {Request(t, n)}
    BY <1>3, TurnEffect
  <2>2. /\ server[t] \in Servers
        /\ Request(t, n) \in [type : {"GET_MESSAGES"}, to : {server[t]}, from : {Here(t)}, n : Int]
    BY <1>3, TurnEffect
  <2>3. Here(t) = <<t, port[t]>> /\ port[t] \in Nat
    BY <1>0 DEF Here
  <2> DEFINE r == Request(t, n)
  <2>4. /\ r.type = "GET_MESSAGES" /\ r.to = server[t] /\ r.from = Here(t)
        /\ r \in Datagrams
    BY <2>2, <2>3 DEF Datagrams, Publications
  <2>5. \A d \in S : d \in Datagrams /\ d.type = "PUBLISH"
    BY DEF Datagrams, Publications
  <2> HIDE DEF r
  <2>6. BagToSet(net') = BagToSet(net) \cup S \cup {r}
    BY <2>1 DEF r
  <2>7. SocketTypes'
    BY <1>0, <2>0, <2>4, <2>5, <2>6 DEF SocketTypes
  <2>8. \A d \in BagToSet(net') : Own(d)
    BY <1>0, <2>3, <2>4, <2>5, <2>6
  <2>9. \A u \in Terminals : \A d \in BagToSet(net') : From(d, u)
    <3>1. \A u \in Terminals : From(r, u)
      BY <2>4 DEF ForSocket, Here
    <3>2. \A u \in Terminals : \A d \in S : From(d, u)
      BY <2>5 DEF ForSocket
    <3> QED BY <1>0, <2>6, <3>1, <3>2
  <2> QED BY <1>0, <2>0, <2>7, <2>8, <2>9 DEF PortsUsed, AnswersFromServer, ForSocket, Here
<1>4. ASSUME NEW t \in Terminals, Read(t)
      PROVE  SocketTypes' /\ PortsUsed' /\ AnswersFromServer'
  <2>1. /\ UNCHANGED <<server, port, net>>
        /\ socket' \in [Terminals -> Seq(Answers)]
        /\ \A k \in DOMAIN socket'[t] : /\ k + 1 \in DOMAIN socket[t]
                                        /\ socket'[t][k] = socket[t][k + 1]
        /\ \A u \in Terminals \ {t} : socket'[u] = socket[u]
    BY <1>4, ReadEffect DEF Read
  <2>2. ASSUME NEW u \in Terminals, NEW k \in DOMAIN socket'[u]
        PROVE  socket'[u][k].from = server[u]
    <3>1. CASE u = t
      BY <1>0, <2>1, <3>1
    <3>2. CASE u # t
      BY <1>0, <2>1, <3>2
    <3> QED BY <3>1, <3>2
  <2> QED BY <1>0, <2>1, <2>2 DEF SocketTypes, PortsUsed, AnswersFromServer, ForSocket, Here
<1>5. ASSUME NEW t \in Terminals, deliver(t)
      PROVE  SocketTypes' /\ PortsUsed' /\ AnswersFromServer'
  <2>1. PICK d \in BagToSet(net) :
          /\ d.type = "MESSAGES" /\ d.to = Here(t)
          /\ socket' = [socket EXCEPT ![t] = Append(@, [from |-> d.from, body |-> d.body])]
          /\ net' = net (-) SetToBag({d})
    BY <1>5 DEF deliver
  <2>2. UNCHANGED <<server, port>> /\ BagToSet(net') \subseteq BagToSet(net)
    BY <1>5, <2>1, BagDomains DEF deliver
  <2> DEFINE a == [from |-> d.from, body |-> d.body]
  <2>3. a \in Answers /\ a.from = server[t]
    <3>1. d \in Datagrams
      BY <1>0
    <3>2. d.from \in Servers /\ d.body \in Boards
      BY <2>1, <3>1 DEF Datagrams, Publications
    <3>3. d.from = server[t]
      BY <1>0, <2>1 DEF ForSocket
    <3> QED BY <3>2, <3>3 DEF Answers
  <2> HIDE DEF a
  <2>4. socket' = [socket EXCEPT ![t] = Append(socket[t], a)]
    BY <2>1 DEF a
  <2>5. socket[t] \in Seq(Answers) /\ socket'[t] = Append(socket[t], a)
    BY <1>0, <2>4
  <2>6. socket' \in [Terminals -> Seq(Answers)]
    BY <1>0, <2>3, <2>4, <2>5
  <2>7. \A k \in DOMAIN socket'[t] : \/ socket'[t][k] = a
                                     \/ k \in DOMAIN socket[t] /\ socket'[t][k] = socket[t][k]
    BY <2>3, <2>5, AppendedElements
  <2>8. \A u \in Terminals : \A k \in DOMAIN socket'[u] : socket'[u][k].from = server[u]
    BY <1>0, <2>3, <2>4, <2>7
  <2> QED BY <1>0, <2>2, <2>6, <2>8 DEF SocketTypes, PortsUsed, AnswersFromServer, ForSocket, Here
<1>6. ASSUME NEW s \in Servers, publish_message(s)
      PROVE  SocketTypes' /\ PortsUsed' /\ AnswersFromServer'
  <2>1. UNCHANGED <<server, port, socket>> /\ BagToSet(net') \subseteq BagToSet(net)
    BY <1>6, BagDomains DEF publish_message, terminals
  <2> QED BY <1>0, <2>1 DEF SocketTypes, PortsUsed, AnswersFromServer, ForSocket, Here
<1>7. ASSUME NEW s \in Servers, send_messages_to_terminal(s)
      PROVE  SocketTypes' /\ PortsUsed' /\ AnswersFromServer'
  <2>1. PICK d \in BagToSet(net) :
          /\ d.type = "GET_MESSAGES" /\ d.to = s
          /\ net' = (net (-) SetToBag({d})) (+)
                    SetToBag({[type |-> "MESSAGES", from |-> s, to |-> d.from,
                               body |-> Latest(d.n, kept[s])]})
    BY <1>7 DEF send_messages_to_terminal
  <2> DEFINE a == [type |-> "MESSAGES", from |-> s, to |-> d.from,
                   body |-> Latest(d.n, kept[s])]
  <2>2. UNCHANGED <<server, port, socket>>
    BY <1>7 DEF send_messages_to_terminal, terminals
  <2>3. BagToSet(net') \subseteq BagToSet(net) \cup {a}
    BY <2>1, TakeEffect
  <2>4. d \in Datagrams /\ d.from \in Terminals \X Nat /\ d.n \in Int
    BY <1>0, <2>1 DEF Datagrams, Publications
  <2>5. Latest(d.n, kept[s]) \in Boards
    BY <2>4, LatestIsBoard DEF RmbInv, TypeOK
  <2>6. /\ a.type = "MESSAGES" /\ a.from = s /\ a.to = d.from
        /\ a \in Datagrams
    BY <2>4, <2>5 DEF Datagrams, Publications
  <2> HIDE DEF a
  <2>7. Own(a)
    BY <1>0, <2>1, <2>6
  <2>8. \A u \in Terminals : From(a, u)
    BY <1>0, <2>1, <2>6 DEF ForSocket
  <2> QED BY <1>0, <2>2, <2>3, <2>6, <2>7, <2>8
          DEF SocketTypes, PortsUsed, AnswersFromServer, ForSocket, Here
<1> QED BY <1>1, <1>2, <1>3, <1>4, <1>5, <1>6, <1>7, SocketSteps

-----------------------------------------------------------------------------
(* Types *)

\* What is typed next, and what is left of the script.
LEMMA UserTypesStep ==
  ASSUME RmbInv, Next
  PROVE  UserTypes'
<1>0. /\ script \in [Terminals -> Seq(Typable)]
      /\ typed \in [Terminals -> Typable \cup {ShowServers}]
      /\ heeded \in [Terminals -> BOOLEAN] /\ told \in [Terminals -> BOOLEAN]
  BY DEF RmbInv, UserTypes
<1>1. ASSUME NEW t \in Terminals, Typing(t)
      PROVE  /\ script' \in [Terminals -> Seq(Typable)]
             /\ typed' \in [Terminals -> Typable \cup {ShowServers}]
             /\ told' \in [Terminals -> BOOLEAN]
  <2>1. script[t] \in Seq(Typable) /\ script[t] # <<>>
    BY <1>0, <1>1 DEF Typing
  <2>2. Head(script[t]) \in Typable /\ Tail(script[t]) \in Seq(Typable)
    BY <2>1
  <2> QED BY <1>0, <1>1, <2>2 DEF Typing
<1>2. ASSUME NEW t \in Terminals, type_command(t) \/ show_servers(t)
      PROVE  UserTypes'
  BY <1>0, <1>1, <1>2 DEF UserTypes, type_command, show_servers
<1>3. ASSUME NEW t \in Terminals, no_servers(t) \/ failover(t) \/ reconnect(t)
      PROVE  UserTypes'
  BY <1>0, <1>3 DEF UserTypes, no_servers, failover, reconnect, Tell
<1>4. ASSUME NEW t \in Terminals, exit(t) \/ start(t) \/ timeout(t)
      PROVE  UserTypes'
  BY <1>0, <1>4 DEF UserTypes, exit, start, timeout, command
<1>5. ASSUME NEW t \in Terminals, publish(t) \/ show_n_messages(t)
      PROVE  UserTypes'
  BY <1>0, <1>5 DEF UserTypes, publish, show_n_messages, Turn
<1>6. ASSUME NEW t \in Terminals, read_publish(t) \/ read_show(t) \/ print_stray(t)
      PROVE  UserTypes'
  BY <1>0, <1>6 DEF UserTypes, read_publish, read_show, print_stray, Read, command
<1>7. ASSUME NEW t \in Terminals, deliver(t)
      PROVE  UserTypes'
  BY <1>0, <1>7 DEF UserTypes, deliver, command
<1>8. ASSUME NEW s \in Servers, publish_message(s) \/ send_messages_to_terminal(s) \/ hear(s)
                                \/ stop(s) \/ lapse(s) \/ register(s)
      PROVE  UserTypes'
  BY <1>0, <1>8 DEF UserTypes, publish_message, send_messages_to_terminal, hear, stop, lapse,
                    register, terminals
<1> QED BY <1>2, <1>3, <1>4, <1>5, <1>6, <1>7, <1>8 DEF Next, Step, User, Environment

\* The program counters and the tries.
Places == {"start", "idle", "unconnected", "send", "wait", "failover", "off"}

CounterTypes ==
  /\ pc \in [Terminals -> Places]
  /\ tries \in [Terminals -> 0 .. UDP_NUM_TRIES]

\* The tries stay within their bounds, and there is one left whenever the
\* terminal sends.
LEMMA CountersStep ==
  ASSUME RmbInv, Next
  PROVE  CounterTypes' /\ Turns'
<1>0. /\ pc \in [Terminals -> Places]
      /\ tries \in [Terminals -> 0 .. UDP_NUM_TRIES]
      /\ \A t \in Terminals : pc[t] = "send" => tries[t] > 0
      /\ \A t \in Terminals : pc[t] = "start" => typed[t] = ShowServers
      /\ UDP_NUM_TRIES \in Nat \ {0}
  BY RmbAssumption DEF RmbInv, TypeOK, Turns, Places
<1>1. ASSUME NEW t \in Terminals, NEW label \in Places \ {"start", "send"}, Goto(t, label),
             UNCHANGED tries, \A u \in Terminals \ {t} : typed'[u] = typed[u]
      PROVE  CounterTypes' /\ Turns'
  BY <1>0, <1>1 DEF CounterTypes, Turns, Goto
<1>2. ASSUME NEW t \in Terminals, Goto(t, Again(t)), UNCHANGED <<tries, typed>>
      PROVE  CounterTypes' /\ Turns'
  <2>1. Again(t) \in Places \ {"start"} /\ (Again(t) = "send" => tries[t] > 0)
    BY DEF Again, Places
  <2> QED BY <1>0, <1>2, <2>1 DEF CounterTypes, Turns, Goto
<1>3. ASSUME NEW t \in Terminals, NEW label \in {"unconnected", "send"}, Goto(t, label),
             tries' = [tries EXCEPT ![t] = UDP_NUM_TRIES],
             \A u \in Terminals \ {t} : typed'[u] = typed[u]
      PROVE  CounterTypes' /\ Turns'
  BY <1>0, <1>3 DEF CounterTypes, Turns, Goto, Places
<1>4. ASSUME UNCHANGED <<pc, tries, typed>>
      PROVE  CounterTypes' /\ Turns'
  BY <1>0, <1>4 DEF CounterTypes, Turns
<1>5. ASSUME NEW t \in Terminals, NEW s, Goto(t, IF s = NULL THEN "off" ELSE "idle"),
             UNCHANGED <<tries, typed>>
      PROVE  CounterTypes' /\ Turns'
  <2>1. (IF s = NULL THEN "off" ELSE "idle") \in Places \ {"start", "send"}
    BY DEF Places
  <2> QED BY <1>1, <1>5, <2>1
<1>6. \A t \in Terminals : Typing(t) => \A u \in Terminals \ {t} : typed'[u] = typed[u]
  BY DEF Typing, RmbInv, UserTypes
<1>7. ASSUME NEW t \in Terminals, start(t) \/ no_servers(t) \/ failover(t) \/ reconnect(t)
      PROVE  CounterTypes' /\ Turns'
  <2>1. "off" \in Places \ {"start", "send"} /\ "idle" \in Places \ {"start", "send"}
    BY DEF Places
  <2>2. CASE start(t)
    BY <1>5, <2>2 DEF start, command
  <2>3. CASE no_servers(t)
    BY <1>1, <2>1, <2>3 DEF no_servers
  <2>4. CASE failover(t)
    BY <1>1, <2>1, <2>4 DEF failover
  <2>5. CASE reconnect(t)
    BY <1>1, <1>3, <2>1, <2>5 DEF reconnect
  <2> QED BY <1>7, <2>2, <2>3, <2>4, <2>5
<1>8. ASSUME NEW t \in Terminals, type_command(t)
      PROVE  CounterTypes' /\ Turns'
  <2>1. (IF server[t] = NULL THEN "unconnected" ELSE "send") \in {"unconnected", "send"}
    OBVIOUS
  <2> QED BY <1>3, <1>6, <1>8, <2>1 DEF type_command
<1>9. ASSUME NEW t \in Terminals, show_servers(t) \/ exit(t)
      PROVE  CounterTypes' /\ Turns'
  <2>1. "off" \in Places \ {"start", "send"} /\ "idle" \in Places \ {"start", "send"}
    BY DEF Places
  <2> QED BY <1>1, <1>6, <1>9, <2>1 DEF show_servers, exit, command
<1>10. ASSUME NEW t \in Terminals, publish(t) \/ show_n_messages(t)
       PROVE  CounterTypes' /\ Turns'
  <2>1. /\ pc[t] = "send" /\ tries' = [tries EXCEPT ![t] = @ - 1]
        /\ pc' = [pc EXCEPT ![t] = "wait"] /\ UNCHANGED typed
    BY <1>10 DEF publish, show_n_messages, Turn, Goto
  <2>2. tries[t] - 1 \in 0 .. UDP_NUM_TRIES
    BY <1>0, <2>1
  <2>3. tries' \in [Terminals -> 0 .. UDP_NUM_TRIES] /\ pc' \in [Terminals -> Places]
    BY <1>0, <2>1, <2>2 DEF Places
  <2> QED BY <1>0, <2>1, <2>3 DEF CounterTypes, Turns
<1>11. ASSUME NEW t \in Terminals, timeout(t)
       PROVE  CounterTypes' /\ Turns'
  BY <1>2, <1>11 DEF timeout, command
<1>12. ASSUME NEW t \in Terminals, read_publish(t) \/ read_show(t)
       PROVE  CounterTypes' /\ Turns'
  <2>1. "idle" \in Places \ {"start", "send"}
    BY DEF Places
  <2>2. Goto(t, "idle") \/ Goto(t, Again(t))
    BY <1>12 DEF read_publish, read_show
  <2>3. UNCHANGED <<tries, typed>>
    BY <1>12 DEF read_publish, read_show, Read, command
  <2> QED BY <1>1, <1>2, <2>1, <2>2, <2>3
<1>13. ASSUME NEW t \in Terminals, print_stray(t) \/ deliver(t)
       PROVE  CounterTypes' /\ Turns'
  BY <1>4, <1>13 DEF print_stray, Read, deliver, command
<1>14. ASSUME NEW s \in Servers, publish_message(s) \/ send_messages_to_terminal(s) \/ hear(s)
                                 \/ stop(s) \/ lapse(s) \/ register(s)
       PROVE  CounterTypes' /\ Turns'
  BY <1>4, <1>14 DEF publish_message, send_messages_to_terminal, hear, stop, lapse,
                     register, terminals
<1> QED BY <1>7, <1>8, <1>9, <1>10, <1>11, <1>12, <1>13, <1>14 DEF Next, Step, User, Environment

\* The texts of more messages.
LEMMA TextsInMore ==
  /\ \A A, B : A \subseteq B => TextsIn(A) \subseteq TextsIn(B)
  /\ \A A, m : TextsIn(A \cup {m}) = TextsIn(A) \cup {m.text}
BY DEF TextsIn

\* The servers: what one was given it never loses, and it keeps nothing else.
LEMMA ServersStep ==
  ASSUME RmbInv, Next
  PROVE  /\ kept' \in [Servers -> Boards] /\ received' \in [Servers -> SUBSET Messages]
         /\ up' \subseteq Servers /\ listed' \subseteq Servers
         /\ \A s \in Servers : received[s] \subseteq received'[s]
         /\ \A s \in Servers : TextsOf(kept'[s]) \subseteq TextsIn(received'[s])
<1> DEFINE Goal == /\ kept' \in [Servers -> Boards] /\ received' \in [Servers -> SUBSET Messages]
                   /\ up' \subseteq Servers /\ listed' \subseteq Servers
                   /\ \A s \in Servers : received[s] \subseteq received'[s]
                   /\ \A s \in Servers : TextsOf(kept'[s]) \subseteq TextsIn(received'[s])
<1>0. /\ kept \in [Servers -> Boards] /\ received \in [Servers -> SUBSET Messages]
      /\ up \subseteq Servers /\ listed \subseteq Servers
      /\ \A s \in Servers : TextsOf(kept[s]) \subseteq TextsIn(received[s])
  BY DEF RmbInv, TypeOK, KeptWereReceived
<1>1. CASE UNCHANGED servers /\ listed' \subseteq Servers
  BY <1>0, <1>1 DEF servers
<1>2. ASSUME NEW s \in Servers, NEW m \in Messages, NEW x \in Texts, x = m.text,
             kept' = [kept EXCEPT ![s] = Latest(M, Append(@, x))],
             received' = [received EXCEPT ![s] = @ \cup {m}], UNCHANGED <<up, listed>>
      PROVE  Goal
  <2> DEFINE q == Latest(M, Append(kept[s], x))
  <2>1. q \in Boards /\ TextsOf(q) \subseteq TextsOf(kept[s]) \cup {x}
    BY <1>0, LatestWithText
  <2>2. kept' = [kept EXCEPT ![s] = q]
    BY <1>2
  <2> HIDE DEF q
  <2>3. kept' \in [Servers -> Boards] /\ received' \in [Servers -> SUBSET Messages]
    BY <1>0, <1>2, <2>1, <2>2
  <2>4. \A r \in Servers : received[r] \subseteq received'[r]
    BY <1>0, <1>2
  <2>5. TextsOf(kept'[s]) \subseteq TextsIn(received'[s])
    <3>1. received'[s] = received[s] \cup {m} /\ kept'[s] = q
      BY <1>0, <1>2, <2>2
    <3>2. TextsIn(received'[s]) = TextsIn(received[s]) \cup {x}
      BY <1>2, <3>1, TextsInMore
    <3> QED BY <1>0, <2>1, <3>1, <3>2
  <2>6. \A r \in Servers \ {s} : TextsOf(kept'[r]) \subseteq TextsIn(received'[r])
    BY <1>0, <1>2, <2>2
  <2> QED BY <1>0, <1>2, <2>3, <2>4, <2>5, <2>6
<1>3. ASSUME NEW t \in Terminals, Step(t) \/ User(t) \/ print_stray(t) \/ deliver(t)
      PROVE  UNCHANGED <<servers, listed>>
  BY <1>3 DEF Step, User, print_stray, deliver, start, no_servers, failover, reconnect, publish,
              show_n_messages, Turn, timeout, read_publish, read_show, Read, type_command,
              show_servers, exit, Typing, world
<1>4. ASSUME NEW s \in Servers, publish_message(s)
      PROVE  Goal
  <2>1. PICK d \in BagToSet(net) :
          /\ d.type = "PUBLISH" /\ d.to = s
          /\ kept' = [kept EXCEPT ![s] = Latest(M, Append(@, d.text))]
          /\ received' = [received EXCEPT ![s] = @ \cup {[of |-> d.of, text |-> d.text]}]
    BY <1>4 DEF publish_message
  <2>2. d.text \in Texts /\ d.of \in Terminals \X Nat
    BY <2>1 DEF RmbInv, SocketTypes, Datagrams, Publications
  <2>3. UNCHANGED <<up, listed>> /\ [of |-> d.of, text |-> d.text] \in Messages
    BY <1>4, <2>2 DEF publish_message, Messages
  <2> QED BY <1>2, <2>1, <2>2, <2>3
<1>5. ASSUME NEW s \in Servers, hear(s)
      PROVE  Goal
  <2>1. PICK x \in Others :
          /\ kept' = [kept EXCEPT ![s] = Latest(M, Append(@, x))]
          /\ received' = [received EXCEPT ![s] = @ \cup {[of |-> NULL, text |-> x]}]
    BY <1>5 DEF hear
  <2>2. x \in Texts
    BY DEF Texts
  <2>3. UNCHANGED <<up, listed>> /\ [of |-> NULL, text |-> x] \in Messages
    BY <1>5, <2>2 DEF hear, Messages
  <2> QED BY <1>2, <2>1, <2>2, <2>3
<1>6. ASSUME NEW s \in Servers, send_messages_to_terminal(s) \/ lapse(s)
      PROVE  Goal
  BY <1>0, <1>1, <1>6 DEF send_messages_to_terminal, lapse, world
<1>7. ASSUME NEW s \in Servers, stop(s)
      PROVE  Goal
  BY <1>0, <1>7 DEF stop
<1>8. ASSUME NEW s \in Servers, register(s)
      PROVE  Goal
  <2>1. <<>> \in Boards /\ TextsOf(<<>>) = {}
    <3>1. <<>> \in Seq(Texts) /\ Len(<<>>) = 0 /\ Len(<<>>) <= M
      BY RmbAssumption
    <3>2. <<>> \in Boards
      BY <3>1, BoardsAreSequences
    <3>3. DOMAIN <<>> = {}
      OBVIOUS
    <3> QED BY <3>2, <3>3 DEF TextsOf
  <2>2. \/ kept' = kept
        \/ kept' = [kept EXCEPT ![s] = <<>>]
    BY <1>8 DEF register
  <2>3. UNCHANGED received /\ up' \subseteq Servers /\ listed' \subseteq Servers
    BY <1>0, <1>8 DEF register
  <2> QED BY <1>0, <2>1, <2>2, <2>3
<1> QED BY <1>0, <1>1, <1>3, <1>4, <1>5, <1>6, <1>7, <1>8 DEF Next, Environment

\* Only a terminal with a server sends, waits, and has answers.
Connected ==
  \A t \in Terminals : /\ pc[t] \in {"send", "wait", "failover"} => server[t] # NULL
                       /\ server[t] = NULL => socket[t] = <<>>

LEMMA ConnectedStep ==
  ASSUME RmbInv, Next
  PROVE  Connected'
<1>0. /\ pc \in [Terminals -> Places] /\ server \in [Terminals -> Servers \cup {NULL}]
      /\ Connected /\ NULL \notin Servers
  BY RmbAssumption DEF RmbInv, TypeOK, Places, Connected
<1>1. \A t \in Terminals, s \in Servers \cup {NULL} : Connect(t, s) =>
        /\ server'[t] = s /\ socket'[t] = <<>>
        /\ \A u \in Terminals \ {t} : server'[u] = server[u] /\ socket'[u] = socket[u]
  BY ConnectEffect
<1>2. ASSUME NEW t \in Terminals, start(t) \/ failover(t) \/ reconnect(t)
      PROVE  Connected'
  <2>1. \/ pc' = [pc EXCEPT ![t] = "idle"] /\ UNCHANGED connection
        \/ \E s \in Servers \cup {NULL} : \E label \in {"off", "idle", "send"} :
             /\ Connect(t, s) /\ pc' = [pc EXCEPT ![t] = label]
             /\ label = "send" => s # NULL
    BY <1>2, ChoiceIsServer DEF start, failover, reconnect, Goto
  <2> QED BY <1>0, <1>1, <2>1 DEF Connected, connection
<1>3. ASSUME NEW t \in Terminals, no_servers(t) \/ User(t) \/ publish(t) \/ show_n_messages(t)
                                   \/ timeout(t)
      PROVE  Connected'
  <2>1. UNCHANGED connection
    BY <1>3 DEF no_servers, User, type_command, show_servers, exit, Typing, publish,
                show_n_messages, Turn, timeout
  <2>2. \/ \E label \in {"off", "idle", "unconnected"} : pc' = [pc EXCEPT ![t] = label]
        \/ server[t] # NULL /\ \E label \in Places : pc' = [pc EXCEPT ![t] = label]
    BY <1>0, <1>3 DEF no_servers, User, type_command, show_servers, exit, publish,
                show_n_messages, Turn, timeout, Goto, Again, Places, Connected
  <2> QED BY <1>0, <2>1, <2>2 DEF Connected, connection
<1>4. ASSUME NEW t \in Terminals, read_publish(t) \/ read_show(t) \/ print_stray(t)
      PROVE  Connected'
  <2>1. Read(t)
    BY <1>4 DEF read_publish, read_show, print_stray
  <2>2. /\ server' = server /\ server[t] \in Servers
        /\ \A u \in Terminals \ {t} : socket'[u] = socket[u]
    BY <2>1, ReadEffect
  <2>3. UNCHANGED pc \/ \E label \in Places : pc' = [pc EXCEPT ![t] = label]
    BY <1>4 DEF read_publish, read_show, print_stray, Goto, Again, Places
  <2> QED BY <1>0, <2>2, <2>3 DEF Connected
<1>5. ASSUME NEW t \in Terminals, deliver(t)
      PROVE  Connected'
  <2>1. PICK d \in BagToSet(net) : d.type = "MESSAGES" /\ d.to = Here(t)
    BY <1>5 DEF deliver
  <2>2. d.from = server[t]
    BY <2>1 DEF RmbInv, AnswersFromServer, ForSocket
  <2>3. d.from \in Servers
    BY <2>1 DEF RmbInv, SocketTypes, Datagrams, Publications
  <2>4. UNCHANGED <<pc, server>> /\ server[t] # NULL
    BY <1>0, <1>5, <2>2, <2>3 DEF deliver
  <2>5. \A u \in Terminals \ {t} : socket'[u] = socket[u]
    BY <1>5 DEF deliver, RmbInv, SocketTypes
  <2> QED BY <1>0, <2>4, <2>5 DEF Connected
<1>6. ASSUME NEW s \in Servers, publish_message(s) \/ send_messages_to_terminal(s) \/ hear(s)
                                \/ stop(s) \/ lapse(s) \/ register(s)
      PROVE  Connected'
  BY <1>0, <1>6 DEF Connected, publish_message, send_messages_to_terminal, hear, stop, lapse,
                    register, terminals
<1> QED BY <1>2, <1>3, <1>4, <1>5, <1>6 DEF Next, Step, Environment

LEMMA TypeOKStep ==
  ASSUME RmbInv, Next
  PROVE  TypeOK'
<1>1. server' \in [Terminals -> Servers \cup {NULL}]
  <2>1. server \in [Terminals -> Servers \cup {NULL}]
    BY DEF RmbInv, TypeOK
  <2>2. CASE UNCHANGED server
    BY <2>1, <2>2
  <2>3. ASSUME NEW t \in Terminals, Read(t)
        PROVE  UNCHANGED server
    BY <2>3, ReadEffect
  <2>4. ASSUME NEW t \in Terminals, deliver(t)
        PROVE  UNCHANGED server
    BY <2>4 DEF deliver
  <2>5. ASSUME NEW s \in Servers, publish_message(s) \/ send_messages_to_terminal(s)
        PROVE  UNCHANGED server
    BY <2>5 DEF publish_message, send_messages_to_terminal, terminals
  <2> QED BY <2>2, <2>3, <2>4, <2>5, SocketSteps, ConnectEffect DEF connection
<1>2. SocketTypes' /\ CounterTypes' /\ Connected'
  BY SocketsStep, CountersStep, ConnectedStep
<1>3. /\ kept' \in [Servers -> Boards] /\ received' \in [Servers -> SUBSET Messages]
      /\ up' \subseteq Servers /\ listed' \subseteq Servers
  BY ServersStep
<1> QED BY <1>1, <1>2, <1>3 DEF TypeOK, SocketTypes, CounterTypes, Connected, Places, Answers

-----------------------------------------------------------------------------
(* What a server kept or answered, it was given *)

LEMMA KeptStep ==
  ASSUME RmbInv, Next
  PROVE  KeptWereReceived'
<1> DEFINE Sound(from, board) == TextsOf(board) \subseteq TextsIn(received'[from])
<1>0. /\ \A s \in Servers : received[s] \subseteq received'[s]
      /\ \A s \in Servers : Sound(s, kept'[s])
      /\ \A s \in Servers : TextsIn(received[s]) \subseteq TextsIn(received'[s])
      /\ BagToSet(net) \subseteq Datagrams /\ socket \in [Terminals -> Seq(Answers)]
  BY ServersStep, TextsInMore DEF RmbInv, SocketTypes
<1>1. \A s \in Servers : Sound(s, kept[s])
  BY <1>0 DEF RmbInv, KeptWereReceived
<1>2. ASSUME NEW d \in BagToSet(net), d.type = "MESSAGES"
      PROVE  Sound(d.from, d.body) /\ d.from \in Servers
  <2>1. d.from \in Servers
    BY <1>0, <1>2 DEF Datagrams, Publications
  <2>2. TextsOf(d.body) \subseteq TextsIn(received[d.from])
    BY <1>2 DEF RmbInv, KeptWereReceived
  <2> QED BY <1>0, <2>1, <2>2
<1>3. ASSUME NEW t \in Terminals, NEW k \in DOMAIN socket[t]
      PROVE  Sound(socket[t][k].from, socket[t][k].body)
  <2>1. socket[t][k].from \in Servers
    <3>1. socket[t] \in Seq(Answers)
      BY <1>0
    <3>2. socket[t][k] \in Answers
      BY <3>1
    <3> QED BY <3>2 DEF Answers
  <2>2. TextsOf(socket[t][k].body) \subseteq TextsIn(received[socket[t][k].from])
    BY DEF RmbInv, KeptWereReceived
  <2> QED BY <1>0, <2>1, <2>2
<1> HIDE DEF Sound
<1>4. ASSUME NEW d \in BagToSet(net'), d.type = "MESSAGES"
      PROVE  Sound(d.from, d.body)
  <2>1. CASE d \in BagToSet(net)
    BY <1>2, <1>4, <2>1
  <2>2. CASE UNCHANGED net
    BY <2>1, <2>2
  <2>3. ASSUME NEW t \in Terminals, NEW s \in Servers \cup {NULL}, Connect(t, s)
        PROVE  d \in BagToSet(net)
    BY <2>3, ConnectEffect
  <2>4. ASSUME NEW t \in Terminals, publish(t) \/ show_n_messages(t)
        PROVE  d \in BagToSet(net)
    <3>1. PICK n \in Int, S \in SUBSET Publications :
             BagToSet(net') = BagToSet(net) \cup S \cup {Request(t, n)}
      BY <2>4, TurnEffect
    <3>2. \A e \in S : e.type = "PUBLISH"
      BY DEF Publications
    <3>3. Request(t, n).type = "GET_MESSAGES"
      BY DEF Request
    <3> QED BY <1>4, <3>1, <3>2, <3>3
  <2>5. ASSUME NEW t \in Terminals, Read(t)
        PROVE  UNCHANGED net
    BY <2>5 DEF Read
  <2>6. ASSUME NEW t \in Terminals, deliver(t)
        PROVE  d \in BagToSet(net)
    BY <2>6, BagDomains DEF deliver
  <2>7. ASSUME NEW s \in Servers, publish_message(s)
        PROVE  d \in BagToSet(net)
    BY <2>7, BagDomains DEF publish_message
  <2>8. ASSUME NEW s \in Servers, send_messages_to_terminal(s), d \notin BagToSet(net)
        PROVE  Sound(d.from, d.body)
    <3>1. PICK r \in BagToSet(net) :
            /\ r.type = "GET_MESSAGES" /\ r.to = s
            /\ net' = (net (-) SetToBag({r})) (+)
                      SetToBag({[type |-> "MESSAGES", from |-> s, to |-> r.from,
                                 body |-> Latest(r.n, kept[s])]})
      BY <2>8 DEF send_messages_to_terminal
    <3> DEFINE a == [type |-> "MESSAGES", from |-> s, to |-> r.from,
                     body |-> Latest(r.n, kept[s])]
    <3>2. d = a
      <4> HIDE DEF a
      <4>1. BagToSet((net (-) SetToBag({r})) (+) SetToBag({a})) \subseteq BagToSet(net) \cup {a}
        BY TakeEffect
      <4>2. net' = (net (-) SetToBag({r})) (+) SetToBag({a})
        BY <3>1 DEF a
      <4> QED BY <1>4, <2>8, <4>1, <4>2
    <3>3. r.n \in Int /\ kept[s] \in Boards
      BY <1>0, <3>1 DEF Datagrams, Publications, RmbInv, TypeOK
    <3>4. TextsOf(d.body) \subseteq TextsOf(kept[s]) /\ d.from = s
      BY <3>2, <3>3, LatestIsBoard
    <3> QED BY <1>1, <3>4 DEF Sound
  <2> QED BY <2>1, <2>2, <2>3, <2>4, <2>5, <2>6, <2>7, <2>8, SocketSteps
<1>5. ASSUME NEW u \in Terminals, NEW k \in DOMAIN socket'[u]
      PROVE  Sound(socket'[u][k].from, socket'[u][k].body)
  <2>1. CASE socket'[u] = socket[u]
    BY <1>3, <2>1
  <2>2. CASE UNCHANGED <<connection, net>>
    BY <2>1, <2>2 DEF connection
  <2>3. ASSUME NEW t \in Terminals, NEW s \in Servers \cup {NULL}, Connect(t, s)
        PROVE  socket'[u] = socket[u]
    BY <2>3, ConnectEffect
  <2>4. CASE UNCHANGED connection
    BY <2>1, <2>4 DEF connection
  <2>5. ASSUME NEW t \in Terminals, Read(t)
        PROVE  Sound(socket'[u][k].from, socket'[u][k].body)
    <3>1. CASE u = t
      BY <1>3, <2>5, <3>1, ReadEffect
    <3>2. CASE u # t
      BY <1>3, <2>5, <3>2, ReadEffect
    <3> QED BY <3>1, <3>2
  <2>6. ASSUME NEW t \in Terminals, deliver(t)
        PROVE  Sound(socket'[u][k].from, socket'[u][k].body)
    <3>1. PICK d \in BagToSet(net) :
            /\ d.type = "MESSAGES"
            /\ socket' = [socket EXCEPT ![t] = Append(@, [from |-> d.from, body |-> d.body])]
      BY <2>6 DEF deliver
    <3> DEFINE a == [from |-> d.from, body |-> d.body]
    <3>2. Sound(a.from, a.body) /\ a \in Answers
      BY <1>0, <1>2, <3>1 DEF Datagrams, Publications, Answers
    <3> HIDE DEF a
    <3>3. socket' = [socket EXCEPT ![t] = Append(socket[t], a)]
      BY <3>1 DEF a
    <3>4. socket[t] \in Seq(Answers) /\ socket'[t] = Append(socket[t], a)
      BY <1>0, <3>3
    <3>5. CASE u = t
      BY <1>3, <3>2, <3>4, <3>5, AppendedElements
    <3>6. CASE u # t
      BY <1>0, <2>1, <3>3, <3>6
    <3> QED BY <3>5, <3>6
  <2>7. ASSUME NEW s \in Servers, publish_message(s) \/ send_messages_to_terminal(s)
        PROVE  socket'[u] = socket[u]
    BY <2>7 DEF publish_message, send_messages_to_terminal, terminals
  <2> QED BY <2>1, <2>2, <2>3, <2>4, <2>5, <2>6, <2>7, SocketSteps
<1> QED BY <1>0, <1>4, <1>5 DEF KeptWereReceived, Sound

-----------------------------------------------------------------------------
(* A publish that ends quietly was received, or its text is in another *)

Covered(t) == Received(t) \/ Mistakable(t)

SuccessFor(t) == PublishedQuietly(t) /\ heeded[t] => Covered(t)

\* What the user of one terminal sees is not changed by the others.
LEMMA OthersUnseen ==
  ASSUME RmbInv, NEW t \in Terminals, Step(t) \/ User(t) \/ print_stray(t),
         NEW u \in Terminals \ {t}
  PROVE  /\ pc'[u] = pc[u] /\ typed'[u] = typed[u] /\ told'[u] = told[u]
         /\ heeded'[u] = heeded[u] /\ server'[u] = server[u] /\ script'[u] = script[u]
<1>0. /\ pc \in [Terminals -> Places] /\ server \in [Terminals -> Servers \cup {NULL}]
      /\ typed \in [Terminals -> Typable \cup {ShowServers}]
      /\ heeded \in [Terminals -> BOOLEAN] /\ told \in [Terminals -> BOOLEAN]
      /\ script \in [Terminals -> Seq(Typable)]
  BY DEF RmbInv, TypeOK, UserTypes, Places
<1>1. CASE start(t) \/ no_servers(t) \/ failover(t) \/ reconnect(t)
  BY <1>0, <1>1 DEF start, no_servers, failover, reconnect, Goto, Tell, command, connection, Connect
<1>2. CASE publish(t) \/ show_n_messages(t) \/ timeout(t)
  BY <1>0, <1>2 DEF publish, show_n_messages, Turn, timeout, Goto, command, connection
<1>3. CASE read_publish(t) \/ read_show(t) \/ print_stray(t)
  BY <1>0, <1>3 DEF read_publish, read_show, print_stray, Read, Goto, command
<1>4. CASE User(t)
  BY <1>0, <1>4 DEF User, type_command, show_servers, exit, Typing, Goto, command, connection
<1> QED BY <1>1, <1>2, <1>3, <1>4 DEF Step

LEMMA SuccessStep ==
  ASSUME RmbInv, Next
  PROVE  SuccessMeansReceived'
<1>0. /\ pc \in [Terminals -> Places] /\ server \in [Terminals -> Servers \cup {NULL}]
      /\ typed \in [Terminals -> Typable \cup {ShowServers}]
      /\ heeded \in [Terminals -> BOOLEAN] /\ told \in [Terminals -> BOOLEAN]
      /\ \A t \in Terminals : SuccessFor(t)
      /\ \A t \in Terminals : pc[t] = "start" => typed[t] = ShowServers
      /\ \A s \in Servers : received[s] \subseteq received'[s]
      /\ ShowServers.op = "show_servers"
  BY ServersStep DEF RmbInv, TypeOK, UserTypes, Turns, SuccessMeansReceived, SuccessFor, Places,
                     ShowServers, Covered
<1>1. ASSUME NEW u \in Terminals, server'[u] = server[u], typed'[u] = typed[u],
             script'[u] = script[u], Covered(u)
      PROVE  Covered(u)'
  <2>1. CASE <<typed[u].text, Header>> \in Occurs
    BY <1>1, <2>1 DEF Covered, Mistakable
  <2>2. CASE server[u] # NULL
    <3>1. server[u] \in Servers /\ Ticket(u)' = Ticket(u)
      BY <1>0, <1>1, <2>2 DEF Ticket
    <3>2. \A m \in received[server[u]] : m \in received'[server'[u]]
      BY <1>0, <1>1, <3>1
    <3> QED BY <1>1, <2>2, <3>1, <3>2 DEF Covered, Received, Mistakable
  <2> QED BY <1>1, <2>1, <2>2 DEF Covered, Received, Mistakable
<1>2. ASSUME NEW u \in Terminals,
             pc'[u] = pc[u], typed'[u] = typed[u], told'[u] = told[u],
             heeded'[u] = heeded[u], server'[u] = server[u], script'[u] = script[u]
      PROVE  SuccessFor(u)'
  BY <1>0, <1>1, <1>2 DEF SuccessFor, PublishedQuietly
<1>3. ASSUME NEW t \in Terminals, Step(t) \/ User(t) \/ print_stray(t)
      PROVE  SuccessFor(t)'
  <2>1. CASE start(t)
    <3>1. typed'[t] = ShowServers
      BY <1>0, <2>1 DEF start, command
    <3> QED BY <1>0, <3>1 DEF SuccessFor, PublishedQuietly
  <2>2. CASE no_servers(t) \/ failover(t)
    BY <1>0, <2>2 DEF no_servers, failover, Tell, SuccessFor, PublishedQuietly
  <2>3. CASE reconnect(t)
    BY <1>0, <2>3 DEF reconnect, Tell, Goto, SuccessFor, PublishedQuietly
  <2>4. CASE type_command(t)
    BY <1>0, <2>4 DEF type_command, Goto, SuccessFor, PublishedQuietly
  <2>5. CASE show_servers(t)
    BY <1>0, <2>5 DEF show_servers, Typing, SuccessFor, PublishedQuietly
  <2>6. CASE exit(t)
    BY <1>0, <2>6 DEF exit, Goto, SuccessFor, PublishedQuietly
  <2>7. CASE publish(t) \/ show_n_messages(t)
    BY <1>0, <2>7 DEF publish, show_n_messages, Turn, Goto, SuccessFor, PublishedQuietly
  <2>8. Goto(t, Again(t)) /\ heeded'[t] = heeded[t] => SuccessFor(t)'
    BY <1>0 DEF Again, Goto, SuccessFor, PublishedQuietly
  <2>9. CASE timeout(t)
    BY <2>8, <2>9 DEF timeout, command
  <2>10. CASE read_publish(t)
    <3> DEFINE a == Head(socket[t])
    <3>1. /\ Read(t) /\ typed[t].op = "publish"
          /\ Found(typed[t].text, a.body) \/ Goto(t, Again(t))
      BY <2>10 DEF read_publish
    <3>2. /\ server' = server /\ a.from = server[t] /\ server[t] \in Servers
          /\ a = socket[t][1] /\ 1 \in DOMAIN socket[t]
      BY <3>1, ReadEffect
    <3>3. UNCHANGED <<typed, told, heeded, script>>
      BY <3>1 DEF Read, command
    <3>4. TextsOf(a.body) \subseteq TextsIn(received[server[t]])
      BY <3>2 DEF RmbInv, KeptWereReceived
    <3> HIDE DEF a
    <3>5. CASE Found(typed[t].text, a.body)
      <4>1. server[t] # NULL
        BY <3>2, RmbAssumption
      <4>2. \/ <<typed[t].text, Header>> \in Occurs
            \/ \E m \in received[server[t]] : <<typed[t].text, m.text>> \in Occurs
        BY <3>4, <3>5 DEF Found, TextsOf, TextsIn
      <4>3. Covered(t)
        BY <4>1, <4>2 DEF Covered, Received, Mistakable
      <4>4. Covered(t)'
        BY <1>1, <3>2, <3>3, <4>3
      <4> QED BY <4>4 DEF SuccessFor
    <3>6. CASE Goto(t, Again(t))
      BY <2>8, <3>3, <3>6
    <3> QED BY <3>1, <3>5, <3>6
  <2>11. CASE read_show(t)
    BY <1>0, <2>11 DEF read_show, Read, command, SuccessFor, PublishedQuietly
  <2>12. CASE print_stray(t)
    BY <1>2, <2>12, ReadEffect DEF print_stray, Read, command
  <2> QED BY <1>3, <2>1, <2>2, <2>3, <2>4, <2>5, <2>6, <2>7, <2>9, <2>10, <2>11, <2>12
          DEF Step, User
<1>4. ASSUME NEW t \in Terminals, deliver(t)
      PROVE  UNCHANGED <<pc, typed, told, heeded, server, script>>
  BY <1>4 DEF deliver, command
<1>5. ASSUME NEW s \in Servers, publish_message(s) \/ send_messages_to_terminal(s) \/ hear(s)
                                \/ stop(s) \/ lapse(s) \/ register(s)
      PROVE  UNCHANGED <<pc, typed, told, heeded, server, script>>
  BY <1>5 DEF publish_message, send_messages_to_terminal, hear, stop, lapse, register, terminals
<1>6. ASSUME NEW u \in Terminals
      PROVE  SuccessFor(u)'
  <2>1. CASE UNCHANGED <<pc, typed, told, heeded, server, script>>
    BY <1>2, <2>1
  <2>2. ASSUME NEW t \in Terminals, Step(t) \/ User(t) \/ print_stray(t)
        PROVE  SuccessFor(u)'
    <3>1. CASE u = t
      BY <1>3, <2>2, <3>1
    <3>2. CASE u # t
      BY <1>2, <2>2, <3>2, OthersUnseen
    <3> QED BY <3>1, <3>2
  <2> QED BY <1>4, <1>5, <2>1, <2>2 DEF Next, Environment
<1> QED BY <1>6 DEF SuccessMeansReceived, SuccessFor, Covered

-----------------------------------------------------------------------------
(* The theorems *)

LEMMA RmbInitially ==
  ASSUME Init
  PROVE  RmbInv
<1>1. BagToSet(net) = {}
  BY BagDomains DEF Init
<1>2. <<>> \in Boards /\ TextsOf(<<>>) = {}
  <2>1. <<>> \in Seq(Texts) /\ Len(<<>>) = 0 /\ Len(<<>>) <= M
    BY RmbAssumption
  <2>2. <<>> \in Boards
    BY <2>1, BoardsAreSequences
  <2>3. DOMAIN <<>> = {}
    OBVIOUS
  <2> QED BY <2>2, <2>3 DEF TextsOf
<1>3. SocketTypes /\ PortsUsed
  BY <1>1 DEF Init, SocketTypes, PortsUsed
<1>4. UserTypes
  BY ScriptsAssumption DEF Init, UserTypes
<1>5. TypeOK
  BY <1>2, RmbAssumption DEF Init, TypeOK
<1>6. AnswersFromServer
  BY <1>1 DEF Init, AnswersFromServer
<1>7. Turns /\ SuccessMeansReceived
  BY DEF Init, Turns, SuccessMeansReceived, PublishedQuietly
<1>8. KeptWereReceived
  BY <1>1, <1>2 DEF Init, KeptWereReceived
<1> QED BY <1>3, <1>4, <1>5, <1>6, <1>7, <1>8 DEF RmbInv

LEMMA RmbStutter ==
  ASSUME RmbInv, UNCHANGED vars
  PROVE  RmbInv'
BY DEF RmbInv, TypeOK, SocketTypes, UserTypes, PortsUsed, AnswersFromServer, Turns,
       KeptWereReceived, SuccessMeansReceived, PublishedQuietly, Received, Mistakable, Ticket, ForSocket, Here,
       vars, terminals, world, servers

\* The invariant of the terminals is inductive.
THEOREM RmbInvariant == Spec => []RmbInv
<1>1. Init => RmbInv
  BY RmbInitially
<1>2. RmbInv /\ [Next]_vars => RmbInv'
  <2>1. ASSUME RmbInv, Next
        PROVE  RmbInv'
    BY <2>1, TypeOKStep, SocketsStep, UserTypesStep, CountersStep, KeptStep, SuccessStep DEF RmbInv
  <2> QED BY <2>1, RmbStutter
<1> QED BY <1>1, <1>2, PTL DEF Spec

\* Type correctness of the terminals: tries within their bound, boards of at
\* most M texts, and answers only where there is a connection.
THEOREM RmbTypeCorrect == Spec => []TypeOK
<1>1. RmbInv => TypeOK
  BY DEF RmbInv
<1> QED BY <1>1, RmbInvariant, PTL

\* However often terminals go over to other servers and whatever is delayed, a
\* terminal only ever reads answers of the server it is connected to.
THEOREM StrangersUnheard == Spec => []AnswersFromServer
<1>1. RmbInv => AnswersFromServer
  BY DEF RmbInv
<1> QED BY <1>1, RmbInvariant, PTL

\* A publish whose result is looked at ends with its failure printed, or with
\* its message given to the server that the terminal is connected to, unless the
\* text is found in another message of that server or in the line that answers
\* begin with.
THEOREM QuietPublishReceived == Spec => []SuccessMeansReceived
<1>1. RmbInv => SuccessMeansReceived
  BY DEF RmbInv
<1> QED BY <1>1, RmbInvariant, PTL
=============================================================================
