------------------------------ MODULE Cluster ------------------------------
(***************************************************************************)
(* The message servers: start-up (ask the ID server for the list,          *)
(* register, connect to every server listed, ask each for its messages),   *)
(* the select() loop that serves terminals and peers, and the TCP sessions *)
(* between them.  main_msgserv.c and comm_msgserv.c over comm_utils.c.     *)
(*                                                                         *)
(* A TCP session is a connection c with two endpoints, <<c, "connect">>    *)
(* held by the server that called connect() and <<c, "accept">> held by    *)
(* the other, first by its kernel's backlog and after accept() by its      *)
(* array of sockets.  Each endpoint has a queue of the frames that its     *)
(* holder has still to read; a frame is one 500-byte write, which          *)
(* readmsg_tcp reads whole.                                                *)
(*                                                                         *)
(* The ID server is external: its list of servers, and no more of it.      *)
(***************************************************************************)
EXTENDS MessageStore

CONSTANTS Servers,     \* the hosts that may run a message server
          tpt,         \* the TCP port each listens on (parameter -t)
          Texts,       \* the texts terminals publish; each stands for one PUBLISH
          Blank,       \* the text of a message with no characters but its newline
          Conns,       \* names for TCP connections; bounds how many exist at once
          NULL,        \* the NULL entry of an array of sockets
          MaxStarts,   \* bound: how often a server is launched
          MaxStops,    \* bound: how often a server exits or is killed
          MaxLapses    \* bound: how often the ID server drops a registration

ASSUME ClusterAssumption ==
  /\ IsFiniteSet(Servers)
  /\ tpt \in [Servers -> Nat]
  /\ Blank \notin Nat
  /\ Texts \cap Nat = {}
  /\ Conns \subseteq Nat
  /\ MaxStarts \in Nat /\ MaxStops \in Nat /\ MaxLapses \in Nat

Endpoints == Conns \X {"connect", "accept"}

ASSUME NULLAssumption == NULL \notin Endpoints

\* The other end of a connection.
Peer(e) == <<e[1], IF e[2] = "connect" THEN "accept" ELSE "connect">>

Msgs == Seq(Nat \cup Texts \cup {Blank})
Entry == [lc : Nat, msg : Msgs]

\* A frame is the header of a message and the records that follow it, or the
\* empty buffer.
Frame == [type : {"", "SGET_MESSAGES", "SMESSAGES"}, body : Seq(Entry)]
NoFrame == [type |-> "", body |-> <<>>]

Labels == {"off", "lookup", "register", "connect", "request", "await", "add",
           "loop", "distribute"}

VARIABLES
  registry,     \* the servers the ID server lists
  pc,           \* where each server is in main()
  lc,           \* msgserv->lc
  board,        \* msgserv->messages
  server_list,  \* the lines of the list still to connect to
  sockets,      \* msgserv_socketarray
  i,            \* the index of the loop over the array of sockets
  resp,         \* resp of the request, string of add_smessages, new_message
  message,      \* the local `message' of add_smessages
  inbox,        \* per endpoint, the frames still to be read there
  open,         \* the endpoints not closed
  backlog,      \* per server, the connections it has still to accept()
  published,    \* history: per server, the messages terminals published there
  omitted,      \* history: what answers to SGET_MESSAGES have left out (LeftOut)
  starts, stops, lapses     \* how much of each bound is used up

memory == <<lc, board>>
buffers == <<resp, message>>
network == <<inbox, open, backlog>>
budget == <<starts, stops, lapses>>

vars == <<registry, pc, lc, board, server_list, sockets, i, resp, message,
          inbox, open, backlog, published, omitted, starts, stops, lapses>>

-----------------------------------------------------------------------------
(* Sessions *)

FreeConns == {c \in Conns : \A e \in {c} \X {"connect", "accept"} : e \notin open}

Held(s) == {sockets[s][k] : k \in DOMAIN sockets[s]} \ {NULL}

Waiting(s) == {backlog[s][k] : k \in DOMAIN backlog[s]}

Listening(s) == pc[s] # "off"

\* writemsg_tcp on e: what is written to a connection the peer has closed is
\* lost, without an error at the writer or with one it only logs (but see
\* request_fails).
Write(e, f) ==
  inbox' = IF Peer(e) \in open THEN [inbox EXCEPT ![Peer(e)] = Append(@, f)] ELSE inbox

\* A read finds data until the queue is empty, and only then the end of file.
Readable(e) == inbox[e] # <<>>
AtEOF(e) == inbox[e] = <<>> /\ Peer(e) \notin open

\* SOCKET_close of every endpoint in E.
Close(E) ==
  /\ open' = open \ E
  /\ inbox' = [e \in Endpoints |-> IF e \in E THEN <<>> ELSE inbox[e]]

-----------------------------------------------------------------------------
(* Records *)

\* A record ends at its newline, which is part of its text: an empty text has
\* none, so the clocks written for free slots run into the next record.
EndOfRecord(body) ==
  IF \E k \in DOMAIN body : body[k].msg # <<>>
  THEN CHOOSE k \in DOMAIN body :
         body[k].msg # <<>> /\ \A j \in 1 .. k - 1 : body[j].msg = <<>>
  ELSE Len(body)

\* The first line, as sscanf("%d;%[^\t]") reads it.
FirstRecord(body) ==
  LET n == EndOfRecord(body)
  IN  [lc |-> body[1].lc, msg |-> [k \in 1 .. n - 1 |-> body[k + 1].lc] \o body[n].msg]

RestOf(body) == SubSeq(body, EndOfRecord(body) + 1, Len(body))

\* sscanf stores nothing for a line with no text after the clock: the buffer
\* keeps the record before it, or is empty for the first.
Scanned(text, old) ==
  IF text \notin {<<>>, <<Blank>>} THEN text
  ELSE IF old = <<>> THEN <<Blank>> ELSE old

\* The clock of a record received, ignored.
own_clock_only(a, b) == b

Larger(a, b) == IF a > b THEN a ELSE b

-----------------------------------------------------------------------------
(* The ID server *)

\* The ID server sends its list in an order of its own.
Orderings(S) == {q \in [1 .. Cardinality(S) -> S] :
                   \A a, b \in 1 .. Cardinality(S) : a # b => q[a] # q[b]}

\* It drops a server it has not heard from, whether or not it still runs.
lapse(s) ==
  /\ s \in registry
  /\ lapses < MaxLapses
  /\ registry' = registry \ {s}
  /\ lapses' = lapses + 1
  /\ UNCHANGED <<pc, memory, server_list, sockets, i, buffers, network, published,
                 omitted, starts, stops>>

\* REG from the main loop: the select() timeout or the join command.  (A REG
\* that is lost, or that finds the server listed, changes nothing.)
join(s) ==
  /\ pc[s] = "loop"
  /\ registry' = registry \cup {s}
  /\ UNCHANGED <<pc, memory, server_list, sockets, i, buffers, network, published,
                 omitted, budget>>
-----------------------------------------------------------------------------
(* Start-up and exit *)

\* A start-up that registers before it asks who else is there.
start_registers_first(s) ==
  /\ pc[s] = "off"
  /\ starts < MaxStarts
  /\ pc' = [pc EXCEPT ![s] = "lookup"]
  /\ registry' = registry \cup {s}
  /\ starts' = starts + 1
  /\ UNCHANGED <<memory, server_list, sockets, i, buffers, network, published, omitted,
                 stops, lapses>>

\* The program is launched: its sockets exist, so peers can connect, before
\* it asks for the list of servers.
start(s) ==
  /\ pc[s] = "off"
  /\ starts < MaxStarts
  /\ pc' = [pc EXCEPT ![s] = "lookup"]
  /\ starts' = starts + 1
  /\ UNCHANGED <<registry, memory, server_list, sockets, i, buffers, network, published,
                 omitted, stops, lapses>>

\* exit, a failed GET_SERVERS, or a crash: every socket is closed and the board
\* is gone.  Nothing is sent to the ID server.
stop(s) ==
  /\ pc[s] # "off"
  /\ stops < MaxStops
  /\ pc' = [pc EXCEPT ![s] = "off"]
  /\ lc' = [lc EXCEPT ![s] = 0]
  /\ board' = [board EXCEPT ![s] = EmptyBoard]
  /\ server_list' = [server_list EXCEPT ![s] = <<>>]
  /\ sockets' = [sockets EXCEPT ![s] = <<>>]
  /\ i' = [i EXCEPT ![s] = 1]
  /\ resp' = [resp EXCEPT ![s] = NoFrame]
  /\ message' = [message EXCEPT ![s] = <<>>]
  /\ Close(Held(s) \cup Waiting(s))
  /\ backlog' = [backlog EXCEPT ![s] = <<>>]
  /\ stops' = stops + 1
  /\ UNCHANGED <<registry, published, omitted, starts, lapses>>

get_servers(s) ==
  /\ pc[s] = "lookup"
  /\ \E list \in Orderings(registry) : server_list' = [server_list EXCEPT ![s] = list]
  /\ pc' = [pc EXCEPT ![s] = "register"]
  /\ UNCHANGED <<registry, memory, sockets, i, buffers, network, published, omitted,
                 budget>>

\* MSGSERVUI_join: one datagram, which may be lost.  A server that was sent an
\* empty list has no one to connect to and enters the loop.
register(s) ==
  /\ pc[s] = "register"
  /\ \E received \in BOOLEAN :
       registry' = IF received THEN registry \cup {s} ELSE registry
  /\ pc' = [pc EXCEPT ![s] = IF server_list[s] = <<>> THEN "loop" ELSE "connect"]
  /\ UNCHANGED <<memory, server_list, sockets, i, buffers, network, published, omitted,
                 budget>>

\* A comparison that finds any two servers equal.
compare_always_equal(s, t) == TRUE

\* MSGSERVID_compare_ip compares inet_ntoa's one static buffer with itself, so
\* the entry taken for the server's own is any with its port.
IsSelf(s, t) == tpt[s] = tpt[t]

\* One line of the list.  connect() succeeds as soon as the peer listens, long
\* before the peer accepts; it fails if nothing listens there.
connect_msgservs(s) ==
  /\ pc[s] = "connect"
  /\ server_list[s] # <<>>
  /\ LET t == Head(server_list[s])
         c == CHOOSE c \in FreeConns : TRUE
     IN  IF IsSelf(s, t) \/ ~ Listening(t)
         THEN /\ sockets' = [sockets EXCEPT ![s] = Append(@, NULL)]
              /\ UNCHANGED network
         ELSE /\ FreeConns # {}
              /\ sockets' = [sockets EXCEPT ![s] = Append(@, <<c, "connect">>)]
              /\ backlog' = [backlog EXCEPT ![t] = Append(@, <<c, "accept">>)]
              /\ open' = open \cup {<<c, "connect">>, <<c, "accept">>}
              /\ UNCHANGED inbox
  /\ server_list' = [server_list EXCEPT ![s] = Tail(@)]
  /\ pc' = [pc EXCEPT ![s] = IF Tail(server_list[s]) = <<>> THEN "request" ELSE "connect"]
  /\ i' = [i EXCEPT ![s] = 1]
  /\ UNCHANGED <<registry, memory, buffers, published, omitted, budget>>

\* A request that moves to the next socket before it has read the answer.
request_advances_early(s) ==
  /\ pc[s] = "request"
  /\ i[s] \in DOMAIN sockets[s]
  /\ IF sockets[s][i[s]] = NULL
     THEN UNCHANGED <<pc, inbox>>
     ELSE /\ Write(sockets[s][i[s]], [type |-> "SGET_MESSAGES", body |-> <<>>])
          /\ pc' = [pc EXCEPT ![s] = "await"]
  /\ i' = [i EXCEPT ![s] = @ + 1]
  /\ UNCHANGED <<registry, memory, server_list, sockets, buffers, open, backlog,
                 published, omitted, budget>>

\* COMMMSGSERV_request_messages_for_msgserv, one socket at a time: skip a NULL
\* one, or write the request ...
request_messages(s) ==
  /\ pc[s] = "request"
  /\ i[s] \in DOMAIN sockets[s]
  /\ IF sockets[s][i[s]] = NULL
     THEN /\ i' = [i EXCEPT ![s] = @ + 1]
          /\ UNCHANGED <<pc, inbox>>
     ELSE /\ Write(sockets[s][i[s]], [type |-> "SGET_MESSAGES", body |-> <<>>])
          /\ pc' = [pc EXCEPT ![s] = "await"]
          /\ i' = i
  /\ UNCHANGED <<registry, memory, server_list, sockets, buffers, open, backlog,
                 published, omitted, budget>>

\* A request that keeps the first answer instead of the last.
await_keeps_first(s) ==
  /\ pc[s] = "await"
  /\ LET e == sockets[s][i[s]]
     IN  /\ Readable(e)
         /\ resp' = [resp EXCEPT ![s] = IF @.type = "" THEN Head(inbox[e]) ELSE @]
         /\ inbox' = [inbox EXCEPT ![e] = Tail(@)]
  /\ i' = [i EXCEPT ![s] = @ + 1]
  /\ pc' = [pc EXCEPT ![s] = "request"]
  /\ UNCHANGED <<registry, memory, server_list, sockets, message, open, backlog,
                 published, omitted, budget>>

\* ... and block until a frame arrives, whichever it is: setsockopt is given
\* the address of the SOCKET for a descriptor, fails, and sets no timeout.
await_frame(s) ==
  /\ pc[s] = "await"
  /\ LET e == sockets[s][i[s]]
     IN  /\ Readable(e)
         /\ resp' = [resp EXCEPT ![s] = Head(inbox[e])]
         /\ inbox' = [inbox EXCEPT ![e] = Tail(@)]
  /\ i' = [i EXCEPT ![s] = @ + 1]
  /\ pc' = [pc EXCEPT ![s] = "request"]
  /\ UNCHANGED <<registry, memory, server_list, sockets, message, open, backlog,
                 published, omitted, budget>>

\* A read that goes on waiting at the end of file until some peer has answered.
await_closed_keeps_waiting(s) ==
  /\ pc[s] = "await"
  /\ AtEOF(sockets[s][i[s]])
  /\ resp[s].type # ""
  /\ i' = [i EXCEPT ![s] = @ + 1]
  /\ pc' = [pc EXCEPT ![s] = "request"]
  /\ UNCHANGED <<registry, memory, server_list, sockets, buffers, network, published,
                 omitted, budget>>

\* No answer.  The session is given up only if no earlier peer has answered: the
\* test for MESSAGES is made on whatever resp holds.
NoAnswer(s) ==
  /\ IF resp[s].type = ""
     THEN /\ Close({sockets[s][i[s]]})
          /\ sockets' = [sockets EXCEPT ![s][i[s]] = NULL]
     ELSE UNCHANGED <<inbox, open, sockets>>
  /\ i' = [i EXCEPT ![s] = @ + 1]
  /\ pc' = [pc EXCEPT ![s] = "request"]
  /\ UNCHANGED <<registry, memory, server_list, buffers, backlog, published, omitted,
                 budget>>

\* The peer has closed, and its end has already refused what was sent to it: the
\* request cannot be written, and no answer is read.
request_fails(s) ==
  /\ pc[s] = "request"
  /\ i[s] \in DOMAIN sockets[s]
  /\ sockets[s][i[s]] # NULL
  /\ Peer(sockets[s][i[s]]) \notin open
  /\ NoAnswer(s)

\* The peer closed instead of answering.
await_closed(s) ==
  /\ pc[s] = "await"
  /\ AtEOF(sockets[s][i[s]])
  /\ NoAnswer(s)

\* Only the last answer is left in resp when the loop ends.
request_done(s) ==
  /\ pc[s] = "request"
  /\ i[s] \notin DOMAIN sockets[s]
  /\ pc' = [pc EXCEPT ![s] = IF resp[s].type = "" THEN "loop" ELSE "add"]
  /\ i' = [i EXCEPT ![s] = 1]
  /\ UNCHANGED <<registry, memory, server_list, sockets, buffers, network, published,
                 omitted, budget>>
-----------------------------------------------------------------------------
(* Records received *)

\* add_smessages, one record of the frame.
add_smessages(s) ==
  /\ pc[s] = "add"
  /\ resp[s].body # <<>>
  /\ LET record == FirstRecord(resp[s].body)
         text == Scanned(record.msg, message[s])
     IN  /\ board' = [board EXCEPT ![s] = add_message(@, record.lc, text)]
         /\ lc' = [lc EXCEPT ![s] = Larger(record.lc, @) + 1]
         /\ message' = [message EXCEPT ![s] = text]
  /\ resp' = [resp EXCEPT ![s].body = RestOf(@)]
  /\ UNCHANGED <<registry, pc, server_list, sockets, i, network, published, omitted,
                 budget>>

add_done(s) ==
  /\ pc[s] = "add"
  /\ resp[s].body = <<>>
  /\ pc' = [pc EXCEPT ![s] = "loop"]
  /\ resp' = [resp EXCEPT ![s] = NoFrame]
  /\ message' = [message EXCEPT ![s] = <<>>]
  /\ UNCHANGED <<registry, memory, server_list, sockets, i, network, published, omitted,
                 budget>>
-----------------------------------------------------------------------------
(* The main loop: what each select() may find ready.  A handler is run as a  *)
(* whole before the next one, distribution one socket at a time.             *)

\* Bound: each text is published once, so that messages can be told apart.
Unpublished(t) ==
  \A s \in Servers : \A k \in DOMAIN published[s] : published[s][k].msg # <<t>>

\* A publication that stores the message under the clock it finds, and
\* advances the clock afterwards.
publish_before_increment(s, t) ==
  /\ pc[s] = "loop"
  /\ Unpublished(t)
  /\ lc' = [lc EXCEPT ![s] = @ + 1]
  /\ board' = [board EXCEPT ![s] = add_message(@, lc[s], <<t>>)]
  /\ LET entry == board'[s][latest_message_index(board'[s])]
     IN  resp' = [resp EXCEPT ![s] = [type |-> "SMESSAGES", body |-> <<entry>>]]
  /\ published' = [published EXCEPT ![s] = Append(@, [lc |-> lc[s], msg |-> <<t>>])]
  /\ pc' = [pc EXCEPT ![s] = "distribute"]
  /\ i' = [i EXCEPT ![s] = 1]
  /\ UNCHANGED <<registry, server_list, sockets, message, network, omitted, budget>>

\* A terminal's PUBLISH: the clock is advanced, the message stored, and the
\* frame for the peers made of the latest entry of the board.
publish_message(s, t) ==
  /\ pc[s] = "loop"
  /\ Unpublished(t)
  /\ lc' = [lc EXCEPT ![s] = @ + 1]
  /\ board' = [board EXCEPT ![s] = add_message(@, lc'[s], <<t>>)]
  /\ LET entry == board'[s][latest_message_index(board'[s])]
     IN  resp' = [resp EXCEPT ![s] = [type |-> "SMESSAGES", body |-> <<entry>>]]
  /\ published' = [published EXCEPT ![s] = Append(@, [lc |-> lc'[s], msg |-> <<t>>])]
  /\ pc' = [pc EXCEPT ![s] = "distribute"]
  /\ i' = [i EXCEPT ![s] = 1]
  /\ UNCHANGED <<registry, server_list, sockets, message, network, omitted, budget>>

\* Distribution that leaves the loop after the first socket.
distribute_to_first(s) ==
  /\ pc[s] = "distribute"
  /\ i[s] \in DOMAIN sockets[s]
  /\ IF sockets[s][i[s]] = NULL \/ i[s] > 1 THEN inbox' = inbox
     ELSE Write(sockets[s][i[s]], resp[s])
  /\ i' = [i EXCEPT ![s] = @ + 1]
  /\ UNCHANGED <<registry, pc, memory, server_list, sockets, buffers, open, backlog,
                 published, omitted, budget>>

\* COMMMSGSERV_distribute_message, one socket at a time.
distribute_message(s) ==
  /\ pc[s] = "distribute"
  /\ i[s] \in DOMAIN sockets[s]
  /\ IF sockets[s][i[s]] = NULL THEN inbox' = inbox
     ELSE Write(sockets[s][i[s]], resp[s])
  /\ i' = [i EXCEPT ![s] = @ + 1]
  /\ UNCHANGED <<registry, pc, memory, server_list, sockets, buffers, open, backlog,
                 published, omitted, budget>>

distribute_done(s) ==
  /\ pc[s] = "distribute"
  /\ i[s] \notin DOMAIN sockets[s]
  /\ pc' = [pc EXCEPT ![s] = "loop"]
  /\ i' = [i EXCEPT ![s] = 1]
  /\ resp' = [resp EXCEPT ![s] = NoFrame]
  /\ UNCHANGED <<registry, memory, server_list, sockets, message, network, published,
                 omitted, budget>>

\* The k-th session has something to read.
Ready(s, k) ==
  /\ pc[s] = "loop"
  /\ k \in DOMAIN sockets[s]
  /\ sockets[s][k] # NULL

Stored(s) == {board[s][k] : k \in Used(board[s])}

Listed(b) ==
  LET list == listing(b, num_messages(b)) IN {list[k] : k \in DOMAIN list}

Records(q) == UNION {{q[k].body[j] : j \in DOMAIN q[k].body} : k \in DOMAIN q}

\* What a server has still to read from servers that have stopped.
LeftUnread(s) == UNION {Records(inbox[e]) : e \in {d \in Held(s) : Peer(d) \notin open}}

\* An answer is made of the ring of the board, as it is: messages may be missing
\* that are stored, out of the order of their clocks, or that have arrived and
\* are not read yet.
LeftOut(s) ==
  {kind \in {"stored", "unread"} :
     IF kind = "stored" THEN Listed(board[s]) # Stored(s)
     ELSE ~ LeftUnread(s) \subseteq Listed(board[s])}

\* SGET_MESSAGES: everything the board is thought to hold, in one frame.
send_messages_to_msgserv(s, k) ==
  /\ Ready(s, k)
  /\ LET e == sockets[s][k]
         n == num_messages(board[s])
         f == [type |-> "SMESSAGES", body |-> listing(board[s], n)]
     IN  /\ Readable(e)
         /\ Head(inbox[e]).type = "SGET_MESSAGES"
         /\ inbox' = [d \in Endpoints |->
                        IF d = e THEN Tail(inbox[d])
                        ELSE IF d = Peer(e) /\ d \in open THEN Append(inbox[d], f)
                        ELSE inbox[d]]
  /\ omitted' = omitted \cup LeftOut(s)
  /\ UNCHANGED <<registry, pc, memory, server_list, sockets, i, buffers, open, backlog,
                 published, budget>>


\* SMESSAGES: hand the frame to add_smessages.
read_smessages(s, k) ==
  /\ Ready(s, k)
  /\ LET e == sockets[s][k]
     IN  /\ Readable(e)
         /\ Head(inbox[e]).type = "SMESSAGES"
         /\ resp' = [resp EXCEPT ![s] = Head(inbox[e])]
         /\ inbox' = [inbox EXCEPT ![e] = Tail(@)]
  /\ pc' = [pc EXCEPT ![s] = "add"]
  /\ UNCHANGED <<registry, memory, server_list, sockets, i, message, open, backlog,
                 published, omitted, budget>>

\* The descriptor is closed but its entry in the array is left.
read_closed_leaves_entry(s, k) ==
  /\ Ready(s, k)
  /\ AtEOF(sockets[s][k])
  /\ Close({sockets[s][k]})
  /\ UNCHANGED <<registry, pc, memory, server_list, sockets, i, buffers, backlog,
                 published, omitted, budget>>

\* Closed by the peer: close this end and forget it.
read_closed(s, k) ==
  /\ Ready(s, k)
  /\ AtEOF(sockets[s][k])
  /\ Close({sockets[s][k]})
  /\ sockets' = [sockets EXCEPT ![s][k] = NULL]
  /\ UNCHANGED <<registry, pc, memory, server_list, i, buffers, backlog, published,
                 omitted, budget>>

accept(s) ==
  /\ pc[s] = "loop"
  /\ backlog[s] # <<>>
  /\ sockets' = [sockets EXCEPT ![s] = Append(@, Head(backlog[s]))]
  /\ backlog' = [backlog EXCEPT ![s] = Tail(@)]
  /\ UNCHANGED <<registry, pc, memory, server_list, i, buffers, inbox, open, published,
                 omitted, budget>>
-----------------------------------------------------------------------------
Init ==
  /\ registry = {}
  /\ pc = [s \in Servers |-> "off"]
  /\ lc = [s \in Servers |-> 0]
  /\ board = [s \in Servers |-> EmptyBoard]
  /\ server_list = [s \in Servers |-> <<>>]
  /\ sockets = [s \in Servers |-> <<>>]
  /\ i = [s \in Servers |-> 1]
  /\ resp = [s \in Servers |-> NoFrame]
  /\ message = [s \in Servers |-> <<>>]
  /\ inbox = [e \in Endpoints |-> <<>>]
  /\ open = {}
  /\ backlog = [s \in Servers |-> <<>>]
  /\ published = [s \in Servers |-> <<>>]
  /\ omitted = {}
  /\ starts = 0 /\ stops = 0 /\ lapses = 0

\* What a running server does by itself.
Startup(s) == \/ get_servers(s) \/ register(s) \/ connect_msgservs(s)
              \/ request_messages(s) \/ request_fails(s) \/ await_frame(s)
              \/ await_closed(s) \/ request_done(s)

ServePeer(s) == \/ accept(s)
                \/ \E k \in DOMAIN sockets[s] :
                     \/ send_messages_to_msgserv(s, k)
                     \/ read_smessages(s, k)
                     \/ read_closed(s, k)

Finish(s) == \/ add_smessages(s) \/ add_done(s)
             \/ distribute_message(s) \/ distribute_done(s)

Run(s) == Startup(s) \/ ServePeer(s) \/ Finish(s)

\* What users and the ID server do.
Environment(s) == \/ start(s) \/ stop(s) \/ join(s) \/ lapse(s)
                  \/ \E t \in Texts : publish_message(s, t)

Next == \E s \in Servers : Run(s) \/ Environment(s)

\* A server takes its next step unless it is blocked, and select() reports
\* every ready descriptor to a loop that serves them all.  Nothing makes a
\* user publish, launch or stop a server.
Fairness == \A s \in Servers : WF_vars(Run(s))

Spec == Init /\ [][Next]_vars /\ Fairness
-----------------------------------------------------------------------------
\* A server waits for an answer on one of its sessions.
AwaitsASession ==
  \A s \in Servers :
    pc[s] = "await" => i[s] \in DOMAIN sockets[s] /\ sockets[s][i[s]] # NULL

\* Type invariant.
TypeOK ==
  /\ registry \subseteq Servers
  /\ pc \in [Servers -> Labels]
  /\ lc \in [Servers -> Nat]
  /\ board \in [Servers -> [Slots -> Entry]]
  /\ server_list \in [Servers -> Seq(Servers)]
  /\ sockets \in [Servers -> Seq(Endpoints \cup {NULL})]
  /\ i \in [Servers -> Nat \ {0}]
  /\ resp \in [Servers -> Frame]
  /\ message \in [Servers -> Msgs]
  /\ inbox \in [Endpoints -> Seq(Frame)]
  /\ open \subseteq Endpoints
  /\ backlog \in [Servers -> Seq(Endpoints)]
  /\ published \in [Servers -> Seq(Entry)]
  /\ omitted \subseteq {"stored", "unread"}
  /\ starts \in Nat /\ stops \in Nat /\ lapses \in Nat
  /\ AwaitsASession

\* A server's clock is at least the clock of every message it stores, those
\* it took over at start-up and those read from a broken frame included.
\* publish_message depends on it: it distributes "the latest message" instead
\* of the one it has just stored, which is the same one only if no stored
\* message has a later clock.
ClockCoversBoard ==
  \A s \in Servers, k \in Slots : board[s][k].lc <= lc[s]

\* What a server distributes is the message it was last asked to publish, to
\* the last of its peers as to the first.
DistributesThePublished ==
  \A s \in Servers : pc[s] = "distribute" =>
    /\ published[s] # <<>>
    /\ resp[s].body = <<published[s][Len(published[s])]>>

\* Every endpoint that is open belongs to one server, in one place: no
\* descriptor is used after it was closed, closed twice, shared, or leaked.
SessionsOwned ==
  /\ \A s \in Servers : \A k \in DOMAIN sockets[s] : sockets[s][k] # NULL =>
       /\ sockets[s][k] \in open
       /\ \A r \in Servers :
            /\ sockets[s][k] \notin Waiting(r)
            /\ \A j \in DOMAIN sockets[r] :
                 sockets[r][j] = sockets[s][k] => r = s /\ j = k
  /\ \A e \in open : \E s \in Servers : e \in Held(s) \cup Waiting(s)
  /\ \A s \in Servers : Waiting(s) \subseteq open

\* Nothing is under way: every running server is in its loop with nothing to
\* read, to accept or to close.
Quiet ==
  /\ \A s \in Servers : pc[s] \in {"off", "loop"} /\ backlog[s] = <<>>
  /\ \A e \in open : inbox[e] = <<>> /\ Peer(e) \in open

Connected(s, r) == \E e \in Held(s) : Peer(e) \in Held(r)



\* A server that has asked a peer for its messages does not wait for ever.
RequestsEnd == \A s \in Servers : []<>(pc[s] # "await")

\* Each server on the list that runs, whether or not it has reached its loop,
\* gets a session from the one that was sent the list, if it is another.
ConnectsToEveryOther ==
  [][\A s \in Servers :
       LET t == Head(server_list[s])
       IN  (pc[s] = "connect" /\ server_list'[s] # server_list[s] /\ pc'[s] # "off"
              /\ t # s /\ Listening(t)) =>
             \E e \in {sockets'[s][k] : k \in DOMAIN sockets'[s]} \ (Held(s) \cup {NULL}) :
               Peer(e) \in {backlog'[t][k] : k \in DOMAIN backlog'[t]}]_vars

\* What a server lists as "all the messages it has stored, ordered by their
\* LCs", and sends to a peer as "all its messages": each stored message once,
\* no free slot, clocks not decreasing.
ListsAllInOrder ==
  \A s \in Servers :
    LET n == num_messages(board[s])
        list == listing(board[s], n)
    IN  /\ {list[k] : k \in 1 .. n} = Stored(s)
        /\ \A k \in 1 .. n - 1 : list[k].lc <= list[k + 1].lc
=============================================================================
