---------------------------- MODULE RmbSession ----------------------------
(***************************************************************************)
(* The terminals (rmb): a user types commands, the terminal carries each   *)
(* out over UDP with a bounded number of tries, and when its message       *)
(* server does not answer it asks the ID server for the list and goes over *)
(* to a server of the list.  main_rmb.c, rmbui.c and comm_rmb.c.           *)
(*                                                                         *)
(* A datagram may be delayed, overtaken or lost: one that is lost is one   *)
(* that stays in net.  Each connection has a socket, and so a port, of its *)
(* own.  The servers are those of LatestMessages, which Board implements:  *)
(* each keeps the last M texts it was given.  Which text strstr() finds in *)
(* which line of an answer is a parameter: a text may be part of another   *)
(* terminal's, or of the line that every answer begins with.               *)
(***************************************************************************)
EXTENDS Integers, Sequences, FiniteSets, Bags

CONSTANTS Terminals,
          Servers,        \* the message servers
          Scripts,        \* what the users may type: per terminal, its commands
          Others,         \* texts of terminals left out; each stands for one message
          Header,         \* the first line of an answer, "MESSAGES"
          Occurs,         \* the pairs of a text and a line in which strstr() finds it
          NULL,           \* no socket to a message server
          M,              \* how many messages a server keeps
          UDP_NUM_TRIES,
          MaxStops,       \* bound: how often a server stops
          MaxChanges      \* bound: how often the ID server's list changes

ASSUME RmbAssumption ==
  /\ IsFiniteSet(Servers) /\ NULL \notin Servers
  /\ M \in Nat \ {0} /\ UDP_NUM_TRIES \in Nat \ {0}
  /\ MaxStops \in Nat /\ MaxChanges \in Nat

VARIABLES
  pc,         \* where each terminal is
  server,     \* the address in msgserv_socket, or NULL
  port,       \* which of the terminal's sockets to servers is in use
  socket,     \* the answers that wait to be read there
  script,     \* what the user has still to type
  typed,      \* user_input
  tries,      \* tries of RMBUI_publish or RMBUI_show_n_messages
  heeded,     \* whether main looks at what that call returns
  told,       \* whether the command's failure was printed
  net,        \* the bag of datagrams under way
  up,         \* the servers that run
  kept,       \* per server, the messages it keeps
  received,   \* history: per server, the messages it was given, and by whom
  listed,     \* the list of the ID server
  stops, changes      \* how much of each bound is used up

terminals == <<pc, server, port, socket, script, typed, tries, heeded, told>>
command == <<script, typed, tries, heeded, told>>
connection == <<server, port, socket>>
servers == <<up, kept, received>>
world == <<servers, listed, stops, changes>>
vars == <<terminals, net, world>>

Publish(text) == [op |-> "publish", text |-> text]
Show(n) == [op |-> "show_latest_messages", n |-> n]
ShowServers == [op |-> "show_servers"]

\* The commands that the users type.
Commands(q) == {q[k] : k \in DOMAIN q}
Typable == UNION {UNION {Commands(q[t]) : t \in Terminals} : q \in Scripts}

ASSUME ScriptsAssumption ==
  /\ \A q \in Scripts : q \in [Terminals -> Seq(Typable)]
  /\ \A c \in Typable :
       \/ c = ShowServers
       \/ c.op = "publish" /\ c = Publish(c.text)
       \/ c.op = "show_latest_messages" /\ c = Show(c.n) /\ c.n \in Int

Texts == Others \cup {c.text : c \in {d \in Typable : d.op = "publish"}}

ASSUME OccursAssumption ==
  Occurs \subseteq Texts \X (Texts \cup {Header}) /\ \A x \in Texts : <<x, x>> \in Occurs

\* The command that t is carrying out, told apart from its others.
Ticket(t) == <<t, Len(script[t])>>

\* The n latest messages of a board.
Latest(n, q) == IF Len(q) <= n THEN q ELSE SubSeq(q, Len(q) - n + 1, Len(q))

Here(t) == <<t, port[t]>>
Send(S) == net' = net (+) SetToBag(S)
Listening(t) == pc[t] \in {"idle", "unconnected", "send", "wait"}

-----------------------------------------------------------------------------
(* Going over to a server of the list *)

\* The socket in use, given another address.
connect_keeps_socket(t, s) ==
  /\ server' = [server EXCEPT ![t] = s]
  /\ UNCHANGED <<port, socket, net>>

\* Whether d is an answer to the socket in use, or a request for one.
ForSocket(d, t) == \/ d.type = "MESSAGES" /\ d.to = Here(t)
                   \/ d.type = "GET_MESSAGES" /\ d.from = Here(t)

\* A new socket to s, or none.  What was for the closed one reaches nobody.
Connect(t, s) ==
  /\ server' = [server EXCEPT ![t] = s]
  /\ port' = [port EXCEPT ![t] = @ + 1]
  /\ socket' = [socket EXCEPT ![t] = <<>>]
  /\ net' = [d \in {e \in BagToSet(net) : ~ForSocket(e, t)} |-> net[d]]

\* COMMRMB_connect_to_message_server: one line of the list, at random.
Choice == IF listed = {} THEN {NULL} ELSE listed

Goto(t, label) == pc' = [pc EXCEPT ![t] = label]
Tell(t) == told' = [told EXCEPT ![t] = TRUE]

\* No try at GET_SERVERS was answered: the terminal says so and ends.
no_servers(t) ==
  /\ pc[t] \in {"start", "unconnected", "failover"}
  /\ Goto(t, "off")
  /\ Tell(t)
  /\ UNCHANGED <<connection, script, typed, tries, heeded, net, world>>

\* At the start, a terminal without a server ends.
start(t) ==
  /\ pc[t] = "start"
  /\ \E s \in Choice : /\ Connect(t, s)
                       /\ Goto(t, IF s = NULL THEN "off" ELSE "idle")
  /\ UNCHANGED <<command, world>>

\* After err = 1 or 3: the command is not repeated for the user.
failover(t) ==
  /\ pc[t] = "failover"
  /\ \E s \in Choice : Connect(t, s)
  /\ Tell(t)
  /\ Goto(t, "idle")
  /\ UNCHANGED <<script, typed, tries, heeded, world>>

\* After err = 2: with a server, the command is carried out after all, but
\* what that call returns is not looked at.
reconnect(t) ==
  /\ pc[t] = "unconnected"
  /\ \E s \in Choice :
       IF s = NULL
       THEN Goto(t, "idle") /\ Tell(t) /\ UNCHANGED <<connection, tries, heeded, net>>
       ELSE /\ Connect(t, s)
            /\ Goto(t, "send")
            /\ tries' = [tries EXCEPT ![t] = UDP_NUM_TRIES]
            /\ heeded' = [heeded EXCEPT ![t] = FALSE]
            /\ UNCHANGED told
  /\ UNCHANGED <<script, typed, world>>

-----------------------------------------------------------------------------
(* Commands *)

Typing(t) ==
  /\ pc[t] = "idle" /\ script[t] # <<>>
  /\ typed' = [typed EXCEPT ![t] = Head(script[t])]
  /\ script' = [script EXCEPT ![t] = Tail(@)]
  /\ told' = [told EXCEPT ![t] = FALSE]
  /\ UNCHANGED <<connection, net, world>>

\* publish or show_latest_messages.
type_command(t) ==
  /\ Typing(t)
  /\ Head(script[t]) # ShowServers
  /\ Goto(t, IF server[t] = NULL THEN "unconnected" ELSE "send")
  /\ tries' = [tries EXCEPT ![t] = UDP_NUM_TRIES]
  /\ heeded' = [heeded EXCEPT ![t] = TRUE]

\* show_servers: answered and printed, or the loop ends.
show_servers(t) ==
  /\ Typing(t)
  /\ Head(script[t]) = ShowServers
  /\ Goto(t, "idle") \/ Goto(t, "off")
  /\ UNCHANGED <<tries, heeded>>

exit(t) ==
  /\ pc[t] = "idle" /\ script[t] = <<>>
  /\ Goto(t, "off")
  /\ UNCHANGED <<command, connection, net, world>>

Request(t, n) == [type |-> "GET_MESSAGES", to |-> server[t], from |-> Here(t), n |-> n]

\* One turn of a command's loop sends its datagrams.
Turn(t) ==
  /\ pc[t] = "send"
  /\ tries' = [tries EXCEPT ![t] = @ - 1]
  /\ Goto(t, "wait")
  /\ UNCHANGED <<connection, script, typed, heeded, told, world>>

\* RMBUI_publish: the message, and a request for the latest one.
publish(t) ==
  /\ typed[t].op = "publish"
  /\ Turn(t)
  /\ Send({[type |-> "PUBLISH", to |-> server[t], text |-> typed[t].text, of |-> Ticket(t)],
           Request(t, 1)})

\* RMBUI_show_n_messages.
show_n_messages(t) ==
  /\ typed[t].op = "show_latest_messages"
  /\ Turn(t)
  /\ Send({Request(t, typed[t].n)})

\* One turn too many.
again_at_zero(t) == IF tries[t] >= 0 THEN "send" ELSE IF heeded[t] THEN "failover" ELSE "idle"

\* Where a turn without success leads.
Again(t) == IF tries[t] > 0 THEN "send" ELSE IF heeded[t] THEN "failover" ELSE "idle"

\* A select() without a timeout.
select_for_ever(t) == FALSE

\* select() times out: no answer within UDP_TIMEOUT_SECS.
timeout(t) ==
  /\ pc[t] = "wait" /\ socket[t] = <<>>
  /\ Goto(t, Again(t))
  /\ UNCHANGED <<command, connection, net, world>>

\* recvfrom() also sets the address that the next datagram is sent to.
Read(t) ==
  /\ socket[t] # <<>>
  /\ server' = [server EXCEPT ![t] = Head(socket[t]).from]
  /\ socket' = [socket EXCEPT ![t] = Tail(@)]
  /\ UNCHANGED <<port, command, net, world>>

\* Any answer taken for success, as show_latest_messages does.
any_answer(t) ==
  /\ pc[t] = "wait" /\ typed[t].op = "publish"
  /\ Read(t)
  /\ Goto(t, "idle")

\* strstr() over the whole answer: its first line and the messages after it.
Found(text, body) ==
  \E line \in {Header} \cup {body[k] : k \in DOMAIN body} : <<text, line>> \in Occurs

\* Success if the text is found in the answer, and another turn if not.
read_publish(t) ==
  /\ pc[t] = "wait" /\ typed[t].op = "publish"
  /\ Read(t)
  /\ Goto(t, IF Found(typed[t].text, Head(socket[t]).body) THEN "idle" ELSE Again(t))

\* Whatever comes first is printed.
read_show(t) ==
  /\ pc[t] = "wait" /\ typed[t].op = "show_latest_messages"
  /\ Read(t)
  /\ Goto(t, "idle")

\* An answer that comes when no command waits for it is printed.
print_stray(t) == pc[t] = "idle" /\ Read(t) /\ UNCHANGED pc

-----------------------------------------------------------------------------
(* The network, the message servers and the ID server *)

\* The network puts an answer on the socket it is for, if that is still open.
deliver(t) ==
  /\ Listening(t)
  /\ \E d \in BagToSet(net) :
       /\ d.type = "MESSAGES" /\ d.to = Here(t)
       /\ socket' = [socket EXCEPT ![t] = Append(@, [from |-> d.from, body |-> d.body])]
       /\ net' = net (-) SetToBag({d})
  /\ UNCHANGED <<pc, server, port, command, world>>

publish_message(s) ==
  /\ s \in up
  /\ \E d \in BagToSet(net) :
       /\ d.type = "PUBLISH" /\ d.to = s
       /\ kept' = [kept EXCEPT ![s] = Latest(M, Append(@, d.text))]
       /\ received' = [received EXCEPT ![s] = @ \cup {[of |-> d.of, text |-> d.text]}]
       /\ net' = net (-) SetToBag({d})
  /\ UNCHANGED <<terminals, up, listed, stops, changes>>

send_messages_to_terminal(s) ==
  /\ s \in up
  /\ \E d \in BagToSet(net) :
       /\ d.type = "GET_MESSAGES" /\ d.to = s
       /\ LET answer == [type |-> "MESSAGES", from |-> s, to |-> d.from,
                         body |-> Latest(d.n, kept[s])]
          IN  net' = (net (-) SetToBag({d})) (+) SetToBag({answer})
  /\ UNCHANGED <<terminals, world>>

\* A server is given a message that some other terminal sent.
hear(s) ==
  /\ s \in up
  /\ \E x \in Others :
       LET message == [of |-> NULL, text |-> x]
       IN  /\ \A r \in Servers : message \notin received[r]
           /\ kept' = [kept EXCEPT ![s] = Latest(M, Append(@, x))]
           /\ received' = [received EXCEPT ![s] = @ \cup {message}]
  /\ UNCHANGED <<terminals, net, up, listed, stops, changes>>

\* A server exits or crashes; it stays on the list until the entry lapses.
stop(s) ==
  /\ s \in up /\ stops < MaxStops
  /\ up' = up \ {s}
  /\ stops' = stops + 1
  /\ UNCHANGED <<terminals, net, kept, received, listed, changes>>

lapse(s) ==
  /\ s \in listed /\ changes < MaxChanges
  /\ listed' = listed \ {s}
  /\ changes' = changes + 1
  /\ UNCHANGED <<terminals, net, servers, stops>>

\* A server registers: for the first time, with an empty board, or again.
register(s) ==
  /\ s \notin listed \/ s \notin up
  /\ changes < MaxChanges
  /\ listed' = listed \cup {s}
  /\ up' = up \cup {s}
  /\ kept' = IF s \in up THEN kept ELSE [kept EXCEPT ![s] = <<>>]
  /\ changes' = changes + 1
  /\ UNCHANGED <<terminals, net, received, stops>>

-----------------------------------------------------------------------------
(* The specification *)

Init ==
  /\ pc = [t \in Terminals |-> "start"]
  /\ server = [t \in Terminals |-> NULL]
  /\ port = [t \in Terminals |-> 0]
  /\ socket = [t \in Terminals |-> <<>>]
  /\ script \in Scripts
  /\ typed = [t \in Terminals |-> ShowServers]
  /\ tries = [t \in Terminals |-> 0]
  /\ heeded = [t \in Terminals |-> TRUE]
  /\ told = [t \in Terminals |-> FALSE]
  /\ net = EmptyBag
  /\ up \in SUBSET Servers
  /\ kept = [s \in Servers |-> <<>>]
  /\ received = [s \in Servers |-> {}]
  /\ listed \in SUBSET Servers
  /\ stops = 0 /\ changes = 0

\* What a terminal does without its user.
Step(t) ==
  \/ start(t) \/ no_servers(t) \/ failover(t) \/ reconnect(t)
  \/ publish(t) \/ show_n_messages(t) \/ timeout(t) \/ read_publish(t) \/ read_show(t)

User(t) == type_command(t) \/ show_servers(t) \/ exit(t)

Environment ==
  \/ \E t \in Terminals : deliver(t)
  \/ \E s \in Servers : \/ publish_message(s) \/ send_messages_to_terminal(s) \/ hear(s)
                        \/ stop(s) \/ lapse(s) \/ register(s)

Next ==
  \/ \E t \in Terminals : Step(t) \/ User(t) \/ print_stray(t)
  \/ Environment

\* A terminal runs; its user, the network and the servers may do nothing.
Spec == Init /\ [][Next]_vars /\ \A t \in Terminals : WF_vars(Step(t))

-----------------------------------------------------------------------------
(* Properties *)

Boards == UNION {[1 .. k -> Texts] : k \in 0 .. M}

Messages == [of : (Terminals \X Nat) \cup {NULL}, text : Texts]

\* Type correctness: the counter of tries stays within its bounds, a server
\* keeps at most M messages, and only a terminal with a server awaits answers.
TypeOK ==
  /\ pc \in [Terminals -> {"start", "idle", "unconnected", "send", "wait", "failover", "off"}]
  /\ server \in [Terminals -> Servers \cup {NULL}]
  /\ tries \in [Terminals -> 0 .. UDP_NUM_TRIES]
  /\ kept \in [Servers -> Boards]
  /\ received \in [Servers -> SUBSET Messages]
  /\ up \subseteq Servers /\ listed \subseteq Servers
  /\ \A t \in Terminals :
       /\ socket[t] \in Seq([from : Servers, body : Boards])
       /\ pc[t] \in {"send", "wait", "failover"} => server[t] # NULL
       /\ server[t] = NULL => socket[t] = <<>>

\* A late answer of a server that a terminal has left never reaches it: every
\* answer that it has, or that can still reach it, is from the server it is
\* connected to, although every read sets the address from the sender
\* (readmsg_udp), and however often it goes over to another server.
AnswersFromServer ==
  \A t \in Terminals :
    /\ \A k \in DOMAIN socket[t] : socket[t][k].from = server[t]
    /\ \A d \in BagToSet(net) :
         ForSocket(d, t) => server[t] = IF d.type = "MESSAGES" THEN d.from ELSE d.to

\* A publish that is over and of whose failure the user was not told.
PublishedQuietly(t) == pc[t] = "idle" /\ typed[t].op = "publish" /\ ~told[t]

\* The server has been given the message of this very command.
Received(t) == server[t] # NULL /\ \E m \in received[server[t]] : m.of = Ticket(t)

\* The text is found where the message is not: in the first line of any answer,
\* or in another message, of this terminal or of another, that the server was
\* given.
Mistakable(t) ==
  \/ <<typed[t].text, Header>> \in Occurs
  \/ /\ server[t] # NULL
     /\ \E m \in received[server[t]] : m.of # Ticket(t) /\ <<typed[t].text, m.text>> \in Occurs

\* A publish whose result main looks at ends with its failure printed or with its
\* message given to the server, however late the answers that RMBUI_publish
\* reads, whichever requests they answer and however often the terminal went
\* over to another server - unless the text is found in a message that is not
\* this one.  Then a publish that is lost may end as if it had not been.
SuccessMeansReceived ==
  \A t \in Terminals :
    PublishedQuietly(t) /\ heeded[t] /\ ~Mistakable(t) => Received(t)

\* "All UDP requests [...] guarantee that the message was received by the peer
\* or, if it wasn't, to inform the requester of what happened" (README).
ReceivedOrInformed ==
  \A t \in Terminals : PublishedQuietly(t) => Received(t)

\* Every command ends: whatever is lost and whichever servers stop, the
\* terminal is back at its prompt, or has ended, after boundedly many tries.
CommandsEnd ==
  \A t \in Terminals : (pc[t] \notin {"idle", "off"}) ~> (pc[t] \in {"idle", "off"})
=============================================================================
