----------------------------- MODULE MCCluster -----------------------------
(***************************************************************************)
(* Instances of Cluster for TLC: the ports, the states of servers that     *)
(* have been running for a while, from which some runs start, and what     *)
(* some runs leave out.                                                    *)
(***************************************************************************)
EXTENDS Cluster

CONSTANTS s1, s2, s3     \* the first three servers, in the order of launching

Order == <<s1, s2, s3>>

\* Every server has a port of its own, or all use the same port.
OwnPorts == [s \in Servers |-> CHOOSE k \in DOMAIN Order : Order[k] = s]
SamePort == [s \in Servers |-> 1]

\* The connection that the b-th server launched made to the a-th.
Link(a, b) == ((b - 1) * (b - 2)) \div 2 + a

\* The first n servers launched one after the other, each when those before
\* it were in their loops, and every session accepted; the rest are off.
Established(n) ==
  LET Up == {Order[k] : k \in 1 .. n}
      Rank(s) == CHOOSE k \in 1 .. n : Order[k] = s
  IN  /\ registry = Up
      /\ pc = [s \in Servers |-> IF s \in Up THEN "loop" ELSE "off"]
      /\ lc = [s \in Servers |-> 0]
      /\ board = [s \in Servers |-> EmptyBoard]
      /\ server_list = [s \in Servers |-> <<>>]
      /\ sockets = [s \in Servers |->
           IF s \notin Up THEN <<>>
           ELSE [k \in 1 .. n - 1 |->
                   IF k < Rank(s) THEN <<Link(k, Rank(s)), "connect">>
                   ELSE <<Link(Rank(s), k + 1), "accept">>]]
      /\ i = [s \in Servers |-> 1]
      /\ resp = [s \in Servers |-> NoFrame]
      /\ message = [s \in Servers |-> <<>>]
      /\ inbox = [e \in Endpoints |-> <<>>]
      /\ open = (1 .. (n * (n - 1)) \div 2) \X {"connect", "accept"}
      /\ backlog = [s \in Servers |-> <<>>]
      /\ published = [s \in Servers |-> <<>>]
      /\ omitted = {}
      /\ starts = n /\ stops = 0 /\ lapses = 0

\* Two reductions, each a constraint on steps.  Texts are interchangeable, so it is
\* enough that they are published in one order.
TextOrder == CHOOSE q \in Orderings(Texts) : TRUE

TextsInOrder ==
  \A j, k \in DOMAIN TextOrder :
    j < k /\ Unpublished(TextOrder[j])' => Unpublished(TextOrder[k])'

\* A server that has only to leave a loop, or to store what it has read, does so at
\* once: that step reads and changes what is the server's own, so it makes no
\* difference to the others when it is taken.
OwnStep(s) ==
  \/ pc[s] = "add"
  \/ pc[s] \in {"request", "distribute"} /\ i[s] \notin DOMAIN sockets[s]

OwnStepsFirst ==
  LET due == {s \in Servers : OwnStep(s)}
  IN  due # {} => LET s == CHOOSE s \in due : TRUE
                  IN  pc'[s] # pc[s] \/ resp'[s] # resp[s]

\* s1 and s2 have been running; the others are launched, or not.
PairSpec == Established(2) /\ [][Next]_vars /\ Fairness
=============================================================================
