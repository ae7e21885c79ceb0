---------------------------- MODULE FifoBroadcast ----------------------------
(***************************************************************************)
(* What message servers with sessions between all of them promise while no *)
(* board is full: each message reaches each server once, with the text and *)
(* the clock it was published with; the messages of one server arrive in   *)
(* the order of their clocks; a message published by a server that has     *)
(* another has the larger clock.  A server that stops takes its board with *)
(* it, and the messages it had not finished sending may reach only some.   *)
(***************************************************************************)
EXTENDS Integers, Sequences, FiniteSets

CONSTANTS Servers, Texts, Clocks

VARIABLES up,          \* the servers that run
          sent,        \* per server, the messages published there, in order
          delivered    \* per server, the messages it has, in the order it got them

vars == <<up, sent, delivered>>

Init == /\ up = Servers
        /\ sent = [s \in Servers |-> <<>>]
        /\ delivered = [s \in Servers |-> <<>>]

Elements(q) == {q[k] : k \in DOMAIN q}

Fresh(t) == \A s \in Servers : \A m \in Elements(sent[s]) : m.msg # <<t>>

Broadcast(s, t, c) ==
  /\ s \in up
  /\ Fresh(t)
  /\ \A m \in Elements(delivered[s]) : m.lc < c
  /\ sent' = [sent EXCEPT ![s] = Append(@, [lc |-> c, msg |-> <<t>>])]
  /\ delivered' = [delivered EXCEPT ![s] = Append(@, [lc |-> c, msg |-> <<t>>])]
  /\ up' = up

\* How many of r's messages s has.
Received(s, r) == Cardinality({k \in DOMAIN delivered[s] : delivered[s][k] \in Elements(sent[r])})

Deliver(s, r) ==
  /\ s \in up
  /\ s # r
  /\ Received(s, r) < Len(sent[r])
  /\ delivered' = [delivered EXCEPT ![s] = Append(@, sent[r][Received(s, r) + 1])]
  /\ UNCHANGED <<up, sent>>

Crash(s) ==
  /\ s \in up
  /\ up' = up \ {s}
  /\ delivered' = [delivered EXCEPT ![s] = <<>>]
  /\ sent' = sent

Next == \E s \in Servers :
          \/ \E t \in Texts, c \in Clocks : Broadcast(s, t, c)
          \/ \E r \in Servers : Deliver(s, r)
          \/ Crash(s)

\* A message need reach a server only while its publisher is there to send it.
Fairness == \A s, r \in Servers : WF_vars(r \in up /\ Deliver(s, r))

SafeSpec == Init /\ [][Next]_vars

Spec == SafeSpec /\ Fairness
=============================================================================
