----------------------------- MODULE ServerMesh -----------------------------
(***************************************************************************)
(* Message servers that have sessions with each other and publish, and of  *)
(* which none is launched any more: the state they start from, and what    *)
(* they promise, as FifoBroadcast.                                         *)
(***************************************************************************)
EXTENDS Cluster

CONSTANT Clocks     \* the clocks a message may be published with

\* The boards can hold every message that is published, and no message is
\* blank.
BoardsSuffice == IsFiniteSet(Texts) /\ Cardinality(Texts) <= M /\ Blank \notin Texts

\* Each endpoint has one server, own[e]; a server has at most one session with
\* another, and the other end of it is open while the other runs.
Sessions(own) ==
  \A s \in Servers : \A e \in Held(s) :
    /\ own[e] = s
    /\ own[Peer(e)] # s
    /\ pc[own[Peer(e)]] # "off" => Peer(e) \in open
    /\ \A d \in Held(s) : own[Peer(d)] = own[Peer(e)] => d = e

\* Servers in their loops, with nothing stored and nothing on the way.
MeshStart(own) ==
  /\ TypeOK
  /\ SessionsOwned
  /\ Sessions(own)
  /\ starts = MaxStarts
  /\ \A s \in Servers : /\ pc[s] = "loop"
                        /\ board[s] = EmptyBoard
                        /\ published[s] = <<>>
                        /\ backlog[s] = <<>>
  /\ \A e \in open : inbox[e] = <<>>

\* The messages of a board that was never full, in the order it got them.
Log(b) == [k \in 1 .. num_messages(b) |-> b[k - 1]]

Broadcast == INSTANCE FifoBroadcast WITH
  up <- {s \in Servers : pc[s] # "off"},
  sent <- published,
  delivered <- [s \in Servers |-> Log(board[s])]

\* Between servers with sessions to each other, whatever the interleaving of
\* publications, sends and receipts, each message is stored at most once by
\* each, each server's messages in the order it published them and none left
\* out, under a clock later than those of the messages it had.  A server that
\* stops half-way through its peers leaves its message with some of them.
RefinesBroadcast == Broadcast!SafeSpec

\* Every message published by a server that stays up comes to be stored by
\* every server that stays up.
BroadcastIsFair == Broadcast!Fairness

\* Whenever nothing is under way, what a server published is stored, with its
\* clock, at the other end of each of its sessions, whichever publications crossed
\* it and whoever stopped half-way through its peers.
PublishersHeard ==
  Quiet => \A r, s \in Servers : \A e \in Held(r) : Peer(e) \in Held(s) =>
             {published[r][k] : k \in DOMAIN published[r]} \subseteq Stored(s)
=============================================================================
