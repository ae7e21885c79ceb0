----------------------------- MODULE ServerJoin -----------------------------
(***************************************************************************)
(* What message servers promise while servers are launched, stop and are   *)
(* launched again: Cluster with a record of the answers that those that    *)
(* start were given.  The record changes nothing of what the servers do.   *)
(***************************************************************************)
EXTENDS Cluster

VARIABLES
  answerer,   \* history: the session whose answer a server read last, or NULL
  since       \* history: per accepted session, how much its server had published

history == <<answerer, since>>

Accepts(s, e) == backlog[s] # <<>> /\ e \in Waiting(s) /\ e \in Held(s)'

Remember ==
  /\ answerer' = [s \in Servers |->
                    IF pc'[s] = "off" THEN NULL
                    ELSE IF pc[s] = "await" /\ pc'[s] = "request" /\ Readable(sockets[s][i[s]])
                    THEN sockets[s][i[s]] ELSE answerer[s]]
  /\ since' = [e \in Endpoints |->
                 IF e \notin open' THEN 0
                 ELSE IF \E s \in Servers : Accepts(s, e)
                 THEN Len(published[CHOOSE s \in Servers : Accepts(s, e)]) ELSE since[e]]

JoinInit == /\ answerer = [s \in Servers |-> NULL]
            /\ since = [e \in Endpoints |-> 0]

JoinNext == Next /\ Remember
-----------------------------------------------------------------------------
\* What r published and the server at the other end of its session e is due: all
\* of it if r made the session, or if its answer is the one that was used, and
\* otherwise what it published since it accepted the session.
Due(s, r, e) ==
  {published[r][k] : k \in {j \in DOMAIN published[r] :
     e[2] = "connect" \/ answerer[s] = Peer(e) \/ j > since[e]}}

\* A server that connects to several others asks each for its messages and uses
\* the last answer only, while all of them publish and some stop.  When
\* nothing is under way, what a server published and still has is stored by
\* the server at the other end of each of its sessions, as far as it is due
\* there, unless a full board discarded it or an answer left out what was
\* stored.  A publication that is read in the place of an answer that is then
\* not used is no exception.
JoinersHear ==
  "stored" \notin omitted /\ Quiet =>
    \A r, s \in Servers : \A e \in Held(r) : Peer(e) \in Held(s) =>
      \/ Used(board[s]) = Slots
      \/ Stored(r) \cap Due(s, r, e) \subseteq Stored(s)
=============================================================================
