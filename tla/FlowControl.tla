---------------------------- MODULE FlowControl ----------------------------
(***************************************************************************)
(* Blocking writes between message servers: a session holds a bounded      *)
(* number of frames in each direction, and a server that writes to one     *)
(* that is full waits, in the middle of its pass over what select() found, *)
(* until the peer has read.  writemsg_tcp under the loop of                *)
(* main_msgserv.c, between servers whose start-up is over, with terminals  *)
(* that publish without end.  What the frames say does not matter here,    *)
(* only how many are unread.                                               *)
(***************************************************************************)
EXTENDS Integers, Sequences, FiniteSets

CONSTANTS Servers,
          Cap       \* the frames a session holds in one direction

ASSUME CapAssumption == Cap \in Nat \ {0}

VARIABLES
  pc,      \* where each server is in its pass
  peers,   \* its array of sessions: the servers at the other ends
  i,       \* the index of the loop over that array
  rfds,    \* the peers select() found ready and the pass has not yet served
  pipe     \* pipe[s][r]: how many frames from s are still to be read by r

vars == <<pc, peers, i, rfds, pipe>>

\* Longer frames, of which a session holds one fewer.
can_write_longer(s, r) == pipe[s][r] < Cap - 1

\* write() goes on when there is room.
CanWrite(s, r) == pipe[s][r] < Cap

Readable(s) == {r \in Servers : pipe[r][s] > 0}
-----------------------------------------------------------------------------
\* A pass that leaves the peers for later when a terminal was served.
select_one_kind(s, publish) ==
  /\ pc[s] = "select"
  /\ publish \/ Readable(s) # {}
  /\ rfds' = [rfds EXCEPT ![s] = IF publish THEN {} ELSE Readable(s)]
  /\ pc' = [pc EXCEPT ![s] = IF publish /\ peers[s] # <<>> THEN "distribute" ELSE "serve"]
  /\ UNCHANGED <<peers, i, pipe>>

\* select() returns what is ready now, a PUBLISH of a terminal among it or not.
\* The terminal is served first.
select(s, publish) ==
  /\ pc[s] = "select"
  /\ publish \/ Readable(s) # {}
  /\ rfds' = [rfds EXCEPT ![s] = Readable(s)]
  /\ pc' = [pc EXCEPT ![s] = IF publish /\ peers[s] # <<>> THEN "distribute" ELSE "serve"]
  /\ UNCHANGED <<peers, i, pipe>>

\* A distribution that does not start again at the first session.
distribute_keeps_index(s) ==
  /\ pc[s] = "distribute"
  /\ LET r == peers[s][i[s]]
         last == i[s] = Len(peers[s])
     IN  /\ CanWrite(s, r)
         /\ pipe' = [pipe EXCEPT ![s][r] = @ + 1]
         /\ pc' = [pc EXCEPT ![s] = IF last THEN "serve" ELSE @]
         /\ i' = [i EXCEPT ![s] = @ + 1]
  /\ UNCHANGED <<peers, rfds>>

\* COMMMSGSERV_distribute_message, one session at a time, each write as soon as
\* there is room for it.
distribute_message(s) ==
  /\ pc[s] = "distribute"
  /\ LET r == peers[s][i[s]]
         last == i[s] = Len(peers[s])
     IN  /\ CanWrite(s, r)
         /\ pipe' = [pipe EXCEPT ![s][r] = @ + 1]
         /\ pc' = [pc EXCEPT ![s] = IF last THEN "serve" ELSE @]
         /\ i' = [i EXCEPT ![s] = IF last THEN 1 ELSE @ + 1]
  /\ UNCHANGED <<peers, rfds>>

\* COMMMSGSERV_read_from_msgserv on every session that select() reported: one
\* frame of each, which is there to be read.
serve(s) ==
  /\ pc[s] = "serve"
  /\ pipe' = [r \in Servers |->
                [pipe[r] EXCEPT ![s] = IF r \in rfds[s] THEN @ - 1 ELSE @]]
  /\ rfds' = [rfds EXCEPT ![s] = {}]
  /\ pc' = [pc EXCEPT ![s] = "select"]
  /\ UNCHANGED <<peers, i>>
-----------------------------------------------------------------------------
\* Every server has one session with every other, in an order of its own.
IsArray(s, q) ==
  /\ \A j, k \in DOMAIN q : q[j] = q[k] => j = k
  /\ {q[k] : k \in DOMAIN q} = Servers \ {s}

Init ==
  /\ pc = [s \in Servers |-> "select"]
  /\ peers \in [Servers -> UNION {[1 .. n -> Servers] : n \in 0 .. Cardinality(Servers)}]
  /\ \A s \in Servers : IsArray(s, peers[s])
  /\ i = [s \in Servers |-> 1]
  /\ rfds = [s \in Servers |-> {}]
  /\ pipe = [s \in Servers |-> [r \in Servers |-> 0]]

Next == \E s \in Servers :
          \/ \E publish \in BOOLEAN : select(s, publish)
          \/ distribute_message(s)
          \/ serve(s)

Spec == Init /\ [][Next]_vars
-----------------------------------------------------------------------------
\* Type invariant.  No session holds more than it can, or less than nothing.
TypeOK ==
  /\ pc \in [Servers -> {"select", "distribute", "serve"}]
  /\ \A s \in Servers : peers[s] \in Seq(Servers) /\ IsArray(s, peers[s])
  /\ i \in [Servers -> Nat \ {0}]
  /\ \A s \in Servers : pc[s] = "distribute" => i[s] \in DOMAIN peers[s]
  /\ rfds \in [Servers -> SUBSET Servers]
  /\ pipe \in [Servers -> [Servers -> 0 .. Cap]]

\* The server s can do nothing until r has read.
WaitsFor(s, r) ==
  pc[s] = "distribute" /\ r = peers[s][i[s]] /\ ~ CanWrite(s, r)

\* The frames from s to r, with the one that s is about to write, less the one
\* that r is going to read in its pass.
Load(s, r) ==
  pipe[s][r]
    + (IF pc[s] = "distribute" /\ \E k \in i[s] .. Len(peers[s]) : peers[s][k] = r THEN 1 ELSE 0)
    - (IF s \in rfds[r] THEN 1 ELSE 0)

\* A pass adds a frame on the way to one neighbour in a circle and takes one on
\* the way from the other, if one was there when it began: so a circle gains
\* only while one of its sessions is empty, and what it holds is bounded: that of
\* two servers by little more than one session's worth, that of three by little
\* more than two.  (For the two properties below; a bound says that a circle has
\* room left only if Cap is larger than what is added to it.)
RoomInPairs ==
  \A r, s \in Servers : r # s => Load(r, s) + Load(s, r) <= Cap + 2

RoomInTriples ==
  \A r, s, t \in Servers :
    r # s /\ s # t /\ t # r => Load(r, s) + Load(s, t) + Load(t, r) <= 2 * Cap + 3

\* A write blocks the whole server, nothing limits how fast terminals publish,
\* and two servers write to each other all the time.  Still they never wait for
\* each other, if a session holds more than two frames ...
NoPairWaits ==
  Cap > 2 => \A r, s \in Servers : ~ (WaitsFor(r, s) /\ WaitsFor(s, r))

\* ... nor do three in a circle, if it holds more than three.  With room for three
\* frames they can, and all the servers stand still.
NoTripleWaits ==
  Cap > 3 => \A r, s, t \in Servers : ~ (WaitsFor(r, s) /\ WaitsFor(s, t) /\ WaitsFor(t, r))
=============================================================================
