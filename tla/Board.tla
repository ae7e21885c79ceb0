------------------------------- MODULE Board -------------------------------
(***************************************************************************)
(* One message server on its own: terminals publish to it and ask it for   *)
(* its latest messages, and no other server ever sends it anything.        *)
(* comm_msgserv.c, publish_message and send_messages_to_terminal, on the   *)
(* array of msgserv.c.                                                     *)
(***************************************************************************)
EXTENDS MessageStore

CONSTANTS Texts,          \* what terminals publish
          MaxPublishes    \* bound: how many times they do

VARIABLES board,          \* msgserv->messages
          lc,             \* msgserv->lc
          reply           \* the last MESSAGES reply to a terminal

vars == <<board, lc, reply>>

Init == board = EmptyBoard /\ lc = 0 /\ reply = <<>>

publish_message(t) ==
  /\ lc < MaxPublishes
  /\ lc' = lc + 1
  /\ board' = add_message(board, lc', <<t>>)
  /\ reply' = reply

send_messages_to_terminal(n) ==
  /\ reply' = listing(board, Clamp(board, n))
  /\ UNCHANGED <<board, lc>>

\* A terminal may ask for more messages than the board can hold.
Next == \/ \E t \in Texts : publish_message(t)
        \/ \E n \in 0 .. M + 1 : send_messages_to_terminal(n)

Spec == Init /\ [][Next]_vars
-----------------------------------------------------------------------------
\* Type invariant.  The clock never passes the number of publications.
TypeOK ==
  /\ board \in [Slots -> [lc : Nat, msg : {<<>>} \cup {<<t>> : t \in Texts}]]
  /\ lc \in Nat
  /\ reply \in Seq([lc : Nat, msg : {<<t>> : t \in Texts}])

\* The array is only ever scanned from its latest entry backwards, modulo M
\* (MSGSERV_get_nth_latest_index).  With a single publisher that walk visits
\* exactly the last num_messages publications, each once, in clock order,
\* however often the array has wrapped, and never meets a free slot.
ListedByClock ==
  \A n \in 0 .. num_messages(board) :
    \A k \in 1 .. n :
      /\ listing(board, n)[k].lc = lc - n + k
      /\ listing(board, n)[k].msg # <<>>

\* The board with its clock and its replies behaves as a list of the last M
\* publications does, at every step: what a terminal is shown is a suffix of
\* what was published, and is complete up to the size of the board.
Abstract == INSTANCE LatestMessages
              WITH kept <- listing(board, num_messages(board)), clock <- lc

RefinesLatestMessages == Abstract!Spec
=============================================================================
