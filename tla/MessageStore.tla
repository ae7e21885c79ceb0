---------------------------- MODULE MessageStore ----------------------------
(***************************************************************************)
(* The message array of a message server (msgserv.c, "MESSAGE methods" and *)
(* "MESSAGES" in msgserv.h): M slots, each holding a text and the value of *)
(* the logical clock the text was given.  A slot is free when its text is  *)
(* the empty string.  The module has no state of its own: it gives the     *)
(* array operations as operators on a board b \in [Slots -> Entry].        *)
(*                                                                         *)
(* A text is a sequence of tokens: <<>> is the empty string and <<t>> the  *)
(* text t of one PUBLISH request.  Texts of several tokens come only from  *)
(* a frame whose records ran together (see Cluster!FirstRecord).           *)
(***************************************************************************)
EXTENDS Integers, Sequences, FiniteSets

CONSTANT M                                  \* parameter -m of msgserv

\* init_msgserv refuses a board of no slots ("m must be greater than 0").
ASSUME MAssumption == M \in Nat \ {0}

Slots == 0 .. M - 1

Empty == [lc |-> 0, msg |-> <<>>]

EmptyBoard == [k \in Slots |-> Empty]

Used(b) == {k \in Slots : b[k].msg # <<>>}

num_messages(b) == Cardinality(Used(b))

\* The scans keep the last of several equal clocks: the comparisons in the
\* code are <= and >=.
IsOldest(b, k) == \A j \in Slots : b[k].lc < b[j].lc \/ (b[k].lc = b[j].lc /\ j <= k)

IsLatest(b, k) == \A j \in Slots : b[j].lc < b[k].lc \/ (b[k].lc = b[j].lc /\ j <= k)

oldest_message_index(b) == CHOOSE k \in Slots : IsOldest(b, k)

latest_message_index(b) == CHOOSE k \in Slots : IsLatest(b, k)

\* A ring one slot short.
nth_latest_wraps_early(b, n) ==
  LET k == latest_message_index(b) - (n - 1)
  IN  IF k < 0 THEN M - 1 + k ELSE k

\* The board read as a ring that ends at the latest message.
nth_latest_index(b, n) ==
  LET k == latest_message_index(b) - (n - 1)
  IN  IF k < 0 THEN M + k ELSE k

FirstFree(b) == CHOOSE k \in Slots \ Used(b) : \A j \in Slots \ Used(b) : k <= j

\* A full board whose last slot is used for every further message.
first_free_is_last(b) ==
  IF Used(b) = Slots THEN M - 1 ELSE FirstFree(b)

first_free_message_index(b) ==
  IF Used(b) = Slots THEN oldest_message_index(b) ELSE FirstFree(b)

add_message(b, lc, msg) ==
  [b EXCEPT ![first_free_message_index(b)] = [lc |-> lc, msg |-> msg]]

\* What the server reports when asked for n messages, in the order it sends
\* them: the loop `for(i = n; i > 0; i--)' over nth_latest_index that the
\* replies to terminals and to other servers share.
listing(b, n) == [k \in 1 .. n |-> b[nth_latest_index(b, n + 1 - k)]]

\* A request for more messages than there are, taken at its word.
unclamped(b, n) == n

\* COMMMSGSERV_send_messages_to_terminal: no more than there are.
Clamp(b, n) == IF n > num_messages(b) THEN num_messages(b) ELSE n
=============================================================================
