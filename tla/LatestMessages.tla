--------------------------- MODULE LatestMessages ---------------------------
(***************************************************************************)
(* What a message server with no peers promises its terminals: it keeps    *)
(* the last M messages published to it, in the order of publication, and   *)
(* answers a request for n messages with the n latest, oldest first.       *)
(***************************************************************************)
EXTENDS Integers, Sequences

CONSTANTS Texts, M, MaxPublishes

VARIABLES kept,       \* the messages the server still has, oldest first
          clock,      \* how many it has been given
          reply       \* the last answer to a terminal

vars == <<kept, clock, reply>>

Latest(n, q) == IF Len(q) <= n THEN q ELSE SubSeq(q, Len(q) - n + 1, Len(q))

Init == kept = <<>> /\ clock = 0 /\ reply = <<>>

Publish(t) ==
  /\ clock < MaxPublishes
  /\ clock' = clock + 1
  /\ kept' = Latest(M, Append(kept, [lc |-> clock + 1, msg |-> <<t>>]))
  /\ reply' = reply

Show(n) == reply' = Latest(n, kept) /\ UNCHANGED <<kept, clock>>

Next == (\E t \in Texts : Publish(t)) \/ (\E n \in 0 .. M + 1 : Show(n))

Spec == Init /\ [][Next]_vars
=============================================================================
