--------------------------- MODULE MCRmbSession ---------------------------
(***************************************************************************)
(* Instances of RmbSession for TLC: what the users type.                   *)
(***************************************************************************)
EXTENDS RmbSession, TLC

CONSTANTS t1, a, b, h

\* A user who publishes and types the same message again, or a text that is part
\* of the first line of an answer, or who looks at the board and at the list of
\* servers.
OneUser ==
  {t1 :> <<Publish(a), Publish(a)>>, t1 :> <<Publish(h)>>, t1 :> <<Show(2), ShowServers>>}

\* A user who looks at the board before publishing.
LooksFirst == {t1 :> <<Show(1), Publish(a)>>}

\* Each text is found in itself only.
Distinct == {<<x, x>> : x \in Texts}

\* And a in b, h in the first line of an answer.
Overlapping == Distinct \cup {<<a, b>>, <<h, Header>>}
=============================================================================
