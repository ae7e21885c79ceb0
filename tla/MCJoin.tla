------------------------------- MODULE MCJoin -------------------------------
(***************************************************************************)
(* Servers launched once each, and published to at any moments, for TLC.   *)
(***************************************************************************)
EXTENDS MCCluster, ServerJoin

CONSTANTS MaxEvents,       \* bound: publications and stops, from nothing
          MaxPairEvents    \* bound: publications and stops, once two servers run

VARIABLE left              \* how many publications and stops may still come

\* Publications and stops so far.
Events == stops + Cardinality({t \in Texts : ~ Unpublished(t)})

CountEvents == left' = left - (Events' - Events) /\ left' >= 0

\* The servers one after the other or at once, or the third while the first two
\* have been running.
LaunchInit ==
  JoinInit /\ \/ Init /\ left = MaxEvents
              \/ Established(2) /\ left = MaxPairEvents

FromPair == left + Events = MaxPairEvents

\* Each server once, and in their order: servers are interchangeable, so it is
\* enough that they are launched, and ask for the list, in their order; and that
\* a third one gets the first two in their order.
InOrder ==
  \A k \in DOMAIN Order :
    /\ pc[Order[k]] = "off" /\ pc'[Order[k]] # "off" => starts = k - 1
    /\ pc[Order[k]] = "lookup" /\ pc'[Order[k]] = "register" =>
         /\ \A j \in 1 .. k - 1 : pc[Order[j]] # "lookup"
         /\ FromPair => server_list'[Order[k]] = SubSeq(Order, 1, k - 1)

\* The REG of the last server launched makes no difference: nobody asks after it.
LastRegReceived ==
  FromPair => \A s \in Servers : pc'[s] \in {"connect", "loop"} /\ pc[s] = "register" =>
                                   s \in registry'

LaunchNext ==
  /\ JoinNext /\ CountEvents
  /\ TextsInOrder /\ OwnStepsFirst /\ InOrder /\ LastRegReceived

LaunchSpec == LaunchInit /\ [][LaunchNext]_<<vars, history, left>> /\ Fairness
=============================================================================
