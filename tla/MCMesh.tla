------------------------------- MODULE MCMesh -------------------------------
(***************************************************************************)
(* Three servers, or two, that all have sessions with each other.          *)
(***************************************************************************)
EXTENDS MCCluster, ServerMesh

\* The server at each endpoint of the sessions that Established makes.
Owner == [e \in Endpoints |->
            Order[CHOOSE n \in DOMAIN Order : \E k \in DOMAIN Order :
                    \/ k < n /\ e = <<Link(k, n), "connect">>
                    \/ n < k /\ e = <<Link(n, k), "accept">>]]

MeshInit == Established(Cardinality(Servers)) /\ MeshStart(Owner)

MeshSpec == MeshInit /\ [][Next]_vars /\ Fairness
=============================================================================
