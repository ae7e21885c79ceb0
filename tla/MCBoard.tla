------------------------------ MODULE MCBoard ------------------------------
(***************************************************************************)
(* Two message arrays small enough to wrap: that of a server on its own    *)
(* (Board), and one that messages are added to with clocks in any order    *)
(* (StoreScan).  One run has both, and only one of the two is ever in use. *)
(***************************************************************************)
EXTENDS Board, StoreScan

InitEither == Init /\ ScanInit

NextEither == \/ Next /\ store = EmptyBoard /\ UNCHANGED store
              \/ ScanNext /\ Init /\ UNCHANGED vars

SpecEither == InitEither /\ [][NextEither]_<<vars, store>>
=============================================================================
