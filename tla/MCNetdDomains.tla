---------------------------- MODULE MCNetdDomains ----------------------------
(***************************************************************************)
(* Two domains, two front threads, and two processes: the first one speaks  *)
(* as two caller instances, the second one borrows one of them.             *)
(***************************************************************************)
EXTENDS NetdDomains

CONSTANTS p1, p2, i1, i2

MCOwners ==
    {[proc |-> p1, inst |-> i1], [proc |-> p1, inst |-> i2], [proc |-> p2, inst |-> i1]}

=============================================================================
