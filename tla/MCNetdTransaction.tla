-------------------------- MODULE MCNetdTransaction --------------------------
(***************************************************************************)
(* An instance of NetdTransaction for TLC: one declaration, a policy       *)
(* update of it in the same table and a replacement in another table.      *)
(***************************************************************************)
EXTENDS NetdTransaction, TLC

CONSTANTS p, q

MCPrefixes == {p, q}

Base == [table |-> 1, remote |-> {p}, local |-> {}, fw |-> "plain",
         excl |-> "e1", mtu |-> 2]

Wider == [Base EXCEPT !.local = {q}]

Moved == [Base EXCEPT !.table = 2]

Symmetry == Permutations(Procs)

MCFirst == {Base}
MCDecls == {Base, Wider, Moved}

=============================================================================
