---------------------------- MODULE MCNetdForward ----------------------------
(***************************************************************************)
(* Instances of NetdForward for TLC.                                       *)
(***************************************************************************)
EXTENDS NetdForward

CONSTANTS a, b, l, x

\* Two policies that share a Remote prefix and disagree about another one:
\* `a` is Remote in Wide and Local in Narrow.
Wide ==
    [remote |-> {a, b}, local |-> {l}, excl |-> {x}, allow |-> TRUE,
     attr |-> "infra"]

Narrow ==
    [remote |-> {b}, local |-> {a}, excl |-> {x}, allow |-> TRUE,
     attr |-> "infra"]

MCPrefixes == {a, b, l, x}
MCDecls == {Wide, Narrow}
OneDecl == {Wide}

Owner(gen, token, auth, lease) ==
    [domain |-> 1, gen |-> gen, epoch |-> gen, token |-> token, auth |-> auth,
     lease |-> lease]

\* The third owner outranks the second by its token only.
MCOwners == {Owner(1, 1, 2, 1), Owner(2, 2, 2, 2), Owner(1, 3, 3, 3)}
TwoOwners == {Owner(1, 1, 2, 1), Owner(2, 2, 2, 2)}
OneOwner == {Owner(1, 1, 2, 1)}

=============================================================================
