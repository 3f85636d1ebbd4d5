----------------------------- MODULE NetdKernel -----------------------------
(***************************************************************************)
(* The kernel objects candy-netd owns for one routing domain and the       *)
(* backend calls that change them: the route table, the policy rules that  *)
(* steer into it, the nft table and the managed sysctls (linux.rs,         *)
(* nft.rs).                                                                *)
(*                                                                         *)
(* A backend call is not atomic: it is a loop of netlink requests, any of  *)
(* which may fail or be cut short by a crash.  It is therefore compiled    *)
(* into a sequence of elementary operations, each a batch of writes of one *)
(* kind; NetdForward executes them one at a time, and a failing batch has  *)
(* applied an arbitrary part of its writes.                                *)
(***************************************************************************)
EXTENDS Naturals, Sequences, FiniteSets

CONSTANTS
    None,       \* absent value
    Prefixes,   \* IPv4 prefixes a declaration can name
    Anywhere    \* the missing source of a source-less selector

ASSUME AnywhereAssumption == Anywhere \notin Prefixes

RouteKinds == {"none", "unicast", "unreachable", "throw"}
Selectors == (Prefixes \cup {Anywhere}) \X Prefixes

(***************************************************************************)
(* A PrepareDeclaration: Remote, Local and underlay-exclusion prefixes,    *)
(* the forwarding permission, and `attr`, standing for the attributes that *)
(* a replacement must keep (table, sysctl requirements, address, MTU).     *)
(***************************************************************************)
Declarations ==
    [remote : SUBSET Prefixes, local : SUBSET Prefixes, excl : SUBSET Prefixes,
     allow : BOOLEAN, attr : {"infra"}]

Throws(d) == d.local \cup d.excl
Targets(d) == d.remote \cup Throws(d)

\* validate: routes and exclusions are present and never overlap.
ValidDecl(d) ==
    /\ d.remote \cup d.local # {}
    /\ d.excl # {}
    /\ d.remote \cap Throws(d) = {}
    /\ d.local \cap d.excl = {}

\* policy_selectors: every Local source to every Remote destination.
Sel(d) ==
    IF d.local = {} THEN {Anywhere} \X d.remote ELSE d.local \X d.remote

Kernels ==
    [route : [Prefixes -> RouteKinds], rule : SUBSET Selectors,
     fw : Declarations \cup {None}, sysctl : BOOLEAN]

\* A freshly booted kernel owns nothing of candy's.
CleanKernel ==
    [route |-> [p \in Prefixes |-> "none"], rule |-> {}, fw |-> None,
     sysctl |-> FALSE]

-----------------------------------------------------------------------------
(* Elementary operations. *)

Route(f) == <<[op |-> "route", to |-> f]>>
AllTo(S, kind) == Route([p \in S |-> kind])
AddRules(S) == <<[op |-> "addrule", sel |-> S]>>
KeepRules(S) == <<[op |-> "keeprule", sel |-> S]>>
NeedLink == <<[op |-> "link"]>>
StageFirewall(d) == <<[op |-> "stagefw", decl |-> d]>>
ReplaceFirewall(d) == <<[op |-> "replacefw", decl |-> d]>>
RemoveFirewall == <<[op |-> "removefw"]>>
WriteSysctls(changed, on) ==
    IF changed THEN <<[op |-> "sysctl", on |-> on]>> ELSE <<>>

(* The backend calls. *)

RejectForwarding(d) ==
    AllTo(d.remote, "unreachable") \o AllTo(Throws(d), "throw")
        \o AddRules(Sel(d))

\* Faulty variants of RestoreForwarding: stale selectors are kept; failures are
\* ignored; the selectors are flushed before they are added.
RestoreForwardingKeepsRules(d, failed) ==
    NeedLink
        \o Route([p \in d.remote |->
                    IF p \in failed THEN "unreachable" ELSE "unicast"])
        \o AllTo(Throws(d), "throw")
        \o AddRules(Sel(d))

RestoreForwardingIgnoresFailures(d, failed) ==
    NeedLink \o AllTo(d.remote, "unicast") \o AllTo(Throws(d), "throw")
        \o AddRules(Sel(d)) \o KeepRules(Sel(d))

RestoreForwardingFlushesRules(d, failed) ==
    NeedLink
        \o Route([p \in d.remote |->
                    IF p \in failed THEN "unreachable" ELSE "unicast"])
        \o AllTo(Throws(d), "throw")
        \o KeepRules({}) \o AddRules(Sel(d))

\* apply_v2_forward_routes(declaration, failed, None); selectors are added
\* before stale ones are deleted.
RestoreForwarding(d, failed) ==
    NeedLink
        \o Route([p \in d.remote |->
                    IF p \in failed THEN "unreachable" ELSE "unicast"])
        \o AllTo(Throws(d), "throw")
        \o AddRules(Sel(d)) \o KeepRules(Sel(d))

ChangedPrefixes(old, new) == (old \ new) \cup (new \ old)

GuardChanged(old, new) ==
    NeedLink \o AllTo(ChangedPrefixes(old, new), "unreachable")

UpdateFailedPrefixes(old, new) ==
    GuardChanged(old, new)
        \o NeedLink
        \o Route([p \in ChangedPrefixes(old, new) |->
                    IF p \in new THEN "unreachable" ELSE "unicast"])

\* Faulty variant: prefixes that stay in use are removed too.
RemoveStaleForwardingAll(old, kept) == AllTo(Targets(old), "none")

RemoveStaleForwarding(old, kept) == AllTo(Targets(old) \ Targets(kept), "none")

\* Faulty variants: the live policy is rejected first; old routes are kept.
UpdateLivePolicyGuarding(prev, target, failed) ==
    RejectForwarding(prev) \o RestoreForwarding(target, failed)
        \o ReplaceFirewall(target) \o RemoveStaleForwarding(prev, target)

UpdateLivePolicyKeepsStale(prev, target, failed) ==
    RestoreForwarding(target, failed) \o ReplaceFirewall(target)

UpdateLivePolicy(prev, target, failed) ==
    RestoreForwarding(target, failed) \o ReplaceFirewall(target)
        \o RemoveStaleForwarding(prev, target)

DiscardLivePolicy(prev, target) ==
    RemoveStaleForwarding(target, prev) \o RestoreForwarding(prev, prev.remote)

\* An installed route this declaration could have written.
OwnedRoute(d, p, kind) ==
    CASE kind = "none" -> TRUE
      [] kind = "throw" -> p \in Targets(d)
      [] OTHER -> p \in d.remote

OwnedRoutes(k, d) == \A p \in Prefixes : OwnedRoute(d, p, k.route[p])

\* remove_policy_rule deletes every selector of the table; remove_routes and
\* the unreachable sweep delete what the declaration owns.
RetireForwarding(k, d) ==
    KeepRules({})
        \o AllTo({p \in Targets(d) : OwnedRoute(d, p, k.route[p])}, "none")

\* preflight: no firewall table, no rule, no route of somebody else.
Preflight(k, d) == k.fw = None /\ k.rule = {} /\ OwnedRoutes(k, d)

\* validate_forwarding_replacement, apart from the interface lookup.
ReplacementValid(k, prev) == OwnedRoutes(k, prev) /\ k.rule \subseteq Sel(prev)

-----------------------------------------------------------------------------
(* What an elementary operation needs and what it writes. *)

\* Refusals that do not depend on luck: a missing interface, an nft table in
\* the wrong state, a declaration without forwarding permission.
Admissible(op, k, linked) ==
    CASE op.op = "link" -> linked
      [] op.op = "route" -> \A p \in DOMAIN op.to : op.to[p] = "unicast" => linked
      [] op.op = "stagefw" -> op.decl.allow /\ k.fw = None
      [] op.op = "replacefw" -> op.decl.allow /\ k.fw # None
      [] OTHER -> TRUE

\* The writes of an operation, the unit in which it can be cut short.
Writes(op, k) ==
    CASE op.op = "route" -> DOMAIN op.to
      [] op.op = "addrule" -> op.sel \ k.rule
      [] op.op = "keeprule" -> k.rule \ op.sel
      [] op.op = "link" -> {}
      [] OTHER -> {op.op}

\* The kernel after the writes `done` of the operation.
Effect(op, done, k) ==
    CASE op.op = "route" ->
            [k EXCEPT !.route = [p \in Prefixes |->
                IF p \in done THEN op.to[p] ELSE k.route[p]]]
      [] op.op = "addrule" -> [k EXCEPT !.rule = k.rule \cup done]
      [] op.op = "keeprule" -> [k EXCEPT !.rule = k.rule \ done]
      [] done = {} -> k
      [] op.op \in {"stagefw", "replacefw"} -> [k EXCEPT !.fw = op.decl]
      [] op.op = "removefw" -> [k EXCEPT !.fw = None]
      [] op.op = "sysctl" -> [k EXCEPT !.sysctl = op.on]
      [] OTHER -> k

\* Deleting the interface takes its routes along.
WithoutLink(k) ==
    [k EXCEPT !.route = [p \in Prefixes |->
        IF k.route[p] = "unicast" THEN "none" ELSE k.route[p]]]

=============================================================================
