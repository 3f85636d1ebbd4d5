--------------------------- MODULE NetdTransaction ---------------------------
(***************************************************************************)
(* Protocol version 1 of candy-netd: the session that admits requests      *)
(* (candy-netd-proto), the journaled network transaction behind it         *)
(* (network.rs, journal.rs) and the kernel objects it manages (linux.rs,   *)
(* nft.rs), under the main loop that serves one request at a time and      *)
(* then looks for an orphaned transaction.                                 *)
(*                                                                         *)
(* A handler is a script: the backend calls and journal writes it makes,   *)
(* in order, each with what the code does when it fails.  One step runs    *)
(* one element, so a fault or a crash can fall between any two.            *)
(***************************************************************************)
EXTENDS Integers, Sequences, FiniteSets

CONSTANTS
    None,
    Prefixes,       \* destination prefixes
    Tables,         \* Candy routing tables
    FirstDecls,     \* declarations a Prepare carries
    Decls,          \* declarations a Reconfigure or PolicyUpdate carries
    Procs,          \* owner processes: instance id and pid
    Generations,    \* signed generations
    LowMtu,         \* the MTU an update asks for
    LeaseLen,       \* lease a request carries
    DrainLen,       \* DEFAULT_DRAIN_TIMEOUT_MS
    MaxTime,        \* bound on the monotonic clock
    MaxFaults       \* bound on failed calls, crashes and process exits

ASSUME BoundAssumption ==
    /\ LeaseLen \in Nat /\ DrainLen \in Nat /\ MaxTime \in Nat
    /\ MaxFaults \in Nat /\ Generations \subseteq Nat \ {0} /\ LowMtu \in Nat

Declarations ==
    [table : Tables, remote : SUBSET Prefixes, local : SUBSET Prefixes,
     fw : {"plain", "clamped"}, excl : {"e1", "e2"}, mtu : Nat]

ASSUME DeclAssumption ==
    /\ Prefixes # {} /\ FirstDecls \subseteq Decls /\ Decls \subseteq Declarations
    /\ \A d \in Decls : d.remote # {} /\ d.remote \cap d.local = {}

VARIABLES
    disk,     \* the journal file: a record or None
    mem,      \* NetworkTransaction.record
    session,  \* NetdService.session
    tun,      \* NetdService holds the TUN descriptor
    fd,       \* the process holding the duplicate it was sent, or None
    kern,     \* kernel objects
    job,      \* the script in progress
    turn,     \* main loop: "serve" a request or "recover"
    up,       \* the service could load its journal
    alive,    \* running owner processes
    now,      \* monotonic clock
    torn,     \* history: tables in which a removal outside clean-up failed
    doubtful, \* history: whether a failed write replaced the file ("disk"), and
              \* the service was restarted from that ("both")
    faults

vars == <<disk, mem, session, tun, fd, kern, job, turn, up, alive, now,
          torn, doubtful, faults>>

-----------------------------------------------------------------------------
(* Records and the journal. *)

Phases ==
    {"Preparing", "Prepared", "Active", "Suspended", "RollingBack", "Draining"}

StepBits == {"sysctls", "link", "up", "routes", "fw", "rule"}

LeaseOwners == [proc : Procs, gen : Generations, lease : Nat]

Records ==
    [owner : LeaseOwners, decl : Declarations,
     cand : Declarations \cup {None}, candOwner : LeaseOwners \cup {None},
     phase : Phases, steps : SUBSET StepBits, sysctls : BOOLEAN,
     deadline : Nat, failed : SUBSET Prefixes]

ASSUME NoneAssumption == None \notin Records \cup Declarations \cup LeaseOwners

\* encode_record refuses a candidate in a phase that has none, or one whose
\* owner is another process or an older generation.
Encodable(r) ==
    /\ r.cand # None =>
           r.phase \in {"Preparing", "Prepared", "Draining", "RollingBack"}
    /\ r.candOwner # None =>
           /\ r.cand # None
           /\ r.candOwner.proc = r.owner.proc
           /\ r.candOwner.gen >= r.owner.gen

\* decode_record looks for the drain deadline only in a version-3 file, but a
\* record with failed prefixes is written as version 4: with a candidate it
\* cannot be read back.
Decodable(r) == r.cand = None \/ r.failed = {}

\* What decode_record returns: a candidate owner equal to the owner is
\* forgotten, and without a candidate so is the deadline.
Decoded(r) ==
    [r EXCEPT !.candOwner = IF @ = r.owner THEN None ELSE @,
              !.deadline = IF r.cand = None THEN 0 ELSE @]

SameProcess(o, q) == o.proc = q.proc

SameOwner(o, q) == SameProcess(o, q) /\ o.gen = q.gen

SameTunnel(d, c) == d.table = c.table /\ d.mtu = c.mtu /\ d.excl = c.excl

FirewallOf(d) == [fw |-> d.fw, local |-> d.local]

FirewallChanged(d, c) == FirewallOf(d) # FirewallOf(c)

RoutesChanged(d, c) == d.remote # c.remote \/ d.local # c.local

-----------------------------------------------------------------------------
(* Kernel objects.  A route is "link", "throw" or "none"; a selector pairs   *)
(* a source, or None, with a destination.                                    *)

Selectors(d) == (IF d.local = {} THEN {None} ELSE d.local) \X d.remote

\* Exclusions belong to the throw prefixes; they never coincide with a route.
Throws(d) == d.local

EmptyTable == [p \in Prefixes |-> "none"]

CleanKernel ==
    [link |-> "absent", mtu |-> 0, sysctl |-> FALSE, docker |-> FALSE,
     routes |-> [t \in Tables |-> EmptyTable],
     rules |-> [t \in Tables |-> {}], fw |-> [t \in Tables |-> None]]

\* Routes through an interface that goes down or away disappear with it.
Unlinked(k, state) ==
    [k EXCEPT !.link = state,
              !.routes = [t \in Tables |-> [p \in Prefixes |->
                  IF @[t][p] = "link" THEN "none" ELSE @[t][p]]]]

\* add_routes: an existing route of the prefix makes the addition a no-op.
AddRoutes(k, d, S) ==
    [k EXCEPT !.routes[d.table] = [p \in Prefixes |->
        CASE p \in S /\ @[p] = "none" /\ p \in d.remote -> "link"
          [] p \in S /\ @[p] = "none" /\ p \in Throws(d) -> "throw"
          [] OTHER -> @[p]]]

\* reconcile_routes replaces the routes of the declared prefixes; a prefix
\* the declaration no longer names is left as it is.
ReconcileRoutes(k, d, failed, S) ==
    [k EXCEPT !.routes[d.table] = [p \in Prefixes |->
        CASE p \in S /\ p \in d.remote \ failed -> "link"
          [] p \in S /\ p \in Throws(d) \cup failed -> "throw"
          [] OTHER -> @[p]]]

\* delete_routes: link routes of the remote prefixes that did not fail, then
\* throw routes of every prefix named.
DeleteRoutes(k, d, failed, S) ==
    [k EXCEPT !.routes[d.table] = [p \in Prefixes |->
        CASE p \in S /\ @[p] = "link" /\ p \in d.remote \ failed -> "none"
          [] p \in S /\ @[p] = "throw" /\ p \in d.remote \cup d.local -> "none"
          [] OTHER -> @[p]]]

\* reconcile_policy_rules adds what is missing before it deletes.
ReconcileRules(k, d, S) ==
    [k EXCEPT !.rules[d.table] =
        IF S = Prefixes THEN Selectors(d)
        ELSE @ \cup {s \in Selectors(d) : s[2] \in S}]

RemoveRules(k, d, S) ==
    [k EXCEPT !.rules[d.table] = {s \in @ : s[2] \notin S}]

\* preflight: no firewall, rule or foreign route in the candidate's table.
Preflight(k, d) ==
    /\ k.fw[d.table] = None
    /\ k.rules[d.table] = {}
    /\ \A p \in Prefixes :
           /\ k.routes[d.table][p] = "throw" => p \in d.remote \cup d.local
           /\ k.routes[d.table][p] = "link" => p \in d.remote

\* Backend calls that fail without any fault.
Feasible(e, k) ==
    CASE e.op \in {"prepare_link", "activate_link", "prepare_routes",
                   "reconcile_routes", "update_mtu"} -> k.link # "absent"
      [] e.op = "preflight" -> Preflight(k, e.d)
      [] e.op = "prepare_firewall" -> k.fw[e.d.table] = None
      [] e.op = "replace_firewall" -> k.fw[e.d.table] # None
      [] OTHER -> e.op # "reject"

\* The effect of a backend call on the prefixes S.  A completed call has
\* S = Prefixes; one that fails may have got through any part of its writes.
Applied(e, k, S) ==
    LET d == e.d
        whole == S = Prefixes
    IN CASE e.op = "prepare_sysctls" -> [k EXCEPT !.sysctl = @ \/ (whole /\ e.r)]
         [] e.op = "restore_sysctls" -> [k EXCEPT !.sysctl = @ /\ ~(whole /\ e.r)]
         [] e.op = "prepare_link" -> [k EXCEPT !.mtu = IF whole THEN d.mtu ELSE @]
         [] e.op = "update_mtu" -> [k EXCEPT !.mtu = IF whole THEN e.r ELSE @]
         [] e.op = "activate_link" -> [k EXCEPT !.link = IF whole THEN "up" ELSE @]
         [] e.op = "deactivate_link" /\ whole /\ k.link = "up" -> Unlinked(k, "down")
         [] e.op = "remove_link" /\ whole -> Unlinked(k, "absent")
         [] e.op = "prepare_routes" -> AddRoutes(k, d, S)
         [] e.op = "reconcile_routes" -> ReconcileRoutes(k, d, e.r, S)
         [] e.op = "remove_routes" -> DeleteRoutes(k, d, e.r, S)
         [] e.op = "install_rule" -> ReconcileRules(k, d, S)
         [] e.op = "remove_rule" -> RemoveRules(k, d, S)
         [] e.op \in {"prepare_firewall", "replace_firewall"} /\ S # {} ->
                [k EXCEPT !.fw[d.table] = FirewallOf(d), !.docker = @ \/ whole]
         [] e.op = "remove_firewall" /\ S # {} ->
                [k EXCEPT !.fw[d.table] = IF whole THEN None ELSE @,
                          !.docker = FALSE]
         [] OTHER -> k

\* The kernel after a call that failed part of the way: calls that write one
\* object fail without effect.
PartlyApplied(e, k) ==
    {Applied(e, k, S) : S \in (SUBSET Prefixes) \ {Prefixes}} \cup
    (IF e.op \in {"prepare_firewall", "replace_firewall"}
     THEN {[Applied(e, k, Prefixes) EXCEPT !.docker = k.docker]} ELSE {})

-----------------------------------------------------------------------------
(* Scripts.  An element is a backend call or a journal write, `d` and `r`    *)
(* its arguments.  `catch` says what a failure does: return the error, go    *)
(* on ("soft"), or run the named recovery; `then` runs only after success.   *)

Call(op, d, r, catch) ==
    [op |-> op, d |-> d, r |-> r, catch |-> catch, then |-> <<>>]

\* self.record is changed first and then written.
Store(r, catch) == Call("store", None, r, catch)

\* The record is written first and becomes self.record if that worked.
Adopt(r, catch) == Call("adopt", None, r, catch)

\* Faulty variant of Undo: the bit is cleared even if the removal failed.
UndoAnyway(op, d, r, bit) ==
    [Call(op, d, r, "soft") EXCEPT
        !.then = <<Call("clear_step", None, bit, "soft")>>,
        !.catch = "then"]

Undo(op, d, r, bit) ==
    [Call(op, d, r, "soft") EXCEPT
        !.then = <<Call("clear_step", None, bit, "soft")>>]

When(b, script) == IF b THEN script ELSE <<>>

Reject == <<Call("reject", None, None, "return")>>

WithSteps(r, bits) == [r EXCEPT !.steps = @ \cup bits]

WithoutCandidate(r, phase) ==
    [r EXCEPT !.cand = None, !.candOwner = None, !.phase = phase,
              !.deadline = 0]

\* cleanup_record.  routes_for_cleanup turns failed prefixes into local ones.
Cleanup(m) ==
    LET r == [m EXCEPT !.phase = "RollingBack"]
        d == r.decl
        has(bits) == r.steps \cap bits # {}
    IN <<Store(r, "return")>>
       \o When(r.cand # None,
              <<Call("remove_firewall", r.cand, None, "soft"),
                Call("remove_routes", r.cand, {}, "soft"),
                Call("drop_candidate", None, None, "soft")>>)
       \o When(has({"rule"}), <<Undo("remove_rule", d, None, "rule")>>)
       \o When(has({"link", "up"}), <<Undo("deactivate_link", d, None, "up")>>)
       \o When(has({"sysctls"}),
              <<Undo("restore_sysctls", d, r.sysctls, "sysctls")>>)
       \o When(has({"fw"}), <<Undo("remove_firewall", d, None, "fw")>>)
       \o When(has({"routes"}), <<Undo("remove_routes", d, r.failed, "routes")>>)
       \o When(has({"link"}), <<Undo("remove_link", d, None, "link")>>)
       \o <<Call("clear", None, None, "soft")>>

\* prepare and prepare_steps: every bit is journaled before its object is
\* created.
Prepare(o, d) ==
    LET r0 == [owner |-> o, decl |-> d, cand |-> None, candOwner |-> None,
               phase |-> "Preparing", steps |-> {}, sysctls |-> FALSE,
               deadline |-> 0, failed |-> {}]
        r1 == [r0 EXCEPT !.sysctls = ~kern.sysctl]
        step(bits) == Store(WithSteps(r1, bits), "cleanup")
        do(op) == Call(op, d, r1.sysctls, "cleanup")
    IN IF mem # None
       THEN IF /\ SameOwner(mem.owner, o) /\ mem.decl = d
               /\ mem.phase \in {"Prepared", "Active"}
            THEN <<>> ELSE Reject
       ELSE <<Adopt(r0, "return"), do("preflight"), step({}),
              step({"sysctls"}), do("prepare_sysctls"),
              step({"sysctls", "link"}), do("prepare_link"),
              step({"sysctls", "link", "up"}), do("activate_link"),
              step({"sysctls", "link", "up", "routes"}), do("prepare_routes"),
              step({"sysctls", "link", "up", "routes", "fw"}),
              do("prepare_firewall"),
              Store([WithSteps(r1, StepBits \ {"rule"}) EXCEPT
                         !.phase = "Prepared"], "cleanup")>>

\* commit_with_drain.
Commit(o) ==
    LET r == mem
        c == r.cand
        ruled == WithSteps(r, {"rule"})
    IN IF \/ mem = None
          \/ c # None /\ ~SameProcess(r.owner, o)
          \/ c = None /\ ~SameOwner(r.owner, o)
          \/ r.phase \notin {"Prepared", "Active", "Draining"}
       THEN Reject
       ELSE IF r.phase # "Prepared" THEN <<>>
       ELSE IF c # None
       THEN <<Call("activate_link", c, None, "drop_activation"),
              Call("install_rule", c, None, "drop_activation"),
              Store([r EXCEPT !.phase = "Draining",
                              !.deadline = now + DrainLen], "drop_activation")>>
       ELSE <<Store(ruled, "cleanup"),
              Call("install_rule", r.decl, None, "cleanup"),
              Store([ruled EXCEPT !.phase = "Active"], "cleanup")>>

\* Faulty variant of DrainOld: a candidate owner that was not journaled is
\* taken over as it is.
DrainOldToCandidateOwner(o) ==
    IF mem = None \/ ~SameProcess(mem.owner, o) THEN Reject
    ELSE IF mem.phase # "Draining" THEN <<>>
    ELSE <<Call("remove_rule", mem.decl, None, "return"),
           Store([WithoutCandidate(mem, "Active") EXCEPT
                      !.owner = mem.candOwner, !.decl = mem.cand], "return")>>

\* drain_old: retire the previous declaration, then make the candidate's
\* owner and declaration current.
DrainOld(o) ==
    LET r == mem
    IN IF \/ mem = None
          \/ r.cand # None /\ ~SameProcess(r.owner, o)
          \/ r.cand = None /\ ~SameOwner(r.owner, o)
       THEN Reject
       ELSE IF r.phase = "Active" /\ r.cand = None THEN <<>>
       ELSE IF r.phase # "Draining" \/ (r.deadline # 0 /\ now < r.deadline)
       THEN Reject
       ELSE <<Call("remove_rule", r.decl, None, "return"),
              Call("remove_firewall", r.decl, None, "return"),
              Call("remove_routes", r.decl, {}, "return"),
              Store([WithoutCandidate(r, "Active") EXCEPT
                         !.owner = IF r.candOwner = None THEN o
                                   ELSE r.candOwner,
                         !.decl = r.cand], "return")>>

\* Faulty variant of DiscardCandidate: the live declaration is removed.
DiscardLive(r) ==
    <<Call("remove_firewall", r.decl, None, "return"),
      Call("remove_routes", r.decl, {}, "return"),
      Store(WithoutCandidate(r, "Active"), "return")>>

DiscardCandidate(r) ==
    <<Call("remove_firewall", r.cand, None, "return"),
      Call("remove_routes", r.cand, {}, "return"),
      Store(WithoutCandidate(r, "Active"), "return")>>

Staged(r) ==
    r # None /\ r.cand # None /\ r.phase \in {"Preparing", "Prepared"}

\* rollback; shutdown calls it with the retained owner.
Rollback(o) ==
    IF mem = None THEN Reject
    ELSE IF Staged(mem)
    THEN IF SameProcess(mem.owner, o) THEN DiscardCandidate(mem) ELSE Reject
    ELSE IF SameOwner(mem.owner, o) THEN Cleanup(mem) ELSE Reject

\* set_failed_prefixes.
SetFailedPrefixes(o, failed) ==
    IF \/ mem = None \/ ~SameOwner(mem.owner, o)
       \/ mem.phase \notin {"Active", "Suspended"}
       \/ ~(failed \subseteq mem.decl.remote)
    THEN Reject
    ELSE <<Call("reconcile_routes", mem.decl, failed, "return")>>
         \o When(mem.phase = "Active",
                <<Call("install_rule", mem.decl, None, "return")>>)
         \o <<Store([mem EXCEPT !.failed = failed], "return")>>

RenewLease(o) ==
    IF \/ mem = None
       \/ mem.cand # None /\ ~SameProcess(mem.owner, o)
       \/ mem.cand = None /\ ~SameOwner(mem.owner, o)
    THEN Reject
    ELSE <<Store([mem EXCEPT !.owner.lease = o.lease], "return")>>

UpdateMtu(o, mtu) ==
    IF \/ mem = None \/ ~SameOwner(mem.owner, o)
       \/ mem.phase # "Active" \/ mtu >= mem.decl.mtu
    THEN Reject
    ELSE <<Call("update_mtu", mem.decl, mtu, "return"),
           Store([mem EXCEPT !.decl.mtu = mtu], "return")>>

Suspend(o) ==
    IF \/ mem = None \/ ~SameOwner(mem.owner, o)
       \/ mem.phase \notin {"Active", "Suspended"}
    THEN Reject
    ELSE IF mem.phase = "Suspended" THEN <<>>
    ELSE LET r == [mem EXCEPT !.steps = @ \ {"rule"}]
         IN <<Call("remove_rule", mem.decl, None, "return"),
              Store(r, "return"),
              Store([r EXCEPT !.phase = "Suspended"], "return")>>

Resume(o) ==
    IF \/ mem = None \/ ~SameOwner(mem.owner, o)
       \/ mem.phase \notin {"Active", "Suspended"}
    THEN Reject
    ELSE IF mem.phase = "Active" THEN <<>>
    ELSE LET r == WithSteps(mem, {"rule"})
         IN <<Call("install_rule", mem.decl, None, "return"),
              Store(r, "return"),
              Store([r EXCEPT !.phase = "Active"], "return")>>

\* prepare_replacement: stage a candidate beside the active declaration.
PrepareReplacement(o, d) ==
    LET staged == [mem EXCEPT !.cand = d, !.candOwner = o,
                              !.phase = "Preparing", !.deadline = 0]
        do(op) == Call(op, d, None, "drop_candidate")
    IN IF d = mem.decl THEN <<Adopt([mem EXCEPT !.owner = o], "return")>>
       ELSE IF \/ d.table = mem.decl.table \/ d.fw # mem.decl.fw
               \/ d.mtu # mem.decl.mtu
       THEN Reject
       ELSE <<Store(staged, "return"), do("preflight"), do("prepare_link"),
              do("prepare_routes"), do("prepare_firewall"),
              Store([staged EXCEPT !.phase = "Prepared"], "return")>>

\* reconfigure: beside an active declaration, in place of a suspended one.
Reconfigure(o, d) ==
    LET old == mem.decl
        do(op, x) == Call(op, x, {}, "restore_suspended")
    IN IF mem = None \/ ~SameProcess(mem.owner, o) THEN Reject
       ELSE IF mem.phase = "Active" THEN PrepareReplacement(o, d)
       ELSE IF mem.phase # "Suspended" THEN Reject
       ELSE IF d = old THEN <<Adopt([mem EXCEPT !.owner = o], "return")>>
       ELSE IF d.fw # old.fw \/ d.table # old.table \/ d.mtu # old.mtu
       THEN Reject
       ELSE <<Store([mem EXCEPT !.phase = "RollingBack", !.cand = d,
                                !.candOwner = o], "return"),
              do("remove_firewall", old), do("remove_routes", old),
              do("prepare_link", d), do("prepare_routes", d),
              do("prepare_firewall", d),
              Adopt([mem EXCEPT !.owner = o, !.decl = d, !.failed = {},
                                !.deadline = 0], "restore_suspended")>>

\* Faulty variant of UpdatePolicy: no durable intent, and a failure leaves
\* what was applied so far.
UpdatePolicyWithoutIntent(o, d) ==
    IF \/ mem = None \/ ~SameOwner(mem.owner, o)
       \/ mem.phase \notin {"Active", "Suspended"} \/ ~SameTunnel(mem.decl, d)
    THEN Reject
    ELSE <<Call("reconcile_routes", d, {}, "return"),
           Call("replace_firewall", d, None, "return"),
           Adopt([mem EXCEPT !.decl = d, !.failed = {}], "return")>>

\* update_policy: routes and firewall of the same tunnel, under a durable
\* RollingBack intent.
UpdatePolicy(o, d) ==
    LET old == mem.decl
        retained == mem.failed \cap d.remote
        do(op, x) == Call(op, d, x, "restore_policy")
    IN IF \/ mem = None \/ ~SameOwner(mem.owner, o)
          \/ mem.phase \notin {"Active", "Suspended"} \/ mem.cand # None
          \/ ~SameTunnel(old, d)
       THEN Reject
       ELSE IF d = old
       THEN When(mem.phase = "Active", <<Call("install_rule", d, None, "return")>>)
       ELSE <<Store([mem EXCEPT !.phase = "RollingBack", !.cand = d,
                                !.candOwner = o], "return")>>
            \o When(RoutesChanged(old, d), <<do("reconcile_routes", retained)>>)
            \o When(FirewallChanged(old, d), <<do("replace_firewall", None)>>)
            \o When(mem.phase = "Active", <<do("install_rule", None)>>)
            \o <<Adopt([mem EXCEPT !.decl = d, !.failed = retained,
                                   !.candOwner = None], "restore_policy")>>

\* The error branches: what runs after a failing element.
DropActivation(m) ==
    <<Call("remove_rule", m.cand, None, "ignore"),
      Call("remove_firewall", m.cand, None, "ignore"),
      Call("remove_routes", m.cand, {}, "ignore"),
      Store(WithoutCandidate(m, "Active"), "ignore")>>

DropCandidate(m) ==
    <<Call("remove_firewall", m.cand, None, "ignore"),
      Call("remove_routes", m.cand, {}, "ignore"),
      Store(WithoutCandidate(m, "Active"), "ignore")>>

RestoreSuspended(m, prev) ==
    <<Call("remove_firewall", m.cand, None, "soft"),
      Call("remove_routes", m.cand, {}, "soft"),
      Call("prepare_link", prev.decl, None, "soft"),
      Call("prepare_routes", prev.decl, None, "soft"),
      Call("prepare_firewall", prev.decl, None, "soft"),
      Call("unless_failed", None, None, "return"),
      Adopt(prev, "return")>>

RestorePolicy(m, prev) ==
    When(RoutesChanged(prev.decl, m.cand),
        <<Call("reconcile_routes", prev.decl, prev.failed, "soft")>>)
    \o When(FirewallChanged(prev.decl, m.cand),
        <<Call("replace_firewall", prev.decl, None, "soft")>>)
    \o When("rule" \in prev.steps,
        <<Call("install_rule", prev.decl, None, "return")>>)
    \o <<Call("unless_failed", None, None, "return"), Adopt(prev, "return")>>

Caught(catch, m, prev) ==
    CASE catch = "cleanup" -> Cleanup(m)
      [] catch = "drop_activation" -> DropActivation(m)
      [] catch = "drop_candidate" -> DropCandidate(m)
      [] catch = "restore_suspended" -> RestoreSuspended(m, prev)
      [] catch = "restore_policy" -> RestorePolicy(m, prev)
      [] OTHER -> <<>>

\* recover_policy_update.
RecoverPolicyUpdate(r) ==
    LET ruled == "rule" \in r.steps
    IN When(RoutesChanged(r.decl, r.cand),
           <<Call("reconcile_routes", r.decl, r.failed, "return")>>)
       \o When(FirewallChanged(r.decl, r.cand),
           <<Call("replace_firewall", r.decl, None, "return")>>)
       \o When(ruled, <<Call("install_rule", r.decl, None, "return")>>)
       \o <<Adopt([r EXCEPT !.cand = None, !.candOwner = None,
                            !.phase = IF ruled THEN "Active" ELSE "Suspended"],
                  "return")>>

PolicyIntent(r) ==
    /\ r.phase = "RollingBack" /\ r.cand # None
    /\ {"link", "routes", "fw"} \subseteq r.steps
    /\ SameTunnel(r.decl, r.cand)

Healthy(r) == r.owner.proc \in alive /\ r.owner.lease > now

\* Faulty variant of Retained: only the owner's health is looked at.
RetainedIfHealthy(r) == Healthy(r)

\* Which transactions recover_orphan leaves alone.
Retained(r) ==
    CASE r.phase = "RollingBack" -> FALSE
      [] r.phase = "Draining" ->
             r.owner.proc \in alive /\ (r.deadline = 0 \/ now < r.deadline)
      [] OTHER -> Healthy(r)

RecoverScript(r) ==
    CASE PolicyIntent(r) /\ r.candOwner = r.owner -> RecoverPolicyUpdate(r)
      [] Staged(r) -> DiscardCandidate(r)
      [] r.phase = "Draining" ->
             DrainOld(IF r.candOwner = None THEN r.owner ELSE r.candOwner)
      [] OTHER -> Cleanup(r)

-----------------------------------------------------------------------------
(* The protocol session. *)

NewSession ==
    [phase |-> "Stopped", owner |-> None, decl |-> None, pending |-> FALSE]

SessionPhases == {"Stopped", "Prepared", "Active", "Suspended", "Draining"}

\* The ownership checks of NetdSession::apply; None refuses the request.
Fenced(s, op, o) ==
    LET own == s.owner
        stoppedPrepare == s.phase = "Stopped" /\ op = "Prepare"
        moves == \/ s.phase = "Suspended" /\ op = "Reconfigure"
                 \/ /\ s.phase = "Active"
                    /\ op \in {"Reconfigure", "Commit", "LeaseRenew"}
    IN CASE own = None -> s
         [] own # None /\ stoppedPrepare /\ o.gen > own.gen ->
                [s EXCEPT !.owner = None, !.decl = None]
         [] own # None /\ stoppedPrepare /\ o.gen = own.gen -> s
         [] own # None /\ ~stoppedPrepare /\ moves /\ SameProcess(own, o)
                /\ o.gen # own.gen -> [s EXCEPT !.owner = o]
         [] own # None /\ ~stoppedPrepare /\ SameOwner(own, o) -> s
         [] OTHER -> None

\* Only the exclusions may differ in a retry of a stopped generation.
SameButExclusions(d, c) == [d EXCEPT !.excl = c.excl] = c

\* The lifecycle part of NetdSession::apply, after Fenced.
Advanced(s, op, o, d) ==
    LET to(phase) == [s EXCEPT !.phase = phase]
    IN CASE op = "Prepare" /\ s.phase = "Stopped"
                /\ (s.decl = None \/ SameButExclusions(s.decl, d)) ->
                [s EXCEPT !.phase = "Prepared", !.owner = o, !.decl = d]
         [] op = "Prepare" /\ s.phase # "Stopped" /\ s.decl = d -> s
         [] op = "Commit" /\ s.phase = "Prepared" ->
                to(IF s.pending THEN "Draining" ELSE "Active")
         [] op = "Commit" /\ s.phase \in {"Active", "Draining"} -> s
         [] op = "Rollback" /\ s.owner # None ->
                [s EXCEPT !.phase = "Stopped", !.pending = FALSE]
         [] op = "LeaseRenew" /\ s.owner # None -> [s EXCEPT !.owner = o]
         [] op = "MtuUpdate" /\ s.phase = "Active" /\ d < s.decl.mtu ->
                [s EXCEPT !.decl.mtu = d]
         [] op = "Suspend" /\ s.phase = "Active" -> to("Suspended")
         [] op = "Reconfigure" /\ s.phase = "Prepared" /\ s.pending
                /\ s.decl = d -> s
         [] op = "Reconfigure" /\ s.phase = "Suspended" ->
                [s EXCEPT !.decl = d]
         [] op = "Reconfigure" /\ s.phase = "Active" ->
                IF s.decl = d THEN s
                ELSE [s EXCEPT !.decl = d, !.pending = TRUE,
                               !.phase = "Prepared"]
         [] op = "Resume" /\ s.phase = "Suspended" -> to("Active")
         [] op = "Drain" /\ s.phase = "Draining" ->
                [s EXCEPT !.phase = "Active", !.pending = FALSE]
         [] op = "WithdrawPrefixes" /\ s.phase = "Active" -> s
         [] op = "PolicyUpdate" /\ s.phase \in {"Active", "Suspended"}
                /\ SameTunnel(s.decl, d) -> [s EXCEPT !.decl = d]
         [] OTHER -> None

Admitted(s, op, o, d) ==
    LET f == Fenced(s, op, o) IN IF f = None THEN None ELSE Advanced(f, op, o, d)

-----------------------------------------------------------------------------
(* The service. *)

Idle == [kind |-> "Idle", todo |-> <<>>, prev |-> None, sess |-> NewSession,
         err |-> FALSE, failed |-> FALSE]

Start(kind, script, s) ==
    job' = [kind |-> kind, todo |-> script, prev |-> mem, sess |-> s,
            err |-> FALSE, failed |-> FALSE]

\* process: the session admits the request on a copy, which replaces the
\* session once the transaction has succeeded.  A refusal by the transaction
\* is only visible for Prepare and Commit, which then drop the descriptor.
Serve(op, o, d, script) ==
    /\ up /\ job = Idle /\ turn = "serve"
    /\ Admitted(session, op, o, d) # None
    /\ script = Reject => op \in {"Prepare", "Commit"}
    /\ Start(op, script, Admitted(session, op, o, d))
    /\ UNCHANGED <<disk, mem, session, fd, turn, up, alive, now, torn, doubtful,
                   faults>>

Keep == UNCHANGED <<tun, kern>>

\* A request carries a live peer's identity and a fresh lease.
Requesters ==
    {[proc |-> p, gen |-> g, lease |-> now + LeaseLen] :
        p \in alive, g \in Generations}

\* create fails while another descriptor keeps the interface.
PrepareRequest(o, d) ==
    /\ tun \/ kern.link = "absent"
    /\ Serve("Prepare", o, d, Prepare(o, d))
    /\ tun' = TRUE
    /\ kern' = [kern EXCEPT !.link = IF tun THEN @ ELSE "down"]

CommitRequest(o) == Serve("Commit", o, None, Commit(o)) /\ Keep
RollbackRequest(o) == Serve("Rollback", o, None, Rollback(o)) /\ Keep
RenewRequest(o) ==
    /\ mem # None => mem.owner.lease < o.lease
    /\ Serve("LeaseRenew", o, None, RenewLease(o)) /\ Keep
MtuRequest(o) == Serve("MtuUpdate", o, LowMtu, UpdateMtu(o, LowMtu)) /\ Keep
SuspendRequest(o) == Serve("Suspend", o, None, Suspend(o)) /\ Keep
ReconfigureRequest(o, d) ==
    Serve("Reconfigure", o, d, Reconfigure(o, d)) /\ Keep
ResumeRequest(o) == Serve("Resume", o, None, Resume(o)) /\ Keep
DrainRequest(o) == Serve("Drain", o, None, DrainOld(o)) /\ Keep
WithdrawRequest(o, failed) ==
    Serve("WithdrawPrefixes", o, None, SetFailedPrefixes(o, failed)) /\ Keep
PolicyRequest(o, d) ==
    Serve("PolicyUpdate", o, d, UpdatePolicy(o, d)) /\ Keep

\* The main loop's recover_orphan, also run once before the first request.
RecoverOrphan ==
    /\ up /\ job = Idle
    /\ IF mem = None \/ (Retained(mem) /\ ~(PolicyIntent(mem)
                             /\ mem.candOwner = mem.owner))
       THEN turn # "serve" /\ turn' = "serve" /\ UNCHANGED job
       ELSE Start("Recover", RecoverScript(mem), NewSession) /\ UNCHANGED turn
    /\ UNCHANGED <<disk, mem, session, tun, fd, kern, up, alive, now, torn,
                   doubtful, faults>>

\* SIGTERM.
Stop ==
    /\ up /\ job = Idle /\ turn = "serve" /\ mem # None
    /\ Start("Shutdown", Rollback(mem.owner), NewSession)
    /\ UNCHANGED <<disk, mem, session, tun, fd, kern, turn, up, alive, now,
                   torn, doubtful, faults>>

\* A TUN device without an open descriptor disappears.
ClosedTun == IF tun /\ fd = None THEN Unlinked(kern, "absent") ELSE kern

Restart ==
    /\ mem' = IF disk = None THEN None ELSE Decoded(disk)
    /\ up' = (disk = None \/ Decodable(disk))
    /\ session' = NewSession /\ job' = Idle /\ turn' = "start"
    /\ tun' = FALSE /\ kern' = ClosedTun
    /\ doubtful' = IF doubtful = "no" THEN "no" ELSE "both"
    /\ UNCHANGED <<disk, fd, alive, now, torn>>

\* A write succeeds, or fails and may yet have replaced the file.
Trusted == doubtful' = IF doubtful = "both" THEN "both" ELSE "no"
Doubted == doubtful' = IF doubtful = "no" /\ disk' # disk THEN "disk" ELSE doubtful

\* Journal writes: the record to write, and whether it can be encoded.
Written(e) ==
    CASE e.op = "clear_step" -> [mem EXCEPT !.steps = @ \ {e.r}]
      [] e.op = "drop_candidate" -> [mem EXCEPT !.cand = None, !.candOwner = None]
      [] OTHER -> e.r

Writes == {"store", "adopt", "clear_step", "drop_candidate"}

\* An element that does nothing: a candidate whose removal failed is kept,
\* and a journal is cleared only when no step is left.
Skipped(e) ==
    \/ e.op = "drop_candidate" /\ job.err
    \/ e.op = "clear" /\ (mem.steps # {} \/ mem.cand # None)
    \/ e.op = "unless_failed" /\ ~job.err

Succeeded(e) == job' = [job EXCEPT !.todo = e.then \o Tail(@)]

\* The failure of an element: go on, or leave the script for its recovery.
\* `prev` is the record the request started from.
Failed(e, m) ==
    job' = CASE e.catch = "ignore" -> [job EXCEPT !.todo = Tail(@)]
             [] e.catch = "soft" ->
                    [job EXCEPT !.todo = Tail(@), !.err = TRUE]
             [] e.catch = "then" ->
                    [job EXCEPT !.todo = e.then \o Tail(@), !.err = TRUE]
             [] OTHER ->
                    [job EXCEPT !.todo = Caught(e.catch, m, job.prev),
                                !.err = FALSE, !.failed = TRUE]

Removals == {"remove_firewall", "remove_routes"}

StepKernel(e) ==
    /\ e.op \notin Writes \cup {"clear", "unless_failed"} /\ Feasible(e, kern)
    /\ kern' = Applied(e, kern, Prefixes)
    /\ Succeeded(e)
    /\ UNCHANGED <<disk, mem, torn, doubtful, faults>>

RefuseKernel(e) ==
    /\ e.op \notin Writes \cup {"clear", "unless_failed"} /\ ~Feasible(e, kern)
    /\ Failed(e, mem)
    /\ UNCHANGED <<disk, mem, kern, torn, doubtful, faults>>

FailKernel(e) ==
    /\ faults < MaxFaults /\ faults' = faults + 1
    /\ e.op \notin Writes \cup {"clear", "unless_failed", "reject"}
    /\ Feasible(e, kern)
    /\ kern' \in PartlyApplied(e, kern)
    /\ torn' = IF e.catch \in {"ignore", "return"} /\ e.op \in Removals
               THEN torn \cup {e.d.table} ELSE torn
    /\ Failed(e, mem)
    /\ UNCHANGED <<disk, mem, doubtful>>

StepSkip(e) ==
    /\ Skipped(e)
    /\ Succeeded(e)
    /\ UNCHANGED <<disk, mem, kern, torn, doubtful, faults>>

\* restore_* return the first error and keep the RollingBack record.
StopRestore(e) ==
    /\ e.op = "unless_failed" /\ job.err
    /\ Failed(e, mem)
    /\ UNCHANGED <<disk, mem, kern, torn, doubtful, faults>>

StepWrite(e) ==
    /\ e.op \in Writes /\ ~Skipped(e) /\ Encodable(Written(e))
    /\ disk' = Written(e) /\ mem' = Written(e) /\ Trusted
    /\ Succeeded(e)
    /\ UNCHANGED <<kern, torn, faults>>

\* encode_record refuses, or the write fails before or after the rename.
\* Only `adopt` keeps the previous record in memory.
FailWrite(e) ==
    /\ e.op \in Writes /\ ~Skipped(e)
    /\ \/ ~Encodable(Written(e)) /\ UNCHANGED <<disk, doubtful, faults>>
       \/ /\ Encodable(Written(e))
          /\ faults < MaxFaults /\ faults' = faults + 1
          /\ disk' \in {disk, Written(e)} /\ Doubted
    /\ mem' = IF e.op = "adopt" THEN mem ELSE Written(e)
    /\ Failed(e, mem')
    /\ UNCHANGED <<kern, torn>>

StepClear(e) ==
    /\ e.op = "clear" /\ ~Skipped(e)
    /\ \/ disk' = None /\ mem' = None /\ doubtful' = "no"
          /\ Succeeded(e) /\ UNCHANGED faults
       \/ /\ faults < MaxFaults /\ faults' = faults + 1
          /\ disk' \in {disk, None} /\ Doubted
          /\ UNCHANGED mem
          /\ Failed(e, mem)
    /\ UNCHANGED <<kern, torn>>

Step ==
    /\ up /\ job # Idle /\ job.todo # <<>>
    /\ LET e == Head(job.todo)
       IN \/ StepKernel(e) \/ RefuseKernel(e) \/ FailKernel(e) \/ StepSkip(e)
          \/ StopRestore(e) \/ StepWrite(e) \/ FailWrite(e) \/ StepClear(e)
    /\ UNCHANGED <<session, tun, fd, turn, up, alive, now>>

\* The answer.  A failed Prepare or Commit drops the service's descriptor, a
\* completed Rollback or recovery does too; a failed recovery ends the main
\* loop, which rolls back and exits.
Finish ==
    LET ok == ~job.failed /\ ~job.err
        kind == job.kind
        drops == IF ok THEN kind \in {"Rollback", "Recover"}
                 ELSE kind \in {"Prepare", "Commit"}
    IN /\ up /\ job # Idle /\ job.todo = <<>>
       /\ IF kind = "Shutdown" \/ (kind = "Recover" /\ ~ok /\ turn = "start")
          THEN Restart
          ELSE IF kind = "Recover" /\ ~ok
          THEN /\ Start("Shutdown", When(mem # None, Rollback(mem.owner)),
                        NewSession)
               /\ UNCHANGED <<disk, mem, session, tun, fd, kern, turn, up,
                              alive, now, torn, doubtful>>
          ELSE /\ job' = Idle
               /\ turn' = IF kind = "Recover" THEN "serve" ELSE "recover"
               /\ session' = IF ok THEN job.sess ELSE session
               /\ fd' = IF ok /\ kind = "Prepare" THEN session'.owner.proc ELSE fd
               /\ tun' = (tun /\ ~drops)
               /\ kern' = IF drops THEN ClosedTun ELSE kern
               /\ UNCHANGED <<disk, mem, up, alive, now, torn, doubtful>>
       /\ UNCHANGED faults

Crash ==
    /\ up /\ faults < MaxFaults /\ faults' = faults + 1
    /\ Restart

\* An owner process ends; its descriptor is closed with it.  A client that
\* owns nothing need not exit: it may just never call.
OwnerExit(p) ==
    /\ p \in alive /\ alive' = alive \ {p}
    /\ fd = p \/ (mem # None /\ mem.owner.proc = p)
    /\ fd' = IF fd = p THEN None ELSE fd
    /\ kern' = IF fd = p /\ ~tun THEN Unlinked(kern, "absent") ELSE kern
    /\ UNCHANGED <<disk, mem, session, tun, job, turn, up, now, torn, doubtful,
                   faults>>

\* The clock is read only when a handler starts.
Tick ==
    /\ job = Idle /\ now < MaxTime /\ now' = now + 1
    /\ UNCHANGED <<disk, mem, session, tun, fd, kern, job, turn, up, alive,
                   torn, doubtful, faults>>

Init ==
    /\ disk = None /\ mem = None /\ session = NewSession
    /\ tun = FALSE /\ fd = None /\ kern = CleanKernel
    /\ job = Idle /\ turn = "start" /\ up = TRUE
    /\ alive = Procs /\ now = 0 /\ torn = {}
    /\ doubtful = "no" /\ faults = 0

Requests ==
    \E o \in Requesters :
        \/ CommitRequest(o) \/ RollbackRequest(o) \/ RenewRequest(o)
        \/ MtuRequest(o) \/ SuspendRequest(o) \/ ResumeRequest(o)
        \/ DrainRequest(o)
        \/ \E failed \in SUBSET Prefixes : WithdrawRequest(o, failed)
        \/ \E d \in FirstDecls : PrepareRequest(o, d)
        \/ \E d \in Decls : PolicyRequest(o, d) \/ ReconfigureRequest(o, d)

Next ==
    \/ Requests \/ RecoverOrphan \/ Stop \/ Step \/ Finish
    \/ Crash \/ Tick
    \/ \E p \in Procs : OwnerExit(p)

Spec == Init /\ [][Next]_vars

-----------------------------------------------------------------------------
(* Properties. *)

TypeOK ==
    /\ disk \in Records \cup {None} /\ mem \in Records \cup {None}
    /\ session.phase \in SessionPhases
    /\ session.owner \in LeaseOwners \cup {None}
    /\ session.decl \in Declarations \cup {None}
    /\ turn \in {"start", "serve", "recover"}
    /\ fd \in Procs \cup {None} /\ alive \subseteq Procs
    /\ torn \subseteq Tables

\* Whatever single call, journal write or crash interrupts an operation, a
\* record that Resume or Commit may build on, in memory or in the journal, has
\* its complete firewall in the kernel: reconfigure and update_policy persist
\* RollingBack before they touch it, a restore is journaled only when every
\* part of it succeeded, and either may skip the firewall only when it is the
\* same in both declarations.  The claim ends with a second failure, that of
\* the restoration itself.  Not covered are candidates whose removal failed
\* half-way (`torn`), and a file replaced by a write that then reported an
\* error, until it is written again or, after a restart from it, removed
\* (`doubtful`).
DurableIsFiltered ==
    faults <= 1 =>
    \A r \in CASE doubtful = "no" -> {mem, disk}
              [] doubtful = "disk" -> {mem}
              [] doubtful = "both" -> {} :
        (r # None /\ r.cand = None /\ r.decl.table \notin torn
             /\ r.phase \in {"Prepared", "Active", "Suspended"})
            => kern.fw[r.decl.table] = FirewallOf(r.decl)

\* Every firewall and every changed sysctl in the kernel is covered by the
\* durable record, so clean-up after a crash at any point finds it; the only
\* exceptions are candidates whose removal commit_with_drain or
\* prepare_replacement attempted and ignored the failure of.
ResidueIsJournaled ==
    /\ \A t \in Tables \ torn :
           kern.fw[t] # None =>
               /\ disk # None
               /\ \/ disk.decl.table = t /\ "fw" \in disk.steps
                  \/ disk.cand # None /\ disk.cand.table = t
    /\ kern.sysctl => disk # None /\ "sysctls" \in disk.steps

\* While a candidate is staged beside the live declaration, no step takes
\* away the firewall or the rules of the live one, whether the candidate is
\* being prepared, fails, is rolled back or is found orphaned.
LivePathKept ==
    [][Staged(mem) /\ mem' # None =>
           LET t == mem.decl.table
           IN kern'.fw[t] = kern.fw[t] /\ kern'.rules[t] = kern.rules[t]]_vars

\* Between two requests, the process the session answers to is the owner of
\* the transaction, and a poisoned (RollingBack) transaction never meets a
\* client: the session is kept in memory, the transaction in the journal,
\* and requests, recovery and restarts change them separately.
SessionOwnsTransaction ==
    (up /\ job = Idle /\ turn = "serve" /\ mem # None)
        => /\ mem.phase # "RollingBack"
           /\ session.phase # "Stopped" =>
                  SameProcess(session.owner, mem.owner)

\* The type invariant, and the agreement of session and transaction.
SessionSound == TypeOK /\ SessionOwnsTransaction

=============================================================================
