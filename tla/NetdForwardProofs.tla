-------------------------- MODULE NetdForwardProofs --------------------------
(***************************************************************************)
(* Machine-checked facts about NetdForward, for every value of its         *)
(* constants: the type invariant, the order of the fencing tokens and the  *)
(* exclusiveness of the I/O descriptor.                                    *)
(***************************************************************************)
EXTENDS NetdForward, SequenceTheorems, TLAPS

-----------------------------------------------------------------------------
(* Elementary operations are well formed and keep the kernel well formed. *)

RouteMaps == UNION {[S -> RouteKinds] : S \in SUBSET Prefixes}

\* Every operation but the stamp, which only the creation of the interface has.
Ops ==
    [op : {"route"}, to : RouteMaps]
        \cup [op : {"addrule", "keeprule"}, sel : SUBSET Selectors]
        \cup [op : {"stagefw", "replacefw"}, decl : Declarations]
        \cup [op : {"sysctl"}, on : BOOLEAN]
        \cup [op : {"link", "removefw"} \cup (DeviceOps \ {"stamp"})]

\* What is left of complete_creation: an interface is stamped only right after
\* it was made.
PinOps == DeviceOp("pin") \o DeviceOp("ensure")
StampOps == DeviceOp("stamp") \o PinOps
MakeOps == DeviceOp("mkdev") \o StampOps
OpenOps == DeviceOp("open") \o PinOps

CreateOps == {MakeOps, StampOps, OpenOps, PinOps, DeviceOp("ensure"), <<>>}

\* Sequences of operations are closed under concatenation.
LEMMA ConcatOps ==
    ASSUME NEW s \in Seq(Ops), NEW t \in Seq(Ops)
    PROVE  s \o t \in Seq(Ops)
  OBVIOUS

\* A single operation is a sequence of operations.
LEMMA SingleOp ==
    ASSUME NEW op \in Ops
    PROVE  <<op>> \in Seq(Ops)
  OBVIOUS

\* The operations left after the first one.
LEMMA TailOps ==
    ASSUME NEW s \in Seq(Ops), s # <<>>
    PROVE  Head(s) \in Ops /\ Tail(s) \in Seq(Ops)
  OBVIOUS

\* An operation before a sequence of them.
LEMMA FirstOp ==
    ASSUME NEW S, NEW name, [op |-> name] \in S, NEW t \in Seq(S)
    PROVE  /\ DeviceOp(name) \o t \in Seq(S)
           /\ Head(DeviceOp(name) \o t).op = name /\ Tail(DeviceOp(name) \o t) = t
  <1> DEFINE x == [op |-> name]
  <1> HIDE DEF x
  <1>1. x \in S
    BY DEF x
  <1>2. /\ <<x>> \o t \in Seq(S) /\ <<x>> \o t # <<>>
        /\ Head(<<x>> \o t) = x /\ Tail(<<x>> \o t) = t
    BY <1>1
  <1>3. QED
    BY <1>2 DEF DeviceOp, x

\* The steps of a creation.
LEMMA CreateParts ==
    /\ Head(MakeOps).op = "mkdev" /\ Tail(MakeOps) = StampOps
    /\ Head(StampOps).op = "stamp" /\ Tail(StampOps) = PinOps
    /\ Head(OpenOps).op = "open" /\ Tail(OpenOps) = PinOps
    /\ Head(PinOps).op = "pin" /\ Tail(PinOps) = DeviceOp("ensure")
    /\ Head(DeviceOp("ensure")).op = "ensure" /\ Tail(DeviceOp("ensure")) = <<>>
  <1> DEFINE S == [op : DeviceOps]
  <1>1. /\ [op |-> "mkdev"] \in S /\ [op |-> "stamp"] \in S
        /\ [op |-> "open"] \in S /\ [op |-> "pin"] \in S
    BY DEF DeviceOps
  <1>2. /\ DeviceOp("ensure") \in Seq(S)
        /\ Head(DeviceOp("ensure")).op = "ensure" /\ Tail(DeviceOp("ensure")) = <<>>
    BY DEF DeviceOp, DeviceOps
  <1> HIDE DEF S
  <1>3. /\ PinOps \in Seq(S) /\ Head(PinOps).op = "pin"
        /\ Tail(PinOps) = DeviceOp("ensure")
    BY <1>1, <1>2, FirstOp DEF PinOps
  <1>4. /\ StampOps \in Seq(S) /\ Head(StampOps).op = "stamp"
        /\ Tail(StampOps) = PinOps
    BY <1>1, <1>3, FirstOp DEF StampOps
  <1>5. Head(OpenOps).op = "open" /\ Tail(OpenOps) = PinOps
    BY <1>1, <1>3, FirstOp DEF OpenOps
  <1>6. Head(MakeOps).op = "mkdev" /\ Tail(MakeOps) = StampOps
    BY <1>1, <1>4, FirstOp DEF MakeOps
  <1>7. QED
    BY <1>2, <1>3, <1>4, <1>5, <1>6

\* A creation goes on with what is left of it; its stamp follows mkdev.
LEMMA CreateTail ==
    ASSUME NEW s \in CreateOps, s # <<>>
    PROVE  /\ Tail(s) \in CreateOps /\ Head(s).op \in DeviceOps
           /\ Tail(s) # <<>> /\ Head(Tail(s)).op = "stamp" => Head(s).op = "mkdev"
  BY CreateParts DEF CreateOps, DeviceOps

\* complete_creation starts with one of them.
LEMMA CreateStarts ==
    /\ DeviceOp("mkdev") \o DeviceOp("stamp") \o DeviceOp("pin") \o DeviceOp("ensure")
            = MakeOps
    /\ DeviceOp("open") \o DeviceOp("pin") \o DeviceOp("ensure") = OpenOps
  <1> DEFINE S == [op : DeviceOps]
  <1>1. \A name \in DeviceOps : DeviceOp(name) \in Seq(S)
    BY DEF DeviceOp
  <1> HIDE DEF S
  <1> DEFINE m == DeviceOp("mkdev")
             t == DeviceOp("stamp")
             o == DeviceOp("open")
             p == DeviceOp("pin")
             e == DeviceOp("ensure")
  <1>2. m \in Seq(S) /\ t \in Seq(S) /\ o \in Seq(S) /\ p \in Seq(S) /\ e \in Seq(S)
    BY <1>1 DEF DeviceOps
  <1> HIDE DEF m, t, o, p, e
  <1>3. \A x, y, z \in Seq(S) : (x \o y) \o z = x \o (y \o z)
    BY ConcatAssociative
  <1>4. m \o t \in Seq(S) /\ p \o e \in Seq(S)
    BY <1>2
  <1>5. (o \o p) \o e = o \o (p \o e)
    BY <1>2, <1>3, Zenon
  <1>6. ASSUME NEW a \in Seq(S) PROVE (a \o p) \o e = a \o (p \o e)
    <2>1. p \in Seq(S) /\ e \in Seq(S)
      BY <1>2
    <2>2. QED
      BY <1>3, <2>1, Zenon
  <1>7. \A a \in Seq(S) : (m \o t) \o a = m \o (t \o a)
    BY <1>2, <1>3, Zenon
  <1>8. ((m \o t) \o p) \o e = (m \o t) \o (p \o e)
    BY <1>4, <1>6, Zenon
  <1>9. (m \o t) \o (p \o e) = m \o (t \o (p \o e))
    BY <1>4, <1>7, Zenon
  <1>10. QED
    BY <1>5, <1>8, <1>9 DEF m, t, o, p, e, MakeOps, OpenOps, StampOps, PinOps

\* A batch of route writes.
LEMMA RouteOps ==
    ASSUME NEW f \in RouteMaps
    PROVE  Route(f) \in Seq(Ops)
  <1>1. [op |-> "route", to |-> f] \in Ops
    BY DEF Ops
  <1>2. QED
    BY <1>1, SingleOp DEF Route

\* Routes of one kind.
LEMMA AllToOps ==
    ASSUME NEW S \in SUBSET Prefixes, NEW kind \in RouteKinds
    PROVE  AllTo(S, kind) \in Seq(Ops)
  <1>1. [p \in S |-> kind] \in RouteMaps
    BY DEF RouteMaps
  <1>2. QED
    BY <1>1, RouteOps DEF AllTo

\* Routes of the Remote prefixes of a declaration.
LEMMA PlanOps ==
    ASSUME NEW S \in SUBSET Prefixes, NEW failed
    PROVE  Route([p \in S |-> IF p \in failed THEN "unreachable" ELSE "unicast"])
               \in Seq(Ops)
  <1>1. [p \in S |-> IF p \in failed THEN "unreachable" ELSE "unicast"]
            \in [S -> RouteKinds]
    BY DEF RouteKinds
  <1>2. QED
    BY <1>1, RouteOps DEF RouteMaps

\* Selectors of a declaration are selectors.
LEMMA SelType ==
    ASSUME NEW d \in Declarations
    PROVE  Sel(d) \in SUBSET Selectors
  <1>1. d.local \subseteq Prefixes /\ d.remote \subseteq Prefixes
    BY DEF Declarations
  <1>2. QED
    BY <1>1 DEF Sel, Selectors

\* Batches of rule writes.
LEMMA RuleOps ==
    ASSUME NEW S \in SUBSET Selectors
    PROVE  AddRules(S) \in Seq(Ops) /\ KeepRules(S) \in Seq(Ops)
  <1>1. /\ [op |-> "addrule", sel |-> S] \in Ops
        /\ [op |-> "keeprule", sel |-> S] \in Ops
    BY DEF Ops
  <1>2. QED
    BY <1>1, SingleOp DEF AddRules, KeepRules

\* Firewall and interface operations.
LEMMA SimpleOps ==
    /\ NeedLink \in Seq(Ops)
    /\ RemoveFirewall \in Seq(Ops)
    /\ \A d \in Declarations :
            StageFirewall(d) \in Seq(Ops) /\ ReplaceFirewall(d) \in Seq(Ops)
    /\ \A changed, on \in BOOLEAN : WriteSysctls(changed, on) \in Seq(Ops)
    /\ \A name \in DeviceOps \ {"stamp"} : DeviceOp(name) \in Seq(Ops)
  <1>1. /\ [op |-> "link"] \in Ops
        /\ [op |-> "removefw"] \in Ops
        /\ \A name \in DeviceOps \ {"stamp"} : [op |-> name] \in Ops
    BY DEF Ops
  <1>2. \A d \in Declarations :
            /\ [op |-> "stagefw", decl |-> d] \in Ops
            /\ [op |-> "replacefw", decl |-> d] \in Ops
    BY DEF Ops
  <1>3. \A on \in BOOLEAN : [op |-> "sysctl", on |-> on] \in Ops
    BY DEF Ops
  <1>4. \A changed, on \in BOOLEAN : WriteSysctls(changed, on) \in Seq(Ops)
    <2>1. <<>> \in Seq(Ops)
      OBVIOUS
    <2>2. \A on \in BOOLEAN : <<[op |-> "sysctl", on |-> on]>> \in Seq(Ops)
      BY <1>3, SingleOp
    <2>3. QED
      BY <2>1, <2>2 DEF WriteSysctls
  <1>5. NeedLink \in Seq(Ops) /\ RemoveFirewall \in Seq(Ops)
    BY <1>1, SingleOp DEF NeedLink, RemoveFirewall
  <1>6. \A d \in Declarations :
            StageFirewall(d) \in Seq(Ops) /\ ReplaceFirewall(d) \in Seq(Ops)
    BY <1>2, SingleOp DEF StageFirewall, ReplaceFirewall
  <1>7. \A name \in DeviceOps \ {"stamp"} : DeviceOp(name) \in Seq(Ops)
    BY <1>1, SingleOp DEF DeviceOp
  <1>8. QED
    BY <1>4, <1>5, <1>6, <1>7

\* The prefix sets of a declaration are sets of prefixes.
LEMMA DeclPrefixes ==
    ASSUME NEW d \in Declarations
    PROVE  /\ d.remote \in SUBSET Prefixes
           /\ Throws(d) \in SUBSET Prefixes
           /\ Targets(d) \in SUBSET Prefixes
           /\ [d EXCEPT !.local = {}] \in Declarations
  BY DEF Declarations, Throws, Targets

\* reject_forwarding compiles to operations.
LEMMA RejectOps ==
    ASSUME NEW d \in Declarations
    PROVE  RejectForwarding(d) \in Seq(Ops)
  <1>1. /\ AllTo(d.remote, "unreachable") \in Seq(Ops)
        /\ AllTo(Throws(d), "throw") \in Seq(Ops)
    BY DeclPrefixes, AllToOps DEF RouteKinds
  <1>2. AddRules(Sel(d)) \in Seq(Ops)
    BY SelType, RuleOps
  <1>3. QED
    BY <1>1, <1>2, ConcatOps DEF RejectForwarding

\* restore_forwarding compiles to operations.
LEMMA RestoreOps ==
    ASSUME NEW d \in Declarations, NEW failed
    PROVE  RestoreForwarding(d, failed) \in Seq(Ops)
  <1>1. /\ NeedLink \in Seq(Ops)
        /\ Route([p \in d.remote |->
                    IF p \in failed THEN "unreachable" ELSE "unicast"]) \in Seq(Ops)
        /\ AllTo(Throws(d), "throw") \in Seq(Ops)
    BY SimpleOps, DeclPrefixes, AllToOps, PlanOps DEF RouteKinds
  <1>2. AddRules(Sel(d)) \in Seq(Ops) /\ KeepRules(Sel(d)) \in Seq(Ops)
    BY SelType, RuleOps
  <1>3. QED
    BY <1>1, <1>2, ConcatOps DEF RestoreForwarding

\* remove_stale_forwarding compiles to operations.
LEMMA StaleOps ==
    ASSUME NEW old \in Declarations, NEW kept \in Declarations
    PROVE  RemoveStaleForwarding(old, kept) \in Seq(Ops)
  <1>1. Targets(old) \ Targets(kept) \in SUBSET Prefixes
    BY DeclPrefixes
  <1>2. QED
    BY <1>1, AllToOps DEF RemoveStaleForwarding, RouteKinds

\* update_failed_forward_prefixes compiles to operations.
LEMMA FailureOps ==
    ASSUME NEW old \in SUBSET Prefixes, NEW new \in SUBSET Prefixes
    PROVE  /\ GuardChanged(old, new) \in Seq(Ops)
           /\ UpdateFailedPrefixes(old, new) \in Seq(Ops)
  <1>1. ChangedPrefixes(old, new) \in SUBSET Prefixes
    BY DEF ChangedPrefixes
  <1>2. AllTo(ChangedPrefixes(old, new), "unreachable") \in Seq(Ops)
    BY <1>1, AllToOps DEF RouteKinds
  <1>3. GuardChanged(old, new) \in Seq(Ops)
    BY <1>2, SimpleOps, ConcatOps DEF GuardChanged
  <1>4. Route([p \in ChangedPrefixes(old, new) |->
                 IF p \in new THEN "unreachable" ELSE "unicast"]) \in Seq(Ops)
    BY <1>1, PlanOps
  <1>5. UpdateFailedPrefixes(old, new) \in Seq(Ops)
    BY <1>3, <1>4, SimpleOps, ConcatOps DEF UpdateFailedPrefixes
  <1>6. QED
    BY <1>3, <1>5

\* Publishing and discarding a live policy compile to operations.
LEMMA LivePolicyOps ==
    ASSUME NEW d \in Declarations, NEW t \in Declarations, NEW failed
    PROVE  /\ UpdateLivePolicy(d, t, failed) \in Seq(Ops)
           /\ DiscardLivePolicy(d, t) \in Seq(Ops)
  <1>1. /\ RestoreForwarding(t, failed) \in Seq(Ops)
        /\ RestoreForwarding(d, d.remote) \in Seq(Ops)
    BY RestoreOps
  <1>2. /\ RemoveStaleForwarding(d, t) \in Seq(Ops)
        /\ RemoveStaleForwarding(t, d) \in Seq(Ops)
    BY StaleOps
  <1>3. UpdateLivePolicy(d, t, failed) \in Seq(Ops)
    BY <1>1, <1>2, SimpleOps, ConcatOps DEF UpdateLivePolicy
  <1>4. DiscardLivePolicy(d, t) \in Seq(Ops)
    BY <1>1, <1>2, ConcatOps DEF DiscardLivePolicy
  <1>5. QED
    BY <1>3, <1>4

\* Executing an operation, or part of it, keeps the kernel well formed.
LEMMA EffectType ==
    ASSUME NEW k \in Kernels, NEW op \in Ops, NEW done \in SUBSET Writes(op, k)
    PROVE  Effect(op, done, k) \in Kernels
  <1>1. CASE op.op = "route"
    <2>1. op.to \in RouteMaps
      BY <1>1 DEF Ops, DeviceOps
    <2>2. PICK S \in SUBSET Prefixes : op.to \in [S -> RouteKinds]
      BY <2>1 DEF RouteMaps
    <2>3. done \subseteq S
      BY <1>1, <2>2 DEF Writes
    <2>4. k.route \in [Prefixes -> RouteKinds]
      BY DEF Kernels
    <2>5. [p \in Prefixes |-> IF p \in done THEN op.to[p] ELSE k.route[p]]
              \in [Prefixes -> RouteKinds]
      BY <2>2, <2>3, <2>4
    <2>6. QED
      BY <1>1, <2>5 DEF Effect, Kernels
  <1>2. CASE op.op = "addrule"
    <2>1. op.sel \in SUBSET Selectors
      BY <1>2 DEF Ops, DeviceOps
    <2>2. done \subseteq op.sel
      BY <1>2 DEF Writes
    <2>3. QED
      BY <1>2, <2>1, <2>2 DEF Effect, Kernels
  <1>3. CASE op.op = "keeprule"
    BY <1>3 DEF Effect, Kernels
  <1>4. CASE op.op \in {"stagefw", "replacefw"}
    <2>1. op.decl \in Declarations
      BY <1>4 DEF Ops, DeviceOps
    <2>2. QED
      BY <1>4, <2>1 DEF Effect, Kernels
  <1>5. CASE op.op = "sysctl"
    <2>1. op.on \in BOOLEAN
      BY <1>5 DEF Ops, DeviceOps
    <2>2. QED
      BY <1>5, <2>1 DEF Effect, Kernels
  <1>6. CASE op.op = "removefw"
    BY <1>6 DEF Effect, Kernels
  <1>7. CASE op.op \notin {"route", "addrule", "keeprule", "stagefw", "replacefw",
                           "sysctl", "removefw"}
    BY <1>7 DEF Effect, Kernels
  <1>8. QED
    BY <1>1, <1>2, <1>3, <1>4, <1>5, <1>6, <1>7

-----------------------------------------------------------------------------
(* Jobs are well formed and end in well-formed states. *)

\* Kinds whose jobs need nothing of the retained state.
PlainKinds ==
    {"idle", "save", "settle", "prepared", "activate", "rollback", "policy",
     "revoke", "expire", "retire", "intend", "unwind"}

Kinds ==
    PlainKinds \cup {"preparing", "commit", "install", "failing", "failures",
                    "publish", "cancel", "lapse", "acquire"}

Jobs ==
    [kind : Kinds, ops : Seq(Ops), final : States]
        \cup [kind : {"create"}, ops : CreateOps, final : States]

\* A state the service may journal.
GoodState(st) == st \in States /\ TokenOrder(st)

\* What a job's later steps rely on: the record they will edit exists, in the
\* state to persist, or in the retained state `m` for error paths.
JobOK(j, m) ==
    /\ j \in Jobs
    /\ TokenOrder(j.final)
    /\ j.kind = "commit" => Committing(j.final)
    /\ j.kind = "install" => Committing(m)
    /\ j.kind \in {"preparing", "failing", "publish", "cancel", "lapse"}
            => j.final.fwd # None
    /\ j.kind = "failing" => j.final.fwd.pendFailed # None
    /\ j.kind = "publish" => j.final.fwd.pending # None
    /\ j.kind = "failures" => m.fwd # None /\ m.fwd.pendFailed # None
    /\ j.kind = "acquire" => j.final.io # None

\* A job of a plain kind needs a good final state only.
LEMMA PlainJob ==
    ASSUME NEW kind \in PlainKinds, NEW ops \in Seq(Ops), NEW st, GoodState(st),
           NEW m
    PROVE  JobOK(Job(kind, ops, st), m)
  <1>1. Job(kind, ops, st) \in Jobs
    BY DEF Job, Jobs, Kinds, GoodState
  <1>2. QED
    BY <1>1 DEF JobOK, Job, PlainKinds, GoodState

\* The empty state is good, and so is the idle job.
LEMMA IdleOK ==
    ASSUME NEW m
    PROVE  GoodState(NewState) /\ JobOK(Idle, m)
  <1>1. GoodState(NewState)
    BY DEF GoodState, NewState, States, TokenOrder
  <1>2. <<>> \in Seq(Ops)
    OBVIOUS
  <1>3. Idle = Job("idle", <<>>, NewState)
    BY DEF Idle, Job
  <1>4. QED
    BY <1>1, <1>2, <1>3, PlainJob DEF PlainKinds

\* Records of a good state.
LEMMA RecordTypes ==
    ASSUME NEW st, GoodState(st)
    PROVE  /\ st.fwd # None => st.fwd \in ForwardRecords
           /\ st.cand # None => st.cand \in ForwardRecords /\ st.fwd # None
  BY DEF GoodState, States, TokenOrder

\* Dropping the candidate, and changing a record without touching its fencing
\* token, keeps a state good.
LEMMA DropCandidate ==
    ASSUME NEW st, GoodState(st)
    PROVE  GoodState([st EXCEPT !.cand = None])
  BY DEF GoodState, States, TokenOrder

\* A record changed without its fencing token leaves a good state.
LEMMA EditRecord ==
    ASSUME NEW st, GoodState(st), st.fwd # None,
           NEW r \in ForwardRecords, r.owner.token = st.fwd.owner.token
    PROVE  /\ GoodState([st EXCEPT !.fwd = r])
           /\ GoodState([st EXCEPT !.fwd = r, !.cand = None])
  <1>1. st \in States /\ TokenOrder(st)
    BY DEF GoodState
  <1>2. [st EXCEPT !.fwd = r] \in States /\ [st EXCEPT !.fwd = r, !.cand = None] \in States
    BY <1>1 DEF States
  <1>3. TokenOrder([st EXCEPT !.fwd = r])
    BY <1>1, NoneAssumption DEF TokenOrder, States
  <1>4. TokenOrder([st EXCEPT !.fwd = r, !.cand = None])
    BY <1>1 DEF TokenOrder, States
  <1>5. QED
    BY <1>2, <1>3, <1>4 DEF GoodState

\* So does a candidate changed without its fencing token.
LEMMA EditCandidate ==
    ASSUME NEW st, GoodState(st), st.cand # None,
           NEW r \in ForwardRecords, r.owner.token = st.cand.owner.token
    PROVE  GoodState([st EXCEPT !.cand = r])
  <1>1. st \in States /\ TokenOrder(st)
    BY DEF GoodState
  <1>2. [st EXCEPT !.cand = r] \in States
    BY <1>1 DEF States
  <1>3. TokenOrder([st EXCEPT !.cand = r])
    BY <1>1 DEF TokenOrder, States
  <1>4. QED
    BY <1>2, <1>3 DEF GoodState

\* fence_policy_intent compiles to operations.
LEMMA FenceJobOps ==
    ASSUME NEW r \in ForwardRecords
    PROVE  FenceOps(r) \in Seq(Ops)
  <1>1. r.decl \in Declarations /\ (r.pending # None => r.pending.decl \in Declarations)
    BY DEF ForwardRecords, PendingPolicies
  <1>2. RejectForwarding(r.decl) \in Seq(Ops) /\ RemoveFirewall \in Seq(Ops) /\ <<>> \in Seq(Ops)
    BY <1>1, RejectOps, SimpleOps
  <1>3. r.pending # None =>
            /\ RejectForwarding([r.pending.decl EXCEPT !.local = {}]) \in Seq(Ops)
            /\ DiscardLivePolicy(r.decl, r.pending.decl) \in Seq(Ops)
    BY <1>1, DeclPrefixes, RejectOps, LivePolicyOps
  <1>4. (IF r.pending = None \/ r.pending.decl.remote = {} THEN <<>>
         ELSE RejectForwarding([r.pending.decl EXCEPT !.local = {}])) \in Seq(Ops)
    BY <1>2, <1>3
  <1>5. (IF r.pending = None THEN <<>>
         ELSE DiscardLivePolicy(r.decl, r.pending.decl)) \in Seq(Ops)
    BY <1>2, <1>3
  <1>6. QED
    BY <1>2, <1>4, <1>5, ConcatOps DEF FenceOps

\* Editing the fields of a record that recovery and the handlers edit.
LEMMA RecordEdits ==
    ASSUME NEW r \in ForwardRecords
    PROVE  /\ \A phase \in Phases :
                /\ [r EXCEPT !.phase = phase] \in ForwardRecords
                /\ [r EXCEPT !.phase = phase].owner = r.owner
           /\ Revoked(r) \in ForwardRecords /\ Revoked(r).owner = r.owner
  BY DEF ForwardRecords, Revoked, Phases

\* The owner of a record.
LEMMA OwnerType ==
    ASSUME NEW r \in ForwardRecords
    PROVE  /\ r.owner \in OwnerRecords
           /\ r.decl \in Declarations
           /\ r.failed \in SUBSET Prefixes
           /\ r.owner.token \in Nat
  BY DEF ForwardRecords, OwnerRecords

\* The rollback of a replacement is a well-formed job.
LEMMA RollbackOK ==
    ASSUME NEW st, GoodState(st), Committing(st), NEW m
    PROVE  JobOK(RollbackJob(st), m)
  <1> DEFINE prev == st.fwd
             cand == st.cand
             oldLive == /\ prev.phase \in {"Active", "Guarded"}
                        /\ Live(prev.owner)
                        /\ st.boot = boot
             ops == (IF prev.phase = "Guarded" /\ oldLive THEN <<>>
                     ELSE RejectForwarding(cand.decl) \o RejectForwarding(prev.decl))
                        \o RemoveFirewall
                        \o (IF oldLive THEN StageFirewall(prev.decl) ELSE <<>>)
                        \o RemoveStaleForwarding(cand.decl, prev.decl)
                        \o (IF oldLive THEN RestoreForwarding(prev.decl, prev.failed)
                            ELSE <<>>)
             final == [st EXCEPT !.fwd = IF oldLive THEN prev
                                         ELSE [prev EXCEPT !.phase = "Revoked"],
                                 !.cand = None]
  <1>1. prev # None /\ cand # None /\ prev \in ForwardRecords /\ cand \in ForwardRecords
    BY RecordTypes DEF Committing
  <1>2. prev.decl \in Declarations /\ cand.decl \in Declarations
    BY <1>1, OwnerType
  <1>3. ops \in Seq(Ops)
    <2> HIDE DEF prev, cand, oldLive
    <2>1. /\ <<>> \in Seq(Ops)
          /\ RejectForwarding(cand.decl) \o RejectForwarding(prev.decl) \in Seq(Ops)
      BY <1>2, RejectOps, ConcatOps
    <2>2. (IF prev.phase = "Guarded" /\ oldLive THEN <<>>
           ELSE RejectForwarding(cand.decl) \o RejectForwarding(prev.decl)) \in Seq(Ops)
      BY <2>1
    <2>3. RemoveFirewall \in Seq(Ops) /\ StageFirewall(prev.decl) \in Seq(Ops)
      BY <1>2, SimpleOps
    <2>4. (IF oldLive THEN StageFirewall(prev.decl) ELSE <<>>) \in Seq(Ops)
      BY <2>1, <2>3
    <2>5. RemoveStaleForwarding(cand.decl, prev.decl) \in Seq(Ops)
      BY <1>2, StaleOps
    <2>6. RestoreForwarding(prev.decl, prev.failed) \in Seq(Ops)
      BY <1>2, RestoreOps
    <2>7. (IF oldLive THEN RestoreForwarding(prev.decl, prev.failed) ELSE <<>>)
              \in Seq(Ops)
      BY <2>1, <2>6
    <2>8. QED
      BY <2>2, <2>3, <2>4, <2>5, <2>7, ConcatOps
  <1>4. GoodState(final)
    <2> DEFINE r == IF oldLive THEN prev ELSE [prev EXCEPT !.phase = "Revoked"]
    <2> HIDE DEF oldLive
    <2>1. r \in ForwardRecords /\ r.owner = prev.owner
      BY <1>1, RecordEdits DEF Phases
    <2> HIDE DEF r
    <2>2. GoodState([st EXCEPT !.fwd = r, !.cand = None])
      BY <1>1, <2>1, EditRecord
    <2>3. QED
      BY <2>2 DEF r
  <1>5. RollbackJob(st) = Job("rollback", ops, final)
    BY DEF RollbackJob
  <1> HIDE DEF ops, final
  <1>6. QED
    BY <1>3, <1>4, <1>5, PlainJob DEF PlainKinds

\* The installation of a replacement is a well-formed job.
LEMMA InstallOK ==
    ASSUME NEW st, GoodState(st), Committing(st)
    PROVE  JobOK(Job("install", InstallOps(st), Committed(st)), st)
  <1> DEFINE prev == st.fwd
             cand == st.cand
  <1>1. prev # None /\ cand # None /\ prev \in ForwardRecords /\ cand \in ForwardRecords
    BY RecordTypes DEF Committing
  <1>2. prev.decl \in Declarations /\ cand.decl \in Declarations /\ st.sysctls \in BOOLEAN
    BY <1>1, OwnerType DEF GoodState, States
  <1>3. InstallOps(st) \in Seq(Ops)
    <2>1. /\ <<>> \in Seq(Ops)
          /\ RejectForwarding(prev.decl) \o RejectForwarding(cand.decl) \in Seq(Ops)
      BY <1>2, RejectOps, ConcatOps
    <2>2. (IF prev.phase = "Guarded" THEN <<>>
           ELSE RejectForwarding(prev.decl) \o RejectForwarding(cand.decl)) \in Seq(Ops)
      BY <2>1
    <2>3. /\ RemoveFirewall \in Seq(Ops)
          /\ WriteSysctls(st.sysctls, TRUE) \in Seq(Ops)
          /\ StageFirewall(cand.decl) \in Seq(Ops)
      BY <1>2, SimpleOps
    <2>4. /\ RemoveStaleForwarding(prev.decl, cand.decl) \in Seq(Ops)
          /\ RestoreForwarding(cand.decl, cand.failed) \in Seq(Ops)
      BY <1>2, StaleOps, RestoreOps
    <2>5. QED
      BY <2>2, <2>3, <2>4, ConcatOps DEF InstallOps
  <1>4. GoodState(Committed(st))
    <2> DEFINE r == [cand EXCEPT !.phase = "Active"]
    <2>1. r \in ForwardRecords /\ r.owner = cand.owner
      BY <1>1, RecordEdits DEF Phases
    <2>2. Committed(st) = [st EXCEPT !.fwd = r, !.cand = None]
      BY DEF Committed
    <2> HIDE DEF r
    <2>3. Committed(st) \in States /\ Committed(st).fwd = r /\ Committed(st).cand = None
          /\ Committed(st).token = st.token
      BY <2>1, <2>2 DEF GoodState, States
    <2>4. r.owner.token <= st.token
      BY <1>1, <2>1 DEF GoodState, TokenOrder
    <2>5. QED
      BY <2>3, <2>4 DEF GoodState, TokenOrder
  <1>5. QED
    BY <1>3, <1>4 DEF JobOK, Jobs, Kinds, Job, GoodState

\* The preparation of the first owner is a well-formed job.
LEMMA PrepareOK ==
    ASSUME NEW st, GoodState(st), st.fwd # None, NEW m
    PROVE  JobOK(PrepareJob(st), m)
  <1>1. st.fwd \in ForwardRecords
    BY RecordTypes
  <1>2. st.fwd.decl \in Declarations /\ st.sysctls \in BOOLEAN
    BY <1>1, OwnerType DEF GoodState, States
  <1>3. WriteSysctls(st.sysctls, TRUE) \o RejectForwarding(st.fwd.decl)
            \o RemoveFirewall \o StageFirewall(st.fwd.decl) \in Seq(Ops)
    BY <1>2, SimpleOps, RejectOps, ConcatOps
  <1> DEFINE r == [st.fwd EXCEPT !.phase = "Prepared"]
  <1>4. r \in ForwardRecords /\ r.owner = st.fwd.owner
    BY <1>1, RecordEdits DEF Phases
  <1>5. [st EXCEPT !.fwd.phase = "Prepared"] = [st EXCEPT !.fwd = r]
    OBVIOUS
  <1>6. GoodState([st EXCEPT !.fwd.phase = "Prepared"])
    BY <1>4, <1>5, EditRecord
  <1>7. QED
    BY <1>3, <1>6, PlainJob DEF PrepareJob, PlainKinds

\* Applying a failure snapshot is a well-formed job.
LEMMA FailuresOK ==
    ASSUME NEW st, GoodState(st), st.fwd # None, st.fwd.pendFailed # None
    PROVE  JobOK(FailuresJob(st), st)
  <1>1. st.fwd \in ForwardRecords /\ st \in States
    BY RecordTypes DEF GoodState
  <1>2. st.fwd.pendFailed \in PendingFailures /\ st.fwd.failed \in SUBSET Prefixes
    BY <1>1 DEF ForwardRecords
  <1>3. st.fwd.pendFailed.failed \in SUBSET Prefixes /\ st.fwd.pendFailed.rev \in Nat
    BY <1>2 DEF PendingFailures
  <1> DEFINE r == [st.fwd EXCEPT !.failed = st.fwd.pendFailed.failed,
                                 !.failRev = st.fwd.pendFailed.rev,
                                 !.pendFailed = None]
             final == [st EXCEPT !.fwd.failed = st.fwd.pendFailed.failed,
                                 !.fwd.failRev = st.fwd.pendFailed.rev,
                                 !.fwd.pendFailed = None]
  <1>4. r \in ForwardRecords /\ r.owner = st.fwd.owner
    BY <1>1, <1>3 DEF ForwardRecords
  <1>5. final = [st EXCEPT !.fwd = r]
    BY <1>1 DEF States
  <1> HIDE DEF r
  <1>6. GoodState(final)
    BY <1>4, <1>5, EditRecord
  <1>7. UpdateFailedPrefixes(st.fwd.failed, st.fwd.pendFailed.failed) \in Seq(Ops)
    BY <1>2, <1>3, FailureOps
  <1>8. FailuresJob(st) =
            Job("failures",
                UpdateFailedPrefixes(st.fwd.failed, st.fwd.pendFailed.failed), final)
    BY DEF FailuresJob
  <1> HIDE DEF final
  <1>9. QED
    BY <1>6, <1>7, <1>8 DEF JobOK, Jobs, Kinds, Job, GoodState

\* Publishing a pending policy is a well-formed job.
LEMMA PolicyOK ==
    ASSUME NEW st, GoodState(st), st.fwd # None, st.fwd.pending # None, NEW m
    PROVE  JobOK(PolicyJob(st), m)
  <1> DEFINE p == st.fwd.pending
             failed == st.fwd.failed \cap p.decl.remote
             r == [st.fwd EXCEPT !.decl = p.decl, !.polRev = p.rev,
                                 !.polGen = p.gen, !.failed = failed,
                                 !.pending = None]
             final == [st EXCEPT !.fwd.decl = p.decl, !.fwd.polRev = p.rev,
                                 !.fwd.polGen = p.gen, !.fwd.failed = failed,
                                 !.fwd.pending = None]
  <1>1. st.fwd \in ForwardRecords /\ st \in States
    BY RecordTypes DEF GoodState
  <1>2. p \in PendingPolicies /\ st.fwd.decl \in Declarations
    BY <1>1 DEF ForwardRecords
  <1>3. p.decl \in Declarations /\ p.rev \in Nat /\ p.gen \in Nat
    BY <1>2 DEF PendingPolicies
  <1>4. failed \in SUBSET Prefixes
    BY <1>1 DEF ForwardRecords
  <1> HIDE DEF p, failed
  <1>5. r \in ForwardRecords /\ r.owner = st.fwd.owner
    BY <1>1, <1>3, <1>4 DEF ForwardRecords
  <1>6. final = [st EXCEPT !.fwd = r]
    BY <1>1 DEF States
  <1> HIDE DEF r
  <1>7. GoodState(final)
    BY <1>5, <1>6, EditRecord
  <1>8. UpdateLivePolicy(st.fwd.decl, p.decl, failed) \in Seq(Ops)
    BY <1>2, <1>3, LivePolicyOps
  <1>9. PolicyJob(st) = Job("policy", UpdateLivePolicy(st.fwd.decl, p.decl, failed), final)
    BY DEF PolicyJob, p, failed
  <1> HIDE DEF final
  <1>10. QED
    BY <1>7, <1>8, <1>9, PlainJob DEF PlainKinds

\* Fencing a record, on request or on expiry, is a well-formed job.
LEMMA FenceOK ==
    ASSUME NEW st, GoodState(st), st.fwd # None, NEW m
    PROVE  JobOK(RevokeJob(st), m) /\ JobOK(ExpireJob(st), m)
  <1>1. st.fwd \in ForwardRecords
    BY RecordTypes
  <1>2. Revoked(st.fwd) \in ForwardRecords /\ Revoked(st.fwd).owner = st.fwd.owner
    BY <1>1, RecordEdits
  <1>3. FenceOps(st.fwd) \in Seq(Ops)
    BY <1>1, FenceJobOps
  <1>4. /\ GoodState([st EXCEPT !.fwd = Revoked(st.fwd)])
        /\ GoodState([st EXCEPT !.fwd = Revoked(st.fwd), !.cand = None])
    BY <1>2, EditRecord
  <1>5. QED
    BY <1>3, <1>4, PlainJob DEF RevokeJob, ExpireJob, PlainKinds

\* Completing the creation of the interface is a well-formed job.
LEMMA CreateOK ==
    ASSUME NEW st, GoodState(st), boot \in Nat, NEW m
    PROVE  JobOK(CreateJob(st), m)
  <1>1. GoodState([st EXCEPT !.creating = FALSE, !.boot = boot])
    BY DEF GoodState, States, TokenOrder
  <1>2. (IF dev = None THEN DeviceOp("mkdev") \o DeviceOp("stamp") ELSE DeviceOp("open"))
            \o DeviceOp("pin") \o DeviceOp("ensure") \in CreateOps
    BY CreateStarts DEF CreateOps
  <1>3. QED
    BY <1>1, <1>2 DEF CreateJob, Job, JobOK, Jobs, GoodState

\* Cancelling a pending policy durably, before it is fenced.
LEMMA CancelOK ==
    ASSUME NEW st, GoodState(st), st.fwd # None, st.fwd.pending # None,
           NEW kind \in {"lapse", "cancel"}, NEW m
    PROVE  JobOK(Job(kind, <<>>, Cancelled(st)), m)
  <1> DEFINE p == [st.fwd.pending EXCEPT !.cancelled = TRUE]
             r == [st.fwd EXCEPT !.pending = p]
  <1>1. st.fwd \in ForwardRecords /\ st \in States
    BY RecordTypes DEF GoodState
  <1>2. p \in PendingPolicies
    BY <1>1 DEF ForwardRecords, PendingPolicies
  <1>3. Cancelled(st) = [st EXCEPT !.fwd = r]
    BY DEF Cancelled
  <1> HIDE DEF p
  <1>4. r \in ForwardRecords /\ r.owner = st.fwd.owner
    BY <1>1, <1>2 DEF ForwardRecords
  <1> HIDE DEF r
  <1>5. GoodState(Cancelled(st))
    <2>1. GoodState([st EXCEPT !.fwd = r])
      BY <1>4, EditRecord
    <2>2. QED
      BY <1>3, <2>1
  <1>6. Cancelled(st).fwd # None
    BY <1>1, <1>3, <1>4, NoneAssumption DEF States
  <1>7. QED
    BY <1>5, <1>6 DEF JobOK, Jobs, Kinds, Job, GoodState

\* What follows a durable intent is a well-formed job.
LEMMA ContinueOK ==
    ASSUME NEW j, NEW m, JobOK(j, m), boot \in Nat
    PROVE  JobOK(Continue(j.kind, j.final), j.final)
  <1> DEFINE st == j.final
  <1>1. GoodState(st)
    BY DEF JobOK, Jobs, GoodState
  <1>2. CASE j.kind = "preparing"
    BY <1>1, <1>2, PrepareOK DEF JobOK, Continue
  <1>3. CASE j.kind = "commit"
    BY <1>1, <1>3, InstallOK DEF JobOK, Continue
  <1>4. CASE j.kind = "failing"
    BY <1>1, <1>4, FailuresOK DEF JobOK, Continue
  <1>5. CASE j.kind = "publish"
    BY <1>1, <1>5, PolicyOK DEF JobOK, Continue
  <1>6. CASE j.kind = "cancel"
    BY <1>1, <1>6, FenceOK DEF JobOK, Continue
  <1>7. CASE j.kind = "lapse"
    BY <1>1, <1>7, FenceOK DEF JobOK, Continue
  <1>8. CASE j.kind = "intend"
    BY <1>1, <1>8, CreateOK DEF Continue
  <1>9. CASE j.kind \notin {"preparing", "commit", "failing", "publish", "cancel",
                            "lapse", "intend"}
    BY <1>9, IdleOK DEF Continue
  <1>10. QED
    BY <1>2, <1>3, <1>4, <1>5, <1>6, <1>7, <1>8, <1>9

\* Best-effort fencing is a well-formed job.
LEMMA UnwindOK ==
    ASSUME GoodState(mem)
    PROVE  JobOK(UnwindJob, mem)
  <1>1. CASE mem.fwd = None \/ mem.fwd.phase = "Guarded"
    BY <1>1, IdleOK DEF UnwindJob
  <1>2. CASE ~(mem.fwd = None \/ mem.fwd.phase = "Guarded")
    <2>1. mem.fwd.decl \in Declarations
      BY <1>2, RecordTypes, OwnerType
    <2>2. RejectForwarding(mem.fwd.decl) \in Seq(Ops)
      BY <2>1, RejectOps
    <2>3. JobOK(Job("unwind", RejectForwarding(mem.fwd.decl), mem), mem)
      BY <2>2, PlainJob DEF PlainKinds
    <2>4. QED
      BY <1>2, <2>3 DEF UnwindJob
  <1>3. QED
    BY <1>1, <1>2

\* So are the reactions to a failing backend call and journal write.
LEMMA ErrorJobsOK ==
    ASSUME GoodState(mem), JobOK(job, mem)
    PROVE  JobOK(OpErrorJob, mem) /\ JobOK(StoreErrorJob, mem)
  <1>1. CASE job.kind = "install"
    <2>1. JobOK(RollbackJob(mem), mem)
      BY <1>1, RollbackOK DEF JobOK
    <2>2. QED
      BY <1>1, <2>1 DEF OpErrorJob, StoreErrorJob
  <1>2. CASE job.kind \in {"prepared", "activate", "revoke", "settle"}
    BY <1>2, UnwindOK, IdleOK DEF OpErrorJob, StoreErrorJob
  <1>3. CASE job.kind = "failures"
    <2>1. mem.fwd # None /\ mem.fwd.pendFailed # None /\ mem.fwd \in ForwardRecords
      BY <1>3, RecordTypes DEF JobOK
    <2>2. /\ mem.fwd.failed \in SUBSET Prefixes
          /\ mem.fwd.pendFailed.failed \in SUBSET Prefixes
      BY <2>1 DEF ForwardRecords, PendingFailures
    <2>3. GuardChanged(mem.fwd.failed, mem.fwd.pendFailed.failed) \in Seq(Ops)
      BY <2>2, FailureOps
    <2>4. JobOK(Job("unwind",
                    GuardChanged(mem.fwd.failed, mem.fwd.pendFailed.failed), mem), mem)
      BY <2>3, PlainJob DEF PlainKinds
    <2>5. QED
      BY <1>3, <2>4, IdleOK DEF OpErrorJob, StoreErrorJob
  <1>4. CASE job.kind \notin {"install", "prepared", "activate", "revoke", "settle",
                              "failures"}
    BY <1>4, IdleOK DEF OpErrorJob, StoreErrorJob
  <1>5. QED
    BY <1>1, <1>2, <1>3, <1>4

-----------------------------------------------------------------------------
(* The inductive invariant. *)

\* Types, well-formed jobs and ordered tokens.
TypeInv ==
    /\ TypeOK
    /\ GoodState(mem) /\ GoodState(disk)
    /\ JobOK(job, mem)

\* Variables that a handler's start may change beside the job.
DrawnOK ==
    /\ lifefd' \in Nat /\ serial' \in Nat
    /\ proven' \subseteq [token : Nat, epoch : Nat, alive : SUBSET Procs]

\* Starting a well-formed job keeps the invariant.
LEMMA StartKeeps ==
    ASSUME TypeInv, NEW kind, NEW ops, NEW final, Start(kind, ops, final),
           JobOK(Job(kind, ops, final), mem), DrawnOK
    PROVE  TypeInv'
  <1>1. /\ job' = Job(kind, ops, final)
        /\ UNCHANGED <<disk, mem, up, restart, kern, dev, now, boot, alive, holders,
                       torn, faults>>
    BY DEF Start
  <1>2. JobOK(job', mem')
    BY <1>1
  <1>3. job'.final \in States
    BY <1>2 DEF JobOK, Jobs
  <1>4. TypeOK'
    BY <1>1, <1>3 DEF TypeInv, TypeOK, DrawnOK
  <1>5. GoodState(mem') /\ GoodState(disk')
    BY <1>1 DEF TypeInv
  <1>6. QED
    BY <1>2, <1>4, <1>5 DEF TypeInv

\* Nothing is drawn, opened or proven.
LEMMA QuietDraws ==
    ASSUME TypeInv, Quiet
    PROVE  DrawnOK
  BY DEF TypeInv, TypeOK, Quiet, DrawnOK

\* Deleting the interface keeps the kernel well formed.
LEMMA WithoutLinkType ==
    ASSUME NEW k \in Kernels
    PROVE  WithoutLink(k) \in Kernels
  BY DEF WithoutLink, Kernels, RouteKinds

\* The first operation of a job, and the job without it.
LEMMA TailJob ==
    ASSUME NEW j \in Jobs, j.ops # <<>>
    PROVE  /\ Head(j.ops).op \notin DeviceOps => Head(j.ops) \in Ops
           /\ [j EXCEPT !.ops = Tail(j.ops)] \in Jobs
  <1>1. CASE j \in [kind : Kinds, ops : Seq(Ops), final : States]
    <2>1. Head(j.ops) \in Ops /\ Tail(j.ops) \in Seq(Ops)
      BY <1>1, TailOps
    <2>2. [j EXCEPT !.ops = Tail(j.ops)] \in [kind : Kinds, ops : Seq(Ops), final : States]
      BY <1>1, <2>1
    <2>3. QED
      BY <2>1, <2>2 DEF Jobs
  <1>2. CASE j \in [kind : {"create"}, ops : CreateOps, final : States]
    <2>1. Tail(j.ops) \in CreateOps /\ Head(j.ops).op \in DeviceOps
      BY <1>2, CreateTail
    <2>2. [j EXCEPT !.ops = Tail(j.ops)]
              \in [kind : {"create"}, ops : CreateOps, final : States]
      BY <1>2, <2>1
    <2>3. QED
      BY <2>1, <2>2 DEF Jobs
  <1>3. QED
    BY <1>1, <1>2 DEF Jobs

\* A job that only loses its first operation, and may note the interface index,
\* stays well formed.
LEMMA AdvanceOK ==
    ASSUME NEW j, NEW m, JobOK(j, m), NEW ops, NEW index \in Nat,
           [j EXCEPT !.ops = ops] \in Jobs
    PROVE  JobOK([j EXCEPT !.ops = ops, !.final.ifindex = index], m)
  <1> DEFINE f == [j.final EXCEPT !.ifindex = index]
             k == [j EXCEPT !.ops = ops, !.final.ifindex = index]
  <1>1. j \in Jobs /\ j.final \in States
    BY DEF JobOK, Jobs
  <1>2. /\ f \in States /\ f.fwd = j.final.fwd /\ f.cand = j.final.cand
        /\ f.token = j.final.token /\ f.io = j.final.io
    BY <1>1 DEF States
  <1>3. k = [j EXCEPT !.ops = ops, !.final = f]
    BY <1>1 DEF Jobs
  <1> HIDE DEF f
  <1>4. k \in Jobs /\ k.kind = j.kind /\ k.final = f
    BY <1>1, <1>2, <1>3 DEF Jobs
  <1> HIDE DEF k
  <1>5. JobOK(k, m)
    BY <1>2, <1>4 DEF JobOK, TokenOrder, Committing
  <1>6. QED
    BY <1>5 DEF k

\* Executing a job keeps the invariant.
LEMMA ExecutionKeeps ==
    ASSUME TypeInv, Execution
    PROVE  TypeInv'
  <1>0. /\ TypeOK /\ GoodState(mem) /\ GoodState(disk) /\ JobOK(job, mem)
        /\ job \in Jobs
    BY DEF TypeInv, JobOK
  <1>1. CASE Step
    <2> DEFINE op == Head(job.ops)
    <2>1. job.ops # <<>>
      BY <1>1 DEF Step
    <2>2. (op.op \notin DeviceOps => op \in Ops) /\ [job EXCEPT !.ops = Tail(job.ops)] \in Jobs
      BY <1>0, <2>1, TailJob
    <2>3. /\ UNCHANGED <<disk, mem, up, restart, now, boot, alive, holders, proven,
                         torn, faults>>
          /\ Ready(op)
          /\ KernelStep(op) \/ DeviceStep(op)
      BY <1>1 DEF Step
    <2> HIDE DEF op
    <2>4. CASE KernelStep(op)
      <3>1. kern' \in Kernels
        BY <1>0, <2>2, <2>4, EffectType DEF KernelStep, TypeOK
      <3>2. job' = [job EXCEPT !.ops = Tail(job.ops)] /\ UNCHANGED <<dev, serial, lifefd>>
        BY <2>4 DEF KernelStep
      <3>3. /\ job' \in Jobs
            /\ job'.final = job.final /\ job'.kind = job.kind
        BY <1>0, <2>2, <3>2 DEF Jobs
      <3>4. JobOK(job', mem')
        BY <1>0, <2>3, <3>3 DEF JobOK
      <3>5. TypeOK'
        BY <1>0, <2>3, <3>1, <3>2, <3>3 DEF TypeOK
      <3>6. QED
        BY <1>0, <2>3, <3>4, <3>5 DEF TypeInv
    <2>5. CASE DeviceStep(op)
      <3>1. kern' \in Kernels
        <4>1. WithoutLink(kern) \in Kernels
          BY <1>0, WithoutLinkType DEF TypeOK
        <4>2. kern' \in {kern, WithoutLink(kern)}
          BY <2>5 DEF DeviceStep
        <4>3. QED
          BY <1>0, <4>1, <4>2 DEF TypeOK
      <3>2. /\ op.op = "ensure" => dev \in Devices
            /\ op.op \in {"stamp", "pin", "open"} => dev \in Devices
        BY <1>0, <2>3 DEF TypeOK, Ready, Owned
      <3>3. dev' \in Devices \cup {None} /\ serial' \in Nat /\ lifefd' \in Nat
        <4>1. /\ mem.marker \in Nat /\ serial \in Nat /\ lifefd \in Nat
              /\ dev \in Devices \cup {None}
          BY <1>0 DEF TypeOK, States
        <4>2. CASE op.op = "mkdev"
          <5>1. /\ serial' = serial + 1 /\ lifefd' = serial + 1
                /\ dev' = [id |-> serial + 1, marker |-> 0, pinned |-> FALSE,
                           foreign |-> FALSE]
            BY <2>5, <4>2 DEF DeviceStep
          <5>2. QED
            BY <4>1, <5>1 DEF Devices
        <4>3. CASE op.op \in {"stamp", "pin"}
          BY <2>5, <3>2, <4>1, <4>3 DEF DeviceStep, Devices
        <4>4. CASE op.op = "open"
          BY <2>5, <3>2, <4>1, <4>4 DEF DeviceStep, Devices, OpenFd
        <4>5. CASE op.op \in {"rmdev", "ensure"}
          BY <2>5, <4>1, <4>5 DEF DeviceStep
        <4>6. QED
          BY <2>5, <4>2, <4>3, <4>4, <4>5 DEF DeviceStep, DeviceOps
      <3>4. PICK index \in Nat :
                job' = [job EXCEPT !.ops = Tail(job.ops), !.final.ifindex = index]
        <4>1. job' = [job EXCEPT !.ops = Tail(job.ops),
                                 !.final.ifindex =
                                     IF op.op = "ensure" THEN dev.id ELSE @]
          BY <2>5 DEF DeviceStep
        <4>2. job.final.ifindex \in Nat /\ (op.op = "ensure" => dev.id \in Nat)
          BY <1>0, <3>2 DEF TypeOK, States, Devices
        <4>3. CASE op.op = "ensure"
          BY <4>1, <4>2, <4>3
        <4>4. CASE op.op # "ensure"
          BY <1>0, <4>1, <4>2, <4>4 DEF Jobs
        <4>5. QED
          BY <4>3, <4>4
      <3>5. JobOK(job', mem')
        <4>1. JobOK([job EXCEPT !.ops = Tail(job.ops), !.final.ifindex = index], mem)
          BY <1>0, <2>2, AdvanceOK
        <4>2. QED
          BY <2>3, <3>4, <4>1
      <3>6. job'.final \in States
        BY <3>5 DEF JobOK, Jobs
      <3>7. TypeOK'
        BY <1>0, <2>3, <3>1, <3>3, <3>6 DEF TypeOK
      <3>8. QED
        BY <1>0, <2>3, <3>5, <3>7 DEF TypeInv
    <2>6. QED
      BY <2>3, <2>4, <2>5
  <1>2. CASE StepRefused
    <2>1. /\ job' = OpErrorJob
          /\ UNCHANGED <<disk, mem, up, restart, lifefd, kern, dev, envVars, holders,
                         proven, faults>>
          /\ torn' = (torn \/ job.kind \in {"revoke", "expire"})
      BY <1>2 DEF StepRefused, Abandon
    <2>2. JobOK(job', mem')
      BY <1>0, <2>1, ErrorJobsOK
    <2>3. job'.final \in States
      BY <2>2 DEF JobOK, Jobs
    <2>4. TypeOK'
      BY <1>0, <2>1, <2>3 DEF TypeOK, envVars
    <2>5. QED
      BY <1>0, <2>1, <2>2, <2>4 DEF TypeInv
  <1>3. CASE OpFails
    <2> DEFINE op == Head(job.ops)
    <2>1. /\ job' = OpErrorJob
          /\ faults' = faults + 1
          /\ torn' = (torn \/ job.kind \in {"revoke", "expire"})
          /\ UNCHANGED <<disk, mem, up, restart, envVars, holders, proven>>
          /\ job.ops # <<>>
      BY <1>3 DEF OpFails, Abandon
    <2>2. op.op \notin DeviceOps => op \in Ops
      BY <1>0, <2>1, TailJob
    <2>3. /\ kern' \in Kernels
          /\ dev' \in Devices \cup {None} /\ lifefd' \in Nat
      <3>1. kern \in Kernels /\ dev \in Devices \cup {None} /\ lifefd \in Nat
        BY <1>0 DEF TypeOK
      <3>2. CASE op.op \notin DeviceOps
        <4>1. PICK done \in SUBSET Writes(op, kern) : kern' = Effect(op, done, kern)
          BY <1>3, <3>2 DEF OpFails
        <4>2. UNCHANGED <<dev, lifefd>>
          BY <1>3, <3>2 DEF OpFails
        <4>3. kern' \in Kernels
          BY <2>2, <3>1, <3>2, <4>1, EffectType
        <4>4. QED
          BY <3>1, <4>2, <4>3
      <3>3. CASE op.op \in DeviceOps
        BY <1>3, <3>1, <3>3 DEF OpFails
      <3>4. QED
        BY <3>2, <3>3
    <2>4. JobOK(job', mem')
      BY <1>0, <2>1, ErrorJobsOK
    <2>5. job'.final \in States
      BY <2>4 DEF JobOK, Jobs
    <2>6. TypeOK'
      BY <1>0, <2>1, <2>3, <2>5 DEF TypeOK, envVars
    <2>7. QED
      BY <1>0, <2>1, <2>4, <2>6 DEF TypeInv
  <1>4. CASE Finish
    <2>1. /\ disk' = job.final /\ mem' = job.final
          /\ job' = Continue(job.kind, job.final)
          /\ restart' = (restart /\ job.kind # "expire")
          /\ torn' = (torn /\ job.kind \notin {"prepared", "install", "rollback",
                                               "revoke", "expire"})
          /\ UNCHANGED <<up, lifefd, kern, dev, envVars, proven, faults>>
      BY <1>4 DEF Finish
    <2>2. holders' \subseteq Procs
      BY <1>0, <1>4 DEF Finish, TypeOK
    <2>3. JobOK(job', mem')
      <3>1. boot \in Nat
        BY <1>0 DEF TypeOK
      <3>2. QED
        BY <1>0, <2>1, <3>1, ContinueOK
    <2>4. job'.final \in States
      BY <2>3 DEF JobOK, Jobs
    <2>5. GoodState(mem') /\ GoodState(disk')
      BY <1>0, <2>1 DEF JobOK, Jobs, GoodState
    <2>6. TypeOK'
      BY <1>0, <2>1, <2>2, <2>4, <2>5 DEF TypeOK, envVars, GoodState
    <2>7. QED
      BY <2>3, <2>5, <2>6 DEF TypeInv
  <1>5. CASE StoreFails
    <2>1. /\ job' = StoreErrorJob
          /\ faults' = faults + 1
          /\ torn' = (torn \/ job.kind \in {"revoke", "expire"})
          /\ UNCHANGED <<mem, up, restart, lifefd, kern, dev, envVars, holders, proven>>
          /\ disk' \in {disk, job.final}
      BY <1>5 DEF StoreFails, Abandon
    <2>2. JobOK(job', mem')
      BY <1>0, <2>1, ErrorJobsOK
    <2>3. job'.final \in States
      BY <2>2 DEF JobOK, Jobs
    <2>4. GoodState(disk')
      BY <1>0, <2>1 DEF JobOK, Jobs, GoodState
    <2>5. TypeOK'
      BY <1>0, <2>1, <2>3, <2>4 DEF TypeOK, envVars, GoodState
    <2>6. QED
      BY <1>0, <2>1, <2>2, <2>4, <2>5 DEF TypeInv
  <1>6. CASE UnwindDone
    <2>1. /\ job' = Idle
          /\ UNCHANGED <<disk, mem, up, restart, lifefd, kern, dev, envVars, holders,
                         proven, torn, faults>>
      BY <1>6 DEF UnwindDone
    <2>2. JobOK(job', mem')
      BY <2>1, IdleOK
    <2>3. job'.final \in States
      BY <2>2 DEF JobOK, Jobs
    <2>4. TypeOK'
      BY <1>0, <2>1, <2>3 DEF TypeOK, envVars
    <2>5. QED
      BY <1>0, <2>1, <2>2, <2>4 DEF TypeInv
  <1>7. QED
    BY <1>1, <1>2, <1>3, <1>4, <1>5, <1>6 DEF Execution

\* Starting a recovery step keeps the invariant.
LEMMA RecoveryKeeps ==
    ASSUME TypeInv, Recovery
    PROVE  TypeInv'
  <1>0. /\ TypeOK /\ GoodState(mem) /\ GoodState(disk) /\ JobOK(job, mem)
        /\ boot \in Nat /\ <<>> \in Seq(Ops)
    BY DEF TypeInv, TypeOK
  <1>s. \A j \in Jobs : j = Job(j.kind, j.ops, j.final)
    BY DEF Job, Jobs
  <1>1. CASE RecoverCreation
    <2>1. JobOK(CreateJob(mem), mem)
      BY <1>0, CreateOK
    <2>2. QED
      BY <1>1, <1>s, <2>1, StartKeeps, QuietDraws DEF RecoverCreation, JobOK
  <1>2. CASE RecoverCommit
    <2>1. JobOK(RollbackJob(mem), mem)
      BY <1>0, <1>2, RollbackOK DEF RecoverCommit
    <2>2. QED
      BY <1>2, <1>s, <2>1, StartKeeps, QuietDraws DEF RecoverCommit, JobOK
  <1>3. CASE RecoverCandidate
    <2>1. JobOK(Job("save", <<>>, [mem EXCEPT !.cand = None]), mem)
      BY <1>0, DropCandidate, PlainJob DEF PlainKinds
    <2>2. QED
      BY <1>3, <2>1, StartKeeps, QuietDraws DEF RecoverCandidate
  <1>4. CASE RecoverCancelled
    <2>1. JobOK(ExpireJob(mem), mem)
      BY <1>0, <1>4, FenceOK DEF RecoverCancelled, NeedCancel
    <2>2. QED
      BY <1>4, <1>s, <2>1, StartKeeps, QuietDraws DEF RecoverCancelled, JobOK
  <1>5. CASE RecoverPolicy
    <2>1. JobOK(PolicyJob(mem), mem)
      BY <1>0, <1>5, PolicyOK DEF RecoverPolicy, PolicyDue
    <2>2. QED
      BY <1>5, <1>s, <2>1, StartKeeps, QuietDraws DEF RecoverPolicy, JobOK
  <1>6. CASE RecoverFailures
    <2>1. JobOK(FailuresJob(mem), mem)
      BY <1>0, <1>6, FailuresOK DEF RecoverFailures, FailuresDue
    <2>2. QED
      BY <1>6, <1>s, <2>1, StartKeeps, QuietDraws DEF RecoverFailures, JobOK
  <1>7. CASE RecoverLapsed
    <2>1. mem.fwd # None
      BY <1>7 DEF RecoverLapsed, Lapsed
    <2>2. CASE mem.fwd.pending # None
      <3>1. JobOK(Job("lapse", <<>>, Cancelled(mem)), mem)
        BY <1>0, <2>1, <2>2, CancelOK
      <3>2. Start("lapse", <<>>, Cancelled(mem)) /\ Quiet
        BY <1>7, <2>2 DEF RecoverLapsed
      <3>3. QED
        BY <3>1, <3>2, StartKeeps, QuietDraws
    <2>3. CASE mem.fwd.pending = None
      <3>1. JobOK(ExpireJob(mem), mem)
        BY <1>0, <2>1, FenceOK
      <3>2. QED
        BY <1>7, <1>s, <2>3, <3>1, StartKeeps, QuietDraws DEF RecoverLapsed, JobOK
    <2>4. QED
      BY <2>2, <2>3
  <1>8. CASE RecoverDone
    <2>1. /\ restart' = FALSE
          /\ UNCHANGED <<disk, mem, up, lifefd, job, kern, dev, envVars, holders,
                         proven, torn, faults>>
      BY <1>8 DEF RecoverDone
    <2>2. TypeOK'
      BY <1>0, <2>1 DEF TypeOK, envVars
    <2>3. QED
      BY <1>0, <2>1, <2>2 DEF TypeInv
  <1>9. QED
    BY <1>1, <1>2, <1>3, <1>4, <1>5, <1>6, <1>7, <1>8 DEF Recovery

\* Infrastructure requests keep the invariant.
LEMMA InfrastructureKeeps ==
    ASSUME TypeInv, Infrastructure
    PROVE  TypeInv'
  <1>0. /\ TypeOK /\ GoodState(mem) /\ mem \in States /\ TokenOrder(mem)
        /\ boot \in Nat /\ serial \in Nat /\ lifefd \in Nat /\ <<>> \in Seq(Ops)
        /\ proven \subseteq [token : Nat, epoch : Nat, alive : SUBSET Procs]
    BY DEF TypeInv, TypeOK, GoodState
  <1>d. DrawMarker => DrawnOK
    BY <1>0 DEF DrawMarker, DrawnOK
  <1>c. /\ CreationIntent(mem) \in States
        /\ CreationIntent(mem).fwd = mem.fwd /\ CreationIntent(mem).cand = mem.cand
        /\ CreationIntent(mem).token = mem.token
    <2> DEFINE marker == serial + 1
    <2>1. marker \in Nat
      BY <1>0
    <2>2. CreationIntent(mem) =
              [mem EXCEPT !.marker = marker, !.creating = TRUE, !.boot = boot]
      BY DEF CreationIntent
    <2> HIDE DEF marker
    <2>3. QED
      BY <1>0, <2>1, <2>2 DEF States
  <1>1. ASSUME NEW c \in Callers, InfraEnsure(c)
        PROVE  TypeInv'
    <2> DEFINE st == [CreationIntent(mem) EXCEPT !.admin = c]
    <2>1. GoodState(st)
      BY <1>0, <1>c DEF GoodState, States, TokenOrder
    <2>2. Start("intend", <<>>, st) /\ DrawnOK
      BY <1>1, <1>d DEF InfraEnsure
    <2> HIDE DEF st
    <2>3. JobOK(Job("intend", <<>>, st), mem)
      BY <1>0, <2>1, PlainJob DEF PlainKinds
    <2>4. QED
      BY <2>2, <2>3, StartKeeps
  <1>2. CASE InfraRepair
    <2> DEFINE r == IF mem.fwd = None THEN None ELSE [mem.fwd EXCEPT !.phase = "Revoked"]
               st == [CreationIntent(mem) EXCEPT !.fwd = r, !.cand = None,
                                                 !.ifindex = 0, !.io = None]
               ops == IF mem.fwd = None THEN <<>>
                      ELSE RejectForwarding(mem.fwd.decl) \o RemoveFirewall
    <2>1. /\ r \in ForwardRecords \cup {None}
          /\ r # None => mem.fwd # None /\ r.owner = mem.fwd.owner
      BY <1>0, RecordTypes, RecordEdits DEF Phases
    <2>2. Start("intend", ops, st) /\ DrawnOK
      BY <1>2, <1>c, <1>d DEF InfraRepair
    <2> HIDE DEF r
    <2>3. GoodState(st)
      BY <1>0, <1>c, <2>1 DEF GoodState, States, TokenOrder
    <2>4. ops \in Seq(Ops)
      <3>1. mem.fwd # None => mem.fwd.decl \in Declarations
        BY <1>0, RecordTypes, OwnerType
      <3>2. QED
        BY <1>0, <3>1, RejectOps, SimpleOps, ConcatOps
    <2> HIDE DEF st, ops
    <2>5. JobOK(Job("intend", ops, st), mem)
      BY <2>3, <2>4, PlainJob DEF PlainKinds
    <2>6. QED
      BY <2>2, <2>5, StartKeeps
  <1>3. ASSUME NEW p \in Procs, NEW e \in 1..MaxIoEpoch, InfraAcquireIoFd(p, e)
        PROVE  TypeInv'
    <2> DEFINE io == [proc |-> p, epoch |-> e, boot |-> boot]
               st == [mem EXCEPT !.io = io, !.ioEpoch = e]
    <2>1. io \in IoOwners /\ io # None /\ e \in Nat
      BY <1>0, NoneAssumption, BoundAssumption DEF IoOwners
    <2> HIDE DEF io
    <2>2. GoodState(st) /\ st.io = io
      BY <1>0, <2>1 DEF GoodState, States, TokenOrder
    <2>3. Start("acquire", <<>>, st)
      BY <1>3 DEF InfraAcquireIoFd, io
    <2>4. DrawnOK
      <3>1. dev \in Devices
        BY <1>0, <1>3 DEF InfraAcquireIoFd, Identity, TypeOK
      <3>2. lifefd' \in Nat /\ UNCHANGED <<proven, serial>>
        BY <1>0, <1>3, <3>1 DEF InfraAcquireIoFd, OpenFd, Devices
      <3>3. QED
        BY <1>0, <3>2 DEF DrawnOK
    <2> HIDE DEF st
    <2>5. JobOK(Job("acquire", <<>>, st), mem)
      BY <1>0, <2>1, <2>2 DEF JobOK, Jobs, Kinds, Job, GoodState
    <2>6. QED
      BY <2>3, <2>4, <2>5, StartKeeps
  <1>4. CASE InfraReleaseIo
    <2>1. GoodState([mem EXCEPT !.io = None])
      BY <1>0 DEF GoodState, States, TokenOrder
    <2>2. JobOK(Job("settle", <<>>, [mem EXCEPT !.io = None]), mem)
      BY <1>0, <2>1, PlainJob DEF PlainKinds
    <2>3. QED
      BY <1>4, <2>2, StartKeeps, QuietDraws DEF InfraReleaseIo
  <1>5. CASE InfraRetire
    <2> DEFINE sweep == RetireForwarding(kern, mem.fwd.decl) \o WriteSysctls(mem.sysctls, FALSE)
               ops == (IF mem.fwd = None THEN <<>> ELSE sweep) \o DeviceOp("rmdev")
    <2>1. mem.fwd # None => sweep \in Seq(Ops)
      <3>1. SUFFICES ASSUME mem.fwd # None PROVE sweep \in Seq(Ops)
        OBVIOUS
      <3>2. mem.fwd.decl \in Declarations
        BY <1>0, <3>1, RecordTypes, OwnerType
      <3>3. {p \in Targets(mem.fwd.decl) : OwnedRoute(mem.fwd.decl, p, kern.route[p])}
                \in SUBSET Prefixes
        BY <3>2, DeclPrefixes
      <3>4. RetireForwarding(kern, mem.fwd.decl) \in Seq(Ops)
        BY <3>3, AllToOps, RuleOps, ConcatOps DEF RetireForwarding, RouteKinds
      <3>5. WriteSysctls(mem.sysctls, FALSE) \in Seq(Ops)
        BY <1>0, SimpleOps DEF States
      <3>6. QED
        BY <3>4, <3>5, ConcatOps
    <2>2. Start("retire", ops, NewState) /\ Quiet
      BY <1>5 DEF InfraRetire
    <2> HIDE DEF sweep
    <2>3. ops \in Seq(Ops)
      <3>1. DeviceOp("rmdev") \in Seq(Ops)
        BY SimpleOps DEF DeviceOps
      <3>2. (IF mem.fwd = None THEN <<>> ELSE sweep) \in Seq(Ops)
        BY <1>0, <2>1
      <3>3. QED
        BY <3>1, <3>2, ConcatOps
    <2> HIDE DEF ops
    <2>4. JobOK(Job("retire", ops, NewState), mem)
      BY <2>3, IdleOK, PlainJob DEF PlainKinds
    <2>5. QED
      BY <2>2, <2>4, StartKeeps, QuietDraws
  <1>6. QED
    BY <1>1, <1>2, <1>3, <1>4, <1>5 DEF Infrastructure

\* A fresh record is a record.
LEMMA NewRecordType ==
    ASSUME NEW o \in Owners, NEW d \in Decls, NEW phase \in Phases
    PROVE  NewRecord(o, d, phase) \in ForwardRecords /\ NewRecord(o, d, phase).owner = o
  <1>1. o \in OwnerRecords /\ o.gen \in Nat /\ o.token \in Nat
    BY OwnerAssumption DEF OwnerRecords
  <1>2. d \in Declarations
    BY DeclAssumption
  <1>3. QED
    BY <1>1, <1>2 DEF NewRecord, ForwardRecords

\* The first preparation keeps the invariant.
LEMMA PrepareInitialKeeps ==
    ASSUME TypeInv, NEW o \in Owners, NEW d \in Decls, PrepareInitial(o, d)
    PROVE  TypeInv'
  <1> DEFINE r == NewRecord(o, d, "Preparing")
             changed == IF mem.fwd = None THEN ~kern.sysctl ELSE mem.sysctls
             st == [mem EXCEPT !.fwd = r, !.token = o.token, !.sysctls = changed]
  <1>1. GoodState(mem) /\ mem \in States /\ kern \in Kernels /\ <<>> \in Seq(Ops)
    BY DEF TypeInv, TypeOK
  <1>2. r \in ForwardRecords /\ r.owner = o /\ o.token \in Nat /\ r # None
    BY NewRecordType, OwnerAssumption, NoneAssumption DEF Phases, OwnerRecords
  <1>3. changed \in BOOLEAN
    BY <1>1 DEF States, Kernels
  <1>4. Start("preparing", <<>>, st) /\ Quiet /\ mem.cand = None
    BY DEF PrepareInitial
  <1> HIDE DEF r, changed
  <1>5. st \in States /\ st.fwd = r /\ st.cand = None /\ st.token = o.token
    BY <1>1, <1>2, <1>3, <1>4 DEF States
  <1>6. TokenOrder(st)
    BY <1>2, <1>5 DEF TokenOrder
  <1> HIDE DEF st
  <1>7. JobOK(Job("preparing", <<>>, st), mem)
    BY <1>1, <1>2, <1>5, <1>6 DEF JobOK, Jobs, Kinds, Job
  <1>8. QED
    BY <1>4, <1>7, StartKeeps, QuietDraws

\* Retaining a candidate keeps the invariant; this is where the fencing token
\* has to be larger than every one seen before.
LEMMA PrepareCandidateKeeps ==
    ASSUME TypeInv, NEW o \in Owners, NEW d \in Decls, PrepareCandidate(o, d)
    PROVE  TypeInv'
  <1> DEFINE r == NewRecord(o, d, "Prepared")
             st == [mem EXCEPT !.cand = r, !.token = o.token]
  <1>1. /\ GoodState(mem) /\ mem \in States /\ TokenOrder(mem)
        /\ <<>> \in Seq(Ops) /\ mem.fwd # None /\ mem.token \in Nat
    BY DEF TypeInv, GoodState, PrepareCandidate, States
  <1>2. mem.fwd.owner.token \in Nat
    BY <1>1, RecordTypes, OwnerType
  <1>3. r \in ForwardRecords /\ r.owner = o /\ o.token \in Nat
    BY NewRecordType, OwnerAssumption DEF Phases, OwnerRecords
  <1>4. o.token > mem.token /\ o.token > mem.fwd.owner.token
    BY <1>1, <1>2, <1>3 DEF PrepareCandidate, Succeeds, Max2
  <1>5. Start("save", <<>>, st) /\ Quiet
    BY DEF PrepareCandidate
  <1> HIDE DEF r
  <1>6. st \in States /\ st.fwd = mem.fwd /\ st.cand = r /\ st.token = o.token
    BY <1>1, <1>3 DEF States
  <1>7. TokenOrder(st)
    BY <1>1, <1>2, <1>3, <1>4, <1>6 DEF TokenOrder
  <1> HIDE DEF st
  <1>8. JobOK(Job("save", <<>>, st), mem)
    BY <1>1, <1>6, <1>7, PlainJob DEF PlainKinds, GoodState
  <1>9. QED
    BY <1>5, <1>8, StartKeeps, QuietDraws

\* Binding an authority keeps the invariant.
LEMMA AuthorizeKeeps ==
    ASSUME TypeInv, NEW which \in {"fwd", "cand"}, NEW a \in [io : Procs, epoch : Nat,
           biz : Procs, decl : Decls], ForwardAuthorize(which, a)
    PROVE  TypeInv'
  <1>1. GoodState(mem) /\ mem \in States /\ <<>> \in Seq(Ops)
    BY DEF TypeInv, GoodState
  <1>2. a \in Authorities
    BY DeclAssumption DEF Authorities
  <1> DEFINE r == [mem[which] EXCEPT !.authority = a]
             st == [mem EXCEPT ![which] = r]
  <1>3. Start("settle", <<>>, st) /\ Quiet /\ mem[which] # None
    BY <1>1 DEF ForwardAuthorize, States
  <1>4. mem[which] \in ForwardRecords
    BY <1>1, <1>3, RecordTypes
  <1>5. r \in ForwardRecords /\ r.owner = mem[which].owner
    BY <1>2, <1>4 DEF ForwardRecords
  <1> HIDE DEF r
  <1>6. GoodState(st)
    <2>1. CASE which = "fwd"
      BY <1>1, <1>3, <1>5, <2>1, EditRecord
    <2>2. CASE which = "cand"
      BY <1>1, <1>3, <1>5, <2>2, EditCandidate
    <2>3. QED
      BY <2>1, <2>2
  <1> HIDE DEF st
  <1>7. JobOK(Job("settle", <<>>, st), mem)
    BY <1>1, <1>6, PlainJob DEF PlainKinds
  <1>8. QED
    BY <1>3, <1>7, StartKeeps, QuietDraws

\* An accepted commit request proves a well-formed fact.
LEMMA CommitDraws ==
    ASSUME TypeInv, NEW r \in ForwardRecords, NEW t, CommitRequest(r, t)
    PROVE  DrawnOK
  <1>1. /\ lifefd \in Nat /\ serial \in Nat /\ alive \subseteq Procs
        /\ proven \subseteq [token : Nat, epoch : Nat, alive : SUBSET Procs]
        /\ mem.ioEpoch \in Nat
    BY DEF TypeInv, TypeOK, States
  <1>2. r.owner.token \in Nat
    BY OwnerType
  <1>3. [token |-> r.owner.token, epoch |-> mem.ioEpoch, alive |-> alive]
            \in [token : Nat, epoch : Nat, alive : SUBSET Procs]
    BY <1>1, <1>2
  <1>4. QED
    BY <1>1, <1>3 DEF CommitRequest, CommitAccepted, DrawnOK

\* Committing an owner keeps the invariant.
LEMMA CommitKeeps ==
    ASSUME TypeInv, NEW t,
           CommitHandoff(t) \/ CommitReplacement(t) \/ CommitInitial(t)
    PROVE  TypeInv'
  <1>1. GoodState(mem) /\ mem \in States /\ <<>> \in Seq(Ops)
    BY DEF TypeInv, GoodState
  <1>2. CASE CommitHandoff(t)
    <2>1. mem.cand # None /\ mem.cand \in ForwardRecords
      BY <1>1, <1>2, RecordTypes DEF CommitHandoff, CommitRequest
    <2>2. GoodState(Committed(mem))
      <3> DEFINE r == [mem.cand EXCEPT !.phase = "Active"]
      <3>1. r \in ForwardRecords /\ r.owner = mem.cand.owner
        BY <2>1, RecordEdits DEF Phases
      <3>2. Committed(mem) = [mem EXCEPT !.fwd = r, !.cand = None]
        BY DEF Committed
      <3> HIDE DEF r
      <3>3. QED
        BY <1>1, <2>1, <3>1, <3>2 DEF GoodState, States, TokenOrder
    <2>3. JobOK(Job("save", <<>>, Committed(mem)), mem)
      BY <1>1, <2>2, PlainJob DEF PlainKinds
    <2>4. QED
      BY <1>2, <2>1, <2>3, CommitDraws, StartKeeps DEF CommitHandoff
  <1>3. CASE CommitReplacement(t)
    <2> DEFINE r == [mem.cand EXCEPT !.phase = "Preparing"]
               st == [mem EXCEPT !.cand = r]
    <2>1. mem.cand # None /\ mem.cand \in ForwardRecords
      BY <1>1, <1>3, RecordTypes DEF CommitReplacement, CommitRequest
    <2>2. r \in ForwardRecords /\ r.owner = mem.cand.owner /\ r.phase = "Preparing"
      BY <2>1, RecordEdits DEF Phases, ForwardRecords
    <2>3. Start("commit", <<>>, st)
      BY <1>3 DEF CommitReplacement
    <2> HIDE DEF r
    <2>4. GoodState(st) /\ Committing(st)
      BY <1>1, <2>1, <2>2, EditCandidate, NoneAssumption DEF Committing, States
    <2> HIDE DEF st
    <2>5. JobOK(Job("commit", <<>>, st), mem)
      BY <1>1, <2>4 DEF JobOK, Jobs, Kinds, Job, GoodState
    <2>6. QED
      BY <1>3, <2>1, <2>3, <2>5, CommitDraws, StartKeeps DEF CommitReplacement
  <1>4. CASE CommitInitial(t)
    <2> DEFINE r == [mem.fwd EXCEPT !.phase = "Active"]
               st == [mem EXCEPT !.fwd = r]
               ops == RestoreForwarding(mem.fwd.decl, mem.fwd.failed)
    <2>1. mem.fwd # None /\ mem.fwd \in ForwardRecords
      BY <1>1, <1>4, RecordTypes DEF CommitInitial, CommitRequest
    <2>2. r \in ForwardRecords /\ r.owner = mem.fwd.owner
      BY <2>1, RecordEdits DEF Phases
    <2>3. Start("activate", ops, st)
      BY <1>4 DEF CommitInitial
    <2> HIDE DEF r
    <2>4. GoodState(st) /\ ops \in Seq(Ops)
      BY <1>1, <2>1, <2>2, EditRecord, OwnerType, RestoreOps
    <2> HIDE DEF st, ops
    <2>5. JobOK(Job("activate", ops, st), mem)
      BY <2>4, PlainJob DEF PlainKinds
    <2>6. QED
      BY <1>4, <2>1, <2>3, <2>5, CommitDraws, StartKeeps DEF CommitInitial
  <1>5. QED
    BY <1>2, <1>3, <1>4

\* Guarding, revoking and renewing keep the invariant.
LEMMA RetainedKeeps ==
    ASSUME TypeInv, \/ ForwardGuard \/ RevokeCandidate \/ RevokeForward
                    \/ \E lease \in 0..MaxTime : ForwardLeaseRenew(lease)
    PROVE  TypeInv'
  <1>1. GoodState(mem) /\ mem \in States /\ <<>> \in Seq(Ops)
    BY DEF TypeInv, GoodState
  <1>s. \A j \in Jobs : j = Job(j.kind, j.ops, j.final)
    BY DEF Job, Jobs
  <1>2. CASE ForwardGuard
    <2> DEFINE r == [mem.fwd EXCEPT !.phase = "Guarded"]
               st == [mem EXCEPT !.fwd = r]
    <2>1. mem.fwd # None /\ mem.fwd \in ForwardRecords
      BY <1>1, <1>2, RecordTypes DEF ForwardGuard
    <2>2. r \in ForwardRecords /\ r.owner = mem.fwd.owner
      BY <2>1, RecordEdits DEF Phases
    <2>3. Start("save", <<>>, st) /\ Quiet
      BY <1>2 DEF ForwardGuard
    <2> HIDE DEF r
    <2>4. GoodState(st)
      BY <1>1, <2>1, <2>2, EditRecord
    <2> HIDE DEF st
    <2>5. JobOK(Job("save", <<>>, st), mem)
      BY <1>1, <2>4, PlainJob DEF PlainKinds
    <2>6. QED
      BY <2>3, <2>5, StartKeeps, QuietDraws
  <1>3. CASE RevokeCandidate
    <2>1. JobOK(Job("save", <<>>, [mem EXCEPT !.cand = None]), mem)
      BY <1>1, DropCandidate, PlainJob DEF PlainKinds
    <2>2. QED
      BY <1>3, <2>1, StartKeeps, QuietDraws DEF RevokeCandidate
  <1>4. CASE RevokeForward
    <2>1. mem.fwd # None
      BY <1>4 DEF RevokeForward
    <2>2. CASE mem.fwd.pending # None
      <3>1. JobOK(Job("cancel", <<>>, Cancelled(mem)), mem)
        BY <1>1, <2>1, <2>2, CancelOK
      <3>2. QED
        BY <1>4, <2>2, <3>1, StartKeeps, QuietDraws DEF RevokeForward
    <2>3. CASE mem.fwd.pending = None
      <3>1. JobOK(RevokeJob(mem), mem)
        BY <1>1, <2>1, FenceOK
      <3>2. QED
        BY <1>4, <1>s, <2>3, <3>1, StartKeeps, QuietDraws DEF RevokeForward, JobOK
    <2>4. QED
      BY <2>2, <2>3
  <1>5. ASSUME NEW lease \in 0..MaxTime, ForwardLeaseRenew(lease)
        PROVE  TypeInv'
    <2> DEFINE o == [mem.fwd.owner EXCEPT !.lease = lease]
               r == [mem.fwd EXCEPT !.owner = o]
               st == [mem EXCEPT !.fwd = r]
    <2>1. mem.fwd # None /\ mem.fwd \in ForwardRecords /\ lease \in Nat
      BY <1>1, <1>5, RecordTypes, BoundAssumption DEF ForwardLeaseRenew
    <2>2. o \in OwnerRecords /\ o.token = mem.fwd.owner.token
      BY <2>1, OwnerType DEF OwnerRecords
    <2>3. Start("settle", <<>>, st) /\ Quiet
      BY <1>5 DEF ForwardLeaseRenew
    <2> HIDE DEF o
    <2>4. r \in ForwardRecords /\ r.owner = o
      BY <2>1, <2>2 DEF ForwardRecords
    <2> HIDE DEF r
    <2>5. GoodState(st)
      BY <1>1, <2>1, <2>2, <2>4, EditRecord
    <2> HIDE DEF st
    <2>6. JobOK(Job("settle", <<>>, st), mem)
      BY <1>1, <2>5, PlainJob DEF PlainKinds
    <2>7. QED
      BY <2>3, <2>6, StartKeeps, QuietDraws
  <1>6. QED
    BY <1>2, <1>3, <1>4, <1>5

\* Ownership requests keep the invariant.
LEMMA OwnershipKeeps ==
    ASSUME TypeInv, Ownership
    PROVE  TypeInv'
  <1>1. ASSUME NEW which \in {"fwd", "cand"}, NEW io \in Procs, NEW biz \in Procs,
               NEW e \in 1..MaxIoEpoch, NEW d \in Decls,
               ForwardAuthorize(which, [io |-> io, epoch |-> e, biz |-> biz, decl |-> d])
        PROVE  TypeInv'
    <2>1. [io |-> io, epoch |-> e, biz |-> biz, decl |-> d]
              \in [io : Procs, epoch : Nat, biz : Procs, decl : Decls]
      BY BoundAssumption
    <2>2. QED
      BY <1>1, <2>1, AuthorizeKeeps
  <1>2. QED
    BY <1>1, PrepareInitialKeeps, PrepareCandidateKeeps, CommitKeeps, RetainedKeeps
    DEF Ownership

\* Failure snapshots and live policies keep the invariant.
LEMMA PublicationKeeps ==
    ASSUME TypeInv, Publication
    PROVE  TypeInv'
  <1>1. GoodState(mem) /\ mem \in States /\ <<>> \in Seq(Ops)
    BY DEF TypeInv, GoodState
  <1>2. ASSUME NEW rev \in 1..MaxRevision, NEW failed \in SUBSET Prefixes,
               FailuresUpdate(rev, failed)
        PROVE  TypeInv'
    <2> DEFINE p == [rev |-> rev, failed |-> failed]
               r == [mem.fwd EXCEPT !.pendFailed = p]
               st == [mem EXCEPT !.fwd = r]
    <2>1. mem.fwd # None /\ mem.fwd \in ForwardRecords
      BY <1>1, <1>2, RecordTypes DEF FailuresUpdate, FailuresRequest
    <2>2. p \in PendingFailures /\ p # None
      BY BoundAssumption, NoneAssumption DEF PendingFailures
    <2>3. Start("failing", <<>>, st) /\ Quiet
      BY <1>2 DEF FailuresUpdate, FailuresRequest
    <2> HIDE DEF p
    <2>4. r \in ForwardRecords /\ r.owner = mem.fwd.owner /\ r.pendFailed = p
      BY <2>1, <2>2 DEF ForwardRecords
    <2> HIDE DEF r
    <2>5. GoodState(st) /\ st.fwd = r /\ r # None
      BY <1>1, <2>1, <2>4, EditRecord, NoneAssumption DEF States
    <2> HIDE DEF st
    <2>6. JobOK(Job("failing", <<>>, st), mem)
      BY <1>1, <2>2, <2>4, <2>5 DEF JobOK, Jobs, Kinds, Job, GoodState
    <2>7. QED
      BY <2>3, <2>6, StartKeeps, QuietDraws
  <1>3. ASSUME NEW rev \in 1..MaxRevision, NEW failed \in SUBSET Prefixes,
               NEW which \in {"fwd", "cand"}, FailuresRecord(which, rev, failed)
        PROVE  TypeInv'
    <2> DEFINE r == [mem[which] EXCEPT !.failed = failed, !.failRev = rev]
               st == [mem EXCEPT ![which] = r]
    <2>1. mem[which] # None /\ mem[which] \in ForwardRecords /\ rev \in Nat
      BY <1>1, <1>3, RecordTypes, BoundAssumption DEF FailuresRecord, FailuresRequest
    <2>2. Start("save", <<>>, st) /\ Quiet
      <3>1. [mem EXCEPT ![which].failed = failed, ![which].failRev = rev] = st
        BY <1>1 DEF States
      <3>2. QED
        BY <1>3, <3>1 DEF FailuresRecord, FailuresRequest
    <2>3. r \in ForwardRecords /\ r.owner = mem[which].owner
      BY <2>1 DEF ForwardRecords
    <2> HIDE DEF r
    <2>4. GoodState(st)
      <3>1. CASE which = "fwd"
        BY <1>1, <2>1, <2>3, <3>1, EditRecord
      <3>2. CASE which = "cand"
        BY <1>1, <2>1, <2>3, <3>2, EditCandidate
      <3>3. QED
        BY <3>1, <3>2
    <2> HIDE DEF st
    <2>5. JobOK(Job("save", <<>>, st), mem)
      BY <1>1, <2>4, PlainJob DEF PlainKinds
    <2>6. QED
      BY <2>2, <2>5, StartKeeps, QuietDraws
  <1>4. ASSUME NEW rev \in 1..MaxPolicy, NEW gen \in {o.gen : o \in Owners},
               PolicyMetadata(rev, gen)
        PROVE  TypeInv'
    <2> DEFINE r == [mem.fwd EXCEPT !.polRev = rev, !.polGen = gen]
               st == [mem EXCEPT !.fwd = r]
    <2>1. mem.fwd # None /\ mem.fwd \in ForwardRecords
      BY <1>1, <1>4, RecordTypes DEF PolicyMetadata, PolicyRequest
    <2>2. rev \in Nat /\ gen \in Nat
      BY BoundAssumption, OwnerAssumption DEF OwnerRecords
    <2>3. Start("save", <<>>, st) /\ Quiet
      <3>1. [mem EXCEPT !.fwd.polRev = rev, !.fwd.polGen = gen] = st
        BY <1>1 DEF States
      <3>2. QED
        BY <1>4, <3>1 DEF PolicyMetadata, PolicyRequest
    <2>4. r \in ForwardRecords /\ r.owner = mem.fwd.owner
      BY <2>1, <2>2 DEF ForwardRecords
    <2> HIDE DEF r
    <2>5. GoodState(st)
      BY <1>1, <2>1, <2>4, EditRecord
    <2> HIDE DEF st
    <2>6. JobOK(Job("save", <<>>, st), mem)
      BY <1>1, <2>5, PlainJob DEF PlainKinds
    <2>7. QED
      BY <2>3, <2>6, StartKeeps, QuietDraws
  <1>5. ASSUME NEW rev \in 1..MaxPolicy, NEW gen \in {o.gen : o \in Owners},
               NEW target \in Decls, PolicyUpdate(rev, gen, target)
        PROVE  TypeInv'
    <2> DEFINE p == [cancelled |-> FALSE, rev |-> rev, gen |-> gen, decl |-> target]
               r == [mem.fwd EXCEPT !.pending = p]
               st == [mem EXCEPT !.fwd = r]
    <2>1. mem.fwd # None /\ mem.fwd \in ForwardRecords
      BY <1>1, <1>5, RecordTypes DEF PolicyUpdate, PolicyRequest
    <2>2. p \in PendingPolicies /\ p # None
      <3>1. rev \in Nat /\ gen \in Nat /\ target \in Declarations
        BY BoundAssumption, OwnerAssumption, DeclAssumption DEF OwnerRecords
      <3>2. p \in PendingPolicies
        BY <3>1 DEF PendingPolicies
      <3>3. QED
        BY <3>2, NoneAssumption
    <2>3. Start("publish", <<>>, st) /\ Quiet
      BY <1>5 DEF PolicyUpdate, PolicyRequest
    <2> HIDE DEF p
    <2>4. r \in ForwardRecords /\ r.owner = mem.fwd.owner /\ r.pending = p
      BY <2>1, <2>2 DEF ForwardRecords
    <2> HIDE DEF r
    <2>5. GoodState(st) /\ st.fwd = r /\ r # None
      BY <1>1, <2>1, <2>4, EditRecord, NoneAssumption DEF States
    <2> HIDE DEF st
    <2>6. JobOK(Job("publish", <<>>, st), mem)
      BY <1>1, <2>2, <2>4, <2>5 DEF JobOK, Jobs, Kinds, Job, GoodState
    <2>7. QED
      BY <2>3, <2>6, StartKeeps, QuietDraws
  <1>6. QED
    BY <1>2, <1>3, <1>4, <1>5 DEF Publication

\* What the host does, crashes and reboots included, keeps the invariant.
LEMMA HostKeeps ==
    ASSUME TypeInv, Host
    PROVE  TypeInv'
  <1>0. /\ TypeOK /\ GoodState(mem) /\ GoodState(disk) /\ JobOK(job, mem)
        /\ kern \in Kernels /\ dev \in Devices \cup {None}
        /\ disk \in States /\ serial \in Nat /\ now \in Nat /\ boot \in Nat
        /\ faults \in Nat /\ lifefd \in Nat
    BY DEF TypeInv, TypeOK
  <1>1. CASE Tick
    <2>1. now' \in Nat
      BY <1>0, <1>1 DEF Tick
    <2>2. /\ UNCHANGED <<disk, mem, up, restart, lifefd, job, kern, dev, boot, serial>>
          /\ UNCHANGED <<alive, holders, proven, torn, faults>>
      BY <1>1 DEF Tick
    <2>3. TypeOK'
      BY <1>0, <2>1, <2>2 DEF TypeOK
    <2>4. QED
      BY <1>0, <2>2, <2>3 DEF TypeInv
  <1>2. ASSUME NEW p \in Procs, ProcessExit(p)
        PROVE  TypeInv'
    <2>1. /\ alive' = alive \ {p} /\ holders' = holders \ {p}
          /\ UNCHANGED <<disk, mem, up, restart, lifefd, job, kern, dev, now, boot,
                         serial, proven, torn, faults>>
      BY <1>2 DEF ProcessExit
    <2>2. TypeOK'
      BY <1>0, <2>1 DEF TypeOK
    <2>3. QED
      BY <1>0, <2>1, <2>2 DEF TypeInv
  <1>3. ASSUME Restarted
        PROVE  /\ JobOK(job', mem') /\ GoodState(mem') /\ GoodState(disk')
               /\ job'.final \in States /\ mem' \in States /\ disk' \in States
               /\ up' \in BOOLEAN /\ restart' \in BOOLEAN /\ lifefd' \in Nat
               /\ UNCHANGED <<serial, alive, proven>>
    <2>1. /\ job' = Idle /\ mem' = disk /\ disk' = disk /\ up' = Loadable(disk)
          /\ restart' = TRUE /\ lifefd' = 0 /\ UNCHANGED <<serial, alive, proven>>
      BY <1>3 DEF Restarted
    <2>2. JobOK(job', mem')
      BY <2>1, IdleOK
    <2>3. Loadable(disk) \in BOOLEAN
      BY DEF Loadable
    <2>4. QED
      BY <1>0, <2>1, <2>2, <2>3 DEF JobOK, Jobs
  <1>4. CASE Crash
    <2>1. /\ Restarted /\ faults' = faults + 1
          /\ dev' \in {dev, None}
          /\ torn' = (torn \/ job.kind \in {"revoke", "expire"})
          /\ UNCHANGED <<kern, now, boot, holders>>
      BY <1>4 DEF Crash, Abandon
    <2>2. TypeOK'
      BY <1>0, <1>3, <2>1 DEF TypeOK
    <2>3. QED
      BY <1>3, <2>1, <2>2 DEF TypeInv
  <1>5. CASE Reboot
    <2>1. /\ Restarted /\ boot' = boot + 1 /\ now' = 0 /\ kern' = CleanKernel
          /\ dev' = None /\ holders' = {} /\ torn' = FALSE /\ faults' = faults
      BY <1>5 DEF Reboot
    <2>2. CleanKernel \in Kernels
      BY DEF CleanKernel, Kernels, RouteKinds
    <2>3. /\ kern' \in Kernels /\ dev' \in Devices \cup {None} /\ holders' \subseteq Procs
          /\ boot' \in Nat /\ now' \in Nat /\ torn' \in BOOLEAN /\ faults' \in Nat
      <3>1. kern' \in Kernels /\ dev' \in Devices \cup {None} /\ holders' \subseteq Procs
        BY <2>1, <2>2
      <3>2. boot' \in Nat /\ now' \in Nat /\ faults' \in Nat
        BY <1>0, <2>1
      <3>3. torn' \in BOOLEAN
        BY <2>1
      <3>4. QED
        BY <3>1, <3>2, <3>3
    <2>4. TypeOK'
      BY <1>0, <1>3, <2>1, <2>3 DEF TypeOK
    <2>5. QED
      BY <1>3, <2>1, <2>4 DEF TypeInv
  <1>6. CASE LoseDevice
    <2>1. /\ faults' = faults + 1 /\ dev' = None /\ kern' = WithoutLink(kern)
          /\ UNCHANGED <<disk, mem, up, restart, lifefd, job, envVars, holders,
                         proven, torn>>
      BY <1>6 DEF LoseDevice
    <2>2. kern' \in Kernels
      BY <1>0, <2>1, WithoutLinkType
    <2>3. TypeOK'
      BY <1>0, <2>1, <2>2 DEF TypeOK, envVars
    <2>4. QED
      BY <1>0, <2>1, <2>3 DEF TypeInv
  <1>7. CASE ForeignDevice
    <2>1. /\ faults' = faults + 1 /\ serial' = serial + 1
          /\ dev' = [id |-> serial + 1, marker |-> 0, pinned |-> TRUE, foreign |-> TRUE]
          /\ UNCHANGED <<disk, mem, up, restart, lifefd, job, kern, now, boot, alive,
                         holders, proven, torn>>
      BY <1>7 DEF ForeignDevice
    <2>2. dev' \in Devices /\ serial' \in Nat /\ faults' \in Nat
      BY <1>0, <2>1 DEF Devices
    <2>3. TypeOK'
      BY <1>0, <2>1, <2>2 DEF TypeOK
    <2>4. QED
      BY <1>0, <2>1, <2>3 DEF TypeInv
  <1>8. QED
    BY <1>1, <1>2, <1>4, <1>5, <1>6, <1>7 DEF Host

-----------------------------------------------------------------------------
(* Theorems. *)

\* The inductive step for types and tokens, one lemma per group of actions.
LEMMA TypeStep == TypeInv /\ [Next]_vars => TypeInv'
  <1> SUFFICES ASSUME TypeInv, [Next]_vars PROVE TypeInv'
    OBVIOUS
  <1>1. CASE UNCHANGED vars
    BY <1>1 DEF vars, TypeInv, TypeOK
  <1>2. CASE Poll
    BY <1>1, <1>2 DEF Poll
  <1>3. QED
    BY <1>1, <1>2, ExecutionKeeps, RecoveryKeeps, InfrastructureKeeps,
       OwnershipKeeps, PublicationKeeps, HostKeeps DEF Next

\* A booted host with an empty journal satisfies the invariant.
LEMMA TypeInit == Init => TypeInv
  <1> SUFFICES ASSUME Init PROVE TypeInv
    OBVIOUS
  <1>1. /\ GoodState(mem) /\ GoodState(disk) /\ JobOK(job, mem)
    BY IdleOK DEF Init
  <1>2. kern \in Kernels
    BY DEF Init, CleanKernel, Kernels, RouteKinds
  <1>3. TypeOK
    BY <1>1, <1>2 DEF Init, TypeOK, GoodState, JobOK, Jobs
  <1>4. QED
    BY <1>1, <1>3 DEF TypeInv

\* In every reachable state types hold, every job still to run is well formed
\* and tokens are ordered in memory, on disk and in the state to persist.
THEOREM TypeInvariance == Spec => []TypeInv
  BY TypeInit, TypeStep, PTL DEF Spec

\* Every variable of the service and of its kernel keeps its type.
THEOREM TypeCorrectness == Spec => []TypeOK
  <1>1. TypeInv => TypeOK
    BY DEF TypeInv
  <1>2. QED
    BY <1>1, TypeInvariance, PTL

\* The durable fencing token dominates every journaled owner and a candidate
\* outranks the owner it replaces, after any sequence of prepares, commits,
\* rollbacks, cancellations, failed stores and crashes.
THEOREM TokenDominance == Spec => []TokensDominate
  <1>1. TypeInv => TokensDominate
    BY DEF TypeInv, GoodState, TokensDominate
  <1>2. QED
    BY <1>1, TypeInvariance, PTL

-----------------------------------------------------------------------------
(* The I/O descriptor. *)

\* If somebody holds the descriptor, the state names it as the current boot's
\* I/O owner.
Bound(st) ==
    holders # {} => st.io # None /\ st.io.boot = boot /\ holders \subseteq {st.io.proc}

\* The holder is alive and named by whatever a crash or a failed write may
\* leave behind: memory, journal, and the state about to be written.
IoInv ==
    /\ holders \subseteq alive
    /\ Bound(mem) /\ Bound(disk)
    /\ job.kind # "idle" => Bound(job.final)
    /\ job.kind = "acquire" => job.final.io.boot = boot

\* Without a living I/O owner in memory nobody holds the descriptor.
LEMMA NoHolder ==
    ASSUME IoInv, ~IoAlive(mem)
    PROVE  holders = {}
  BY DEF IoInv, Bound, IoAlive

\* A job that keeps the I/O owner keeps the invariant.
LEMMA StartKeepsIo ==
    ASSUME IoInv, NEW kind, NEW ops, NEW final, Start(kind, ops, final),
           kind # "acquire", final.io = mem.io
    PROVE  IoInv'
  BY DEF IoInv, Bound, Start, Job

\* So does any job started while nobody holds the descriptor.
LEMMA StartFree ==
    ASSUME IoInv, NEW kind, NEW ops, NEW final, Start(kind, ops, final),
           ~IoAlive(mem), kind = "acquire" => final.io.boot = boot
    PROVE  IoInv'
  <1>1. holders = {}
    BY NoHolder
  <1>2. QED
    BY <1>1 DEF IoInv, Bound, Start, Job

\* No job but the acquisition changes the I/O owner.
LEMMA JobsKeepIo ==
    ASSUME NEW st \in States
    PROVE  /\ RollbackJob(st).final.io = st.io /\ RollbackJob(st).kind = "rollback"
           /\ PrepareJob(st).final.io = st.io /\ PrepareJob(st).kind = "prepared"
           /\ FailuresJob(st).final.io = st.io /\ FailuresJob(st).kind = "failures"
           /\ PolicyJob(st).final.io = st.io /\ PolicyJob(st).kind = "policy"
           /\ RevokeJob(st).final.io = st.io /\ RevokeJob(st).kind = "revoke"
           /\ ExpireJob(st).final.io = st.io /\ ExpireJob(st).kind = "expire"
           /\ CreateJob(st).final.io = st.io /\ CreateJob(st).kind = "create"
           /\ Committed(st).io = st.io
           /\ Cancelled(st).io = st.io
  <1>1. RollbackJob(st).final.io = st.io /\ RollbackJob(st).kind = "rollback"
    BY DEF RollbackJob, Job, States
  <1>2. PrepareJob(st).final.io = st.io /\ PrepareJob(st).kind = "prepared"
    BY DEF PrepareJob, Job, States
  <1>3. FailuresJob(st).final.io = st.io /\ FailuresJob(st).kind = "failures"
    BY DEF FailuresJob, Job, States
  <1>4. PolicyJob(st).final.io = st.io /\ PolicyJob(st).kind = "policy"
    BY DEF PolicyJob, Job, States
  <1>5. RevokeJob(st).final.io = st.io /\ RevokeJob(st).kind = "revoke"
    BY DEF RevokeJob, Job, States
  <1>6. ExpireJob(st).final.io = st.io /\ ExpireJob(st).kind = "expire"
    BY DEF ExpireJob, Job, States
  <1>7. CreateJob(st).final.io = st.io /\ CreateJob(st).kind = "create"
    BY DEF CreateJob, Job, States
  <1>8. Committed(st).io = st.io /\ Cancelled(st).io = st.io
    BY DEF Committed, Cancelled, States
  <1>9. QED
    BY <1>1, <1>2, <1>3, <1>4, <1>5, <1>6, <1>7, <1>8

\* What follows an intent keeps the I/O owner.
LEMMA ContinueKeepsIo ==
    ASSUME NEW st \in States, NEW kind
    PROVE  LET j == Continue(kind, st)
           IN  /\ j.kind # "acquire"
               /\ j.kind # "idle" => j.final.io = st.io
  <1>1. CASE kind = "preparing"
    BY <1>1, JobsKeepIo DEF Continue
  <1>2. CASE kind = "commit"
    BY <1>2, JobsKeepIo DEF Continue, Job
  <1>3. CASE kind = "failing"
    BY <1>3, JobsKeepIo DEF Continue
  <1>4. CASE kind = "publish"
    BY <1>4, JobsKeepIo DEF Continue
  <1>5. CASE kind = "cancel"
    BY <1>5, JobsKeepIo DEF Continue
  <1>6. CASE kind = "lapse"
    BY <1>6, JobsKeepIo DEF Continue
  <1>7. CASE kind = "intend"
    BY <1>7, JobsKeepIo DEF Continue
  <1>8. CASE kind \notin {"preparing", "commit", "failing", "publish", "cancel",
                          "lapse", "intend"}
    BY <1>8 DEF Continue, Idle
  <1>9. QED
    BY <1>1, <1>2, <1>3, <1>4, <1>5, <1>6, <1>7, <1>8

\* So does what follows an error.
LEMMA ErrorsKeepIo ==
    ASSUME mem \in States
    PROVE  /\ OpErrorJob.kind # "acquire" /\ StoreErrorJob.kind # "acquire"
           /\ OpErrorJob.kind # "idle" => OpErrorJob.final.io = mem.io
           /\ StoreErrorJob.kind # "idle" => StoreErrorJob.final.io = mem.io
  <1>1. UnwindJob.kind # "acquire" /\ (UnwindJob.kind # "idle" => UnwindJob.final.io = mem.io)
    BY DEF UnwindJob, Idle, Job
  <1>2. CASE job.kind = "install"
    BY <1>2, JobsKeepIo DEF OpErrorJob, StoreErrorJob
  <1>3. CASE job.kind = "failures"
    BY <1>3 DEF OpErrorJob, StoreErrorJob, Idle, Job
  <1>4. CASE job.kind \notin {"install", "failures"}
    BY <1>1, <1>4 DEF OpErrorJob, StoreErrorJob, Idle
  <1>5. QED
    BY <1>2, <1>3, <1>4

\* Executing a job keeps the descriptor exclusive: only the reply that ends an
\* acquisition adds a holder, and then there was none.
LEMMA ExecutionKeepsIo ==
    ASSUME TypeInv, IoInv, Execution
    PROVE  IoInv'
  <1>0. mem \in States /\ job \in Jobs /\ job.final \in States /\ JobOK(job, mem)
    BY DEF TypeInv, JobOK, GoodState, Jobs
  <1>1. CASE Step
    <2>1. UNCHANGED <<disk, mem, boot, alive, holders>>
      BY <1>1 DEF Step
    <2>2. job'.kind = job.kind /\ job'.final.io = job.final.io
      <3> DEFINE op == Head(job.ops)
      <3>1. CASE KernelStep(op)
        BY <1>0, <3>1 DEF KernelStep, Jobs
      <3>2. CASE DeviceStep(op)
        <4>1. job' = [job EXCEPT !.ops = Tail(job.ops),
                                 !.final.ifindex =
                                     IF op.op = "ensure" THEN dev.id ELSE @]
          BY <3>2 DEF DeviceStep
        <4>2. QED
          BY <1>0, <4>1 DEF Jobs, States
      <3>3. QED
        BY <1>1, <3>1, <3>2 DEF Step
    <2>3. QED
      BY <2>1, <2>2 DEF IoInv, Bound
  <1>2. CASE StepRefused \/ OpFails
    <2>1. job' = OpErrorJob /\ UNCHANGED <<disk, mem, boot, alive, holders>>
      BY <1>2 DEF StepRefused, OpFails, envVars
    <2>2. QED
      BY <1>0, <2>1, ErrorsKeepIo DEF IoInv, Bound
  <1>3. CASE Finish
    <2>1. /\ disk' = job.final /\ mem' = job.final
          /\ job' = Continue(job.kind, job.final)
          /\ UNCHANGED <<boot, alive>>
          /\ job.kind # "idle"
      BY <1>3 DEF Finish, envVars
    <2>2. /\ job'.kind # "acquire"
          /\ job'.kind # "idle" => job'.final.io = job.final.io
      BY <1>0, <2>1, ContinueKeepsIo
    <2>3. Bound(job.final)
      BY <2>1 DEF IoInv
    <2>4. CASE holders' = holders
      BY <2>1, <2>2, <2>3, <2>4 DEF IoInv, Bound
    <2>5. CASE /\ job.kind = "acquire"
               /\ job.final.io.proc \in alive
               /\ holders' = holders \cup {job.final.io.proc}
      <3>1. job.final.io # None /\ job.final.io.boot = boot
        BY <1>0, <2>5 DEF JobOK, IoInv
      <3>2. holders' \subseteq {job.final.io.proc} /\ holders' \subseteq alive'
        BY <2>1, <2>3, <2>5 DEF Bound, IoInv
      <3>3. Bound(mem)' /\ Bound(disk)'
        BY <2>1, <3>1, <3>2 DEF Bound
      <3>4. job'.kind # "idle" => Bound(job.final)'
        BY <2>1, <2>2, <3>1, <3>2 DEF Bound
      <3>5. QED
        BY <2>2, <3>2, <3>3, <3>4 DEF IoInv
    <2>6. QED
      BY <1>3, <2>4, <2>5 DEF Finish
  <1>4. CASE StoreFails
    <2>1. /\ job' = StoreErrorJob /\ disk' \in {disk, job.final} /\ job.kind # "idle"
          /\ UNCHANGED <<mem, boot, alive, holders>>
      BY <1>4 DEF StoreFails, envVars
    <2>2. QED
      BY <1>0, <2>1, ErrorsKeepIo DEF IoInv, Bound
  <1>5. CASE UnwindDone
    <2>1. job'.kind = "idle" /\ UNCHANGED <<disk, mem, boot, alive, holders>>
      BY <1>5 DEF UnwindDone, envVars, Idle
    <2>2. QED
      BY <2>1 DEF IoInv, Bound
  <1>6. QED
    BY <1>1, <1>2, <1>3, <1>4, <1>5 DEF Execution

\* Recovery keeps the descriptor with its holder.
LEMMA RecoveryKeepsIo ==
    ASSUME TypeInv, IoInv, Recovery
    PROVE  IoInv'
  <1>0. mem \in States /\ [mem EXCEPT !.cand = None].io = mem.io
    BY DEF TypeInv, GoodState, States
  <1>1. CASE RecoverCreation
    BY <1>0, <1>1, JobsKeepIo, StartKeepsIo DEF RecoverCreation
  <1>2. CASE RecoverCommit
    BY <1>0, <1>2, JobsKeepIo, StartKeepsIo DEF RecoverCommit
  <1>3. CASE RecoverCandidate
    BY <1>0, <1>3, StartKeepsIo DEF RecoverCandidate
  <1>4. CASE RecoverCancelled
    BY <1>0, <1>4, JobsKeepIo, StartKeepsIo DEF RecoverCancelled
  <1>5. CASE RecoverPolicy
    BY <1>0, <1>5, JobsKeepIo, StartKeepsIo DEF RecoverPolicy
  <1>6. CASE RecoverFailures
    BY <1>0, <1>6, JobsKeepIo, StartKeepsIo DEF RecoverFailures
  <1>7. CASE RecoverLapsed
    BY <1>0, <1>7, JobsKeepIo, StartKeepsIo DEF RecoverLapsed
  <1>8. CASE RecoverDone
    BY <1>8 DEF RecoverDone, IoInv, Bound, envVars
  <1>9. QED
    BY <1>1, <1>2, <1>3, <1>4, <1>5, <1>6, <1>7, <1>8 DEF Recovery

\* Infrastructure requests replace or drop the I/O owner only once it is dead.
LEMMA InfrastructureKeepsIo ==
    ASSUME TypeInv, IoInv, Infrastructure
    PROVE  IoInv'
  <1>0. mem \in States
    BY DEF TypeInv, GoodState
  <1>1. ASSUME NEW c \in Callers, InfraEnsure(c)
        PROVE  IoInv'
    <2>1. [CreationIntent(mem) EXCEPT !.admin = c].io = mem.io
      BY <1>0 DEF CreationIntent, States
    <2>2. QED
      BY <1>1, <2>1, StartKeepsIo DEF InfraEnsure
  <1>2. CASE InfraRepair
    BY <1>2, StartFree DEF InfraRepair
  <1>3. ASSUME NEW p \in Procs, NEW e \in 1..MaxIoEpoch, InfraAcquireIoFd(p, e)
        PROVE  IoInv'
    <2> DEFINE st == [mem EXCEPT !.io = [proc |-> p, epoch |-> e, boot |-> boot],
                                 !.ioEpoch = e]
    <2>1. st.io.boot = boot
      BY <1>0 DEF States
    <2>2. Start("acquire", <<>>, st) /\ ~IoAlive(mem)
      BY <1>3 DEF InfraAcquireIoFd
    <2> HIDE DEF st
    <2>3. QED
      BY <2>1, <2>2, StartFree
  <1>4. CASE InfraReleaseIo
    BY <1>4, StartFree DEF InfraReleaseIo
  <1>5. CASE InfraRetire
    BY <1>5, StartFree DEF InfraRetire
  <1>6. QED
    BY <1>1, <1>2, <1>3, <1>4, <1>5 DEF Infrastructure

\* Forwarding requests do not touch the I/O owner.
LEMMA ForwardingKeepsIo ==
    ASSUME TypeInv, IoInv, Ownership \/ Publication
    PROVE  IoInv'
  <1>0. mem \in States
    BY DEF TypeInv, GoodState
  <1>1. ASSUME NEW o, NEW d, PrepareInitial(o, d) \/ PrepareCandidate(o, d)
        PROVE  IoInv'
    <2>1. CASE PrepareInitial(o, d)
      BY <1>0, <2>1, StartKeepsIo DEF PrepareInitial, States
    <2>2. CASE PrepareCandidate(o, d)
      BY <1>0, <2>2, StartKeepsIo DEF PrepareCandidate, States
    <2>3. QED
      BY <1>1, <2>1, <2>2
  <1>2. ASSUME NEW which \in {"fwd", "cand"}, NEW a, ForwardAuthorize(which, a)
        PROVE  IoInv'
    BY <1>0, <1>2, StartKeepsIo DEF ForwardAuthorize, States
  <1>3. ASSUME NEW t, CommitHandoff(t) \/ CommitReplacement(t) \/ CommitInitial(t)
        PROVE  IoInv'
    <2>1. CASE CommitHandoff(t)
      BY <1>0, <2>1, JobsKeepIo, StartKeepsIo DEF CommitHandoff
    <2>2. CASE CommitReplacement(t)
      BY <1>0, <2>2, StartKeepsIo DEF CommitReplacement, States
    <2>3. CASE CommitInitial(t)
      BY <1>0, <2>3, StartKeepsIo DEF CommitInitial, States
    <2>4. QED
      BY <1>3, <2>1, <2>2, <2>3
  <1>4. CASE ForwardGuard
    BY <1>0, <1>4, StartKeepsIo DEF ForwardGuard, States
  <1>5. CASE RevokeCandidate
    BY <1>0, <1>5, StartKeepsIo DEF RevokeCandidate, States
  <1>6. CASE RevokeForward
    BY <1>0, <1>6, JobsKeepIo, StartKeepsIo DEF RevokeForward
  <1>7. ASSUME NEW lease, ForwardLeaseRenew(lease)
        PROVE  IoInv'
    BY <1>0, <1>7, StartKeepsIo DEF ForwardLeaseRenew, States
  <1>8. ASSUME NEW rev, NEW failed, FailuresUpdate(rev, failed)
        PROVE  IoInv'
    BY <1>0, <1>8, StartKeepsIo DEF FailuresUpdate, States
  <1>9. ASSUME NEW which \in {"fwd", "cand"}, NEW rev, NEW failed,
               FailuresRecord(which, rev, failed)
        PROVE  IoInv'
    BY <1>0, <1>9, StartKeepsIo DEF FailuresRecord, States
  <1>10. ASSUME NEW rev, NEW gen, PolicyMetadata(rev, gen)
         PROVE  IoInv'
    BY <1>0, <1>10, StartKeepsIo DEF PolicyMetadata, States
  <1>11. ASSUME NEW rev, NEW gen, NEW target, PolicyUpdate(rev, gen, target)
         PROVE  IoInv'
    BY <1>0, <1>11, StartKeepsIo DEF PolicyUpdate, States
  <1>12. CASE Ownership
    BY <1>1, <1>2, <1>3, <1>4, <1>5, <1>6, <1>7, <1>12 DEF Ownership
  <1>13. CASE Publication
    BY <1>8, <1>9, <1>10, <1>11, <1>13 DEF Publication
  <1>14. QED
    BY <1>12, <1>13

\* The host ends holders with their processes; a new boot has none.
LEMMA HostKeepsIo ==
    ASSUME TypeInv, IoInv, Host
    PROVE  IoInv'
  <1>1. CASE Tick
    BY <1>1 DEF Tick, IoInv, Bound
  <1>2. ASSUME NEW p \in Procs, ProcessExit(p)
        PROVE  IoInv'
    BY <1>2 DEF ProcessExit, IoInv, Bound
  <1>3. CASE Crash
    <2>1. /\ job'.kind = "idle" /\ mem' = disk /\ disk' = disk
          /\ UNCHANGED <<boot, alive, holders>>
      BY <1>3 DEF Crash, Restarted, Idle
    <2>2. QED
      BY <2>1 DEF IoInv, Bound
  <1>4. CASE Reboot
    <2>1. job'.kind = "idle" /\ holders' = {}
      BY <1>4 DEF Reboot, Restarted, Idle
    <2>2. QED
      BY <2>1 DEF IoInv, Bound
  <1>5. CASE LoseDevice
    BY <1>5 DEF LoseDevice, IoInv, Bound, envVars
  <1>6. CASE ForeignDevice
    BY <1>6 DEF ForeignDevice, IoInv, Bound
  <1>7. QED
    BY <1>1, <1>2, <1>3, <1>4, <1>5, <1>6 DEF Host

\* The inductive step for the I/O descriptor.
LEMMA IoStep == TypeInv /\ IoInv /\ [Next]_vars => IoInv'
  <1> SUFFICES ASSUME TypeInv, IoInv, [Next]_vars PROVE IoInv'
    OBVIOUS
  <1>1. CASE UNCHANGED vars
    BY <1>1 DEF vars, IoInv, Bound
  <1>2. CASE Poll
    BY <1>1, <1>2 DEF Poll
  <1>3. QED
    BY <1>1, <1>2, ExecutionKeepsIo, RecoveryKeepsIo, InfrastructureKeepsIo,
       ForwardingKeepsIo, HostKeepsIo DEF Next

\* At most one process ever holds the I/O descriptor, whatever replies are lost,
\* stores fail, processes exit and crashes happen in between.
THEOREM IoExclusiveness == Spec => []IoExclusive
  <1>1. Init => IoInv
    BY DEF Init, IoInv, Bound, Idle
  <1>2. IoInv => IoExclusive
    BY DEF IoInv, Bound, IoExclusive
  <1>3. QED
    BY <1>1, <1>2, IoStep, TypeInvariance, PTL DEF Spec

=============================================================================
