----------------------------- MODULE NetdForward -----------------------------
(***************************************************************************)
(* The independent-infrastructure service of candy-netd (v2.rs): one       *)
(* routing domain, its durable journal, the interface and I/O descriptor   *)
(* it hands out, and the fenced forwarding policy it publishes.            *)
(*                                                                         *)
(* The service is single-threaded.  A request first runs recover_expired,  *)
(* then its handler; both are loops over backend calls that end in one     *)
(* journal write.  A handler is an action that checks its conditions and   *)
(* starts a job: the elementary operations still to execute and the state  *)
(* to persist after them.  Step, OpFails, Finish and StoreFails run the    *)
(* job, so a crash can separate any two writes.  A request the code        *)
(* rejects changes nothing and is no action.                               *)
(***************************************************************************)
EXTENDS NetdKernel

CONSTANTS
    Decls,          \* declarations requests may carry
    Owners,         \* ForwardOwner values that prepare requests may carry
    Callers,        \* caller instances (administrators)
    Procs,          \* process identities: pid and start time
    StoreOutcomes,  \* journal file after a failed store: "kept", "replaced"
    Skew, FreshFor, \* clock::proof_is_fresh tolerances
    MaxTime,        \* bound on the BOOTTIME clock
    MaxRevision,    \* bound on failure revisions
    MaxPolicy,      \* bound on live policy revisions
    MaxIoEpoch,     \* bound on I/O epochs
    MaxSerial,      \* bound on interface indexes and ownership markers
    MaxBoots,       \* bound on host boots
    MaxFaults,      \* bound on failed operations and stores, crashes, losses
    DeviceLoss      \* somebody else may delete the interface

ASSUME BoundAssumption ==
    /\ MaxTime \in Nat /\ MaxRevision \in Nat /\ MaxPolicy \in Nat
    /\ MaxIoEpoch \in Nat /\ MaxSerial \in Nat /\ MaxBoots \in Nat
    /\ MaxFaults \in Nat /\ Skew \in Nat /\ FreshFor \in Nat
    /\ StoreOutcomes \subseteq {"kept", "replaced"}
    /\ DeviceLoss \in BOOLEAN

OwnerRecords ==
    [domain : Nat, gen : Nat, epoch : Nat, token : Nat, auth : Nat, lease : Nat]

ASSUME OwnerAssumption ==
    Owners \subseteq {o \in OwnerRecords : o.token > 0 /\ o.lease <= o.auth}

ASSUME DeclAssumption == Decls \subseteq {d \in Declarations : ValidDecl(d)}

VARIABLES
    disk,     \* the journal file
    mem,      \* InfrastructureService.state
    up,       \* the service runs; FALSE once its journal cannot be loaded
    restart,  \* restart_recovery_pending
    lifefd,   \* the interface lifecycle_fd was opened on, 0 without one
    job,      \* the handler in progress
    kern,     \* kernel objects of the domain
    dev,      \* the interface
    now,      \* BOOTTIME
    boot,     \* boot id
    serial,   \* last interface index or marker drawn
    alive,    \* running processes
    holders,  \* processes that received the I/O descriptor
    proven,   \* history: commits of bound authorities and who ran then
    torn,     \* history: a revocation was cut short after it began
    faults    \* faults injected so far

vars == <<disk, mem, up, restart, lifefd, job, kern, dev, now, boot, serial,
          alive, holders, proven, torn, faults>>
envVars == <<now, boot, serial, alive>>

-----------------------------------------------------------------------------
(* Durable state. *)

Phases == {"Preparing", "Prepared", "Active", "Guarded", "Revoked"}

IoOwners == [proc : Procs, epoch : Nat, boot : Nat]

Authorities == [io : Procs, epoch : Nat, biz : Procs, decl : Declarations]

PendingFailures == [rev : Nat, failed : SUBSET Prefixes]

PendingPolicies ==
    [cancelled : BOOLEAN, rev : Nat, gen : Nat, decl : Declarations]

ForwardRecords ==
    [owner : OwnerRecords, decl : Declarations, phase : Phases,
     failRev : Nat, failed : SUBSET Prefixes,
     pendFailed : PendingFailures \cup {None},
     authority : Authorities \cup {None},
     polRev : Nat, polGen : Nat, pending : PendingPolicies \cup {None}]

ASSUME NoneAssumption ==
    /\ None \notin ForwardRecords /\ None \notin IoOwners
    /\ None \notin PendingFailures /\ None \notin PendingPolicies

States ==
    [admin : Callers \cup {None}, boot : Nat, ifindex : Nat, marker : Nat,
     creating : BOOLEAN, io : IoOwners \cup {None}, ioEpoch : Nat,
     fwd : ForwardRecords \cup {None}, cand : ForwardRecords \cup {None},
     token : Nat, sysctls : BOOLEAN]

\* State::default; `admin` also stands for the immutable InfraSpec, which is
\* written and erased together with it.  Index and marker 0 are None.
NewState ==
    [admin |-> None, boot |-> 0, ifindex |-> 0, marker |-> 0,
     creating |-> FALSE, io |-> None, ioEpoch |-> 0, fwd |-> None,
     cand |-> None, token |-> 0, sysctls |-> FALSE]

\* Faulty variant of NewRecord: the generation stays undefined.
NewRecordWithoutGeneration(o, d, phase) ==
    [owner |-> o, decl |-> d, phase |-> phase, failRev |-> 0, failed |-> {},
     pendFailed |-> None, authority |-> None, polRev |-> 0, polGen |-> None,
     pending |-> None]

\* polGen is policy_generation.unwrap_or(owner.signed_generation).
NewRecord(o, d, phase) ==
    [owner |-> o, decl |-> d, phase |-> phase, failRev |-> 0, failed |-> {},
     pendFailed |-> None, authority |-> None, polRev |-> 0, polGen |-> o.gen,
     pending |-> None]

Devices == [id : Nat, marker : Nat, pinned : BOOLEAN, foreign : BOOLEAN]

ASSUME DeviceAssumption == None \notin Devices

Live(o) == now < o.auth /\ now < o.lease

Max2(a, b) == IF a >= b THEN a ELSE b

IoAlive(st) == st.io # None /\ st.io.boot = boot /\ st.io.proc \in alive

\* identity and verify_device_ownership.
Identity ==
    /\ mem.admin # None
    /\ dev # None
    /\ dev.id = mem.ifindex
    /\ mem.marker # 0 /\ dev.marker = mem.marker

PolicyIdentity(d, t) == d.attr = t.attr /\ d.excl = t.excl /\ d.allow = t.allow

ValidFailures(d, failed) == failed \subseteq d.remote

\* The acceptance test of InfrastructureJournal::load.
LoadableRecord(st, r) ==
    /\ r.owner.lease <= r.owner.auth
    /\ ValidDecl(r.decl)
    /\ ValidFailures(r.decl, r.failed)
    /\ r.pendFailed # None =>
        /\ ValidFailures(r.decl, r.pendFailed.failed)
        /\ r.pendFailed.rev > r.failRev
    /\ r.polGen >= r.owner.gen
    /\ r.pending # None =>
        /\ ValidDecl(r.pending.decl)
        /\ PolicyIdentity(r.decl, r.pending.decl)
        /\ r.pending.rev > r.polRev
        /\ r.pending.gen >= r.polGen
        /\ r.pendFailed = None
        /\ st.cand = None
        /\ r.phase = "Active"

Loadable(st) ==
    /\ st.fwd # None => LoadableRecord(st, st.fwd)
    /\ st.cand # None => LoadableRecord(st, st.cand)

-----------------------------------------------------------------------------
(* Jobs. *)

Idle == [kind |-> "idle", ops |-> <<>>, final |-> NewState]

Job(kind, ops, final) == [kind |-> kind, ops |-> ops, final |-> final]

Committing(st) == st.cand # None /\ st.cand.phase = "Preparing"

\* Faulty variant of FenceOps: only the firewall is removed.
FenceOpsWithoutReject(r) == RemoveFirewall

\* fence_policy_intent: target Local routes must not become throws over an
\* old Remote reject, so the partial target is fenced without them.
FenceOps(r) ==
    RejectForwarding(r.decl)
        \o (IF r.pending = None \/ r.pending.decl.remote = {} THEN <<>>
            ELSE RejectForwarding([r.pending.decl EXCEPT !.local = {}]))
        \o RemoveFirewall
        \o (IF r.pending = None THEN <<>>
            ELSE DiscardLivePolicy(r.decl, r.pending.decl))

Revoked(r) ==
    [r EXCEPT !.phase = "Revoked", !.pendFailed = None, !.pending = None]

Cancelled(st) == [st EXCEPT !.fwd.pending.cancelled = TRUE]

\* Faulty variant of InstallOps: an active owner is not fenced either.
InstallOpsUnfenced(st) ==
    RemoveFirewall
        \o WriteSysctls(st.sysctls, TRUE)
        \o StageFirewall(st.cand.decl)
        \o RemoveStaleForwarding(st.fwd.decl, st.cand.decl)
        \o RestoreForwarding(st.cand.decl, st.cand.failed)

\* install_replacement: a guarded owner keeps its routes until the candidate's
\* replace them; any other owner is fenced first.
InstallOps(st) ==
    LET prev == st.fwd
        cand == st.cand
    IN (IF prev.phase = "Guarded" THEN <<>>
        ELSE RejectForwarding(prev.decl) \o RejectForwarding(cand.decl))
           \o RemoveFirewall
           \o WriteSysctls(st.sysctls, TRUE)
           \o StageFirewall(cand.decl)
           \o RemoveStaleForwarding(prev.decl, cand.decl)
           \o RestoreForwarding(cand.decl, cand.failed)

Committed(st) ==
    [st EXCEPT !.fwd = [st.cand EXCEPT !.phase = "Active"], !.cand = None]

\* Faulty variant of RollbackJob: a guarded owner is rejected like any other.
RollbackJobRejecting(st) ==
    Job("rollback",
        RejectForwarding(st.cand.decl) \o RejectForwarding(st.fwd.decl)
            \o RemoveFirewall \o StageFirewall(st.fwd.decl)
            \o RemoveStaleForwarding(st.cand.decl, st.fwd.decl)
            \o RestoreForwarding(st.fwd.decl, st.fwd.failed),
        [st EXCEPT !.cand = None])

\* Faulty variant of RollbackJob: the candidate is not dropped.
RollbackJobKeepsCandidate(st) ==
    Job("rollback",
        RejectForwarding(st.cand.decl) \o RejectForwarding(st.fwd.decl)
            \o RemoveFirewall \o RemoveStaleForwarding(st.cand.decl, st.fwd.decl),
        [st EXCEPT !.fwd.phase = "Revoked"])

\* rollback_replacement, from the retained commit intent.
RollbackJob(st) ==
    LET prev == st.fwd
        cand == st.cand
        oldLive == /\ prev.phase \in {"Active", "Guarded"}
                   /\ Live(prev.owner)
                   /\ st.boot = boot
    IN Job("rollback",
           (IF prev.phase = "Guarded" /\ oldLive THEN <<>>
            ELSE RejectForwarding(cand.decl) \o RejectForwarding(prev.decl))
               \o RemoveFirewall
               \o (IF oldLive THEN StageFirewall(prev.decl) ELSE <<>>)
               \o RemoveStaleForwarding(cand.decl, prev.decl)
               \o (IF oldLive THEN RestoreForwarding(prev.decl, prev.failed)
                   ELSE <<>>),
           [st EXCEPT !.fwd = IF oldLive THEN prev
                              ELSE [prev EXCEPT !.phase = "Revoked"],
                      !.cand = None])

\* Initial preparation after its intent is durable.  The firewall table of a
\* preparation whose reply was lost is removed before it is staged again.
PrepareJob(st) ==
    Job("prepared",
        WriteSysctls(st.sysctls, TRUE) \o RejectForwarding(st.fwd.decl)
            \o RemoveFirewall \o StageFirewall(st.fwd.decl),
        [st EXCEPT !.fwd.phase = "Prepared"])

FailuresJob(st) ==
    Job("failures",
        UpdateFailedPrefixes(st.fwd.failed, st.fwd.pendFailed.failed),
        [st EXCEPT !.fwd.failed = st.fwd.pendFailed.failed,
                   !.fwd.failRev = st.fwd.pendFailed.rev,
                   !.fwd.pendFailed = None])

\* reconcile_live_policy: failures of prefixes that the target still forwards
\* stay failed.
PolicyJob(st) ==
    LET p == st.fwd.pending
        failed == st.fwd.failed \cap p.decl.remote
    IN Job("policy", UpdateLivePolicy(st.fwd.decl, p.decl, failed),
           [st EXCEPT !.fwd.decl = p.decl, !.fwd.polRev = p.rev,
                      !.fwd.polGen = p.gen, !.fwd.failed = failed,
                      !.fwd.pending = None])

RevokeJob(st) ==
    Job("revoke", FenceOps(st.fwd),
        [st EXCEPT !.fwd = Revoked(st.fwd), !.cand = None])

ExpireJob(st) ==
    Job("expire", FenceOps(st.fwd), [st EXCEPT !.fwd = Revoked(st.fwd)])

DeviceOp(name) == <<[op |-> name]>>

\* Faulty variant of CreateJob: whatever interface exists is stamped.
CreateJobStampsAny(st) ==
    Job("create",
        (IF dev = None THEN DeviceOp("mkdev") ELSE <<>>) \o DeviceOp("stamp")
            \o DeviceOp("open") \o DeviceOp("pin") \o DeviceOp("ensure"),
        [st EXCEPT !.creating = FALSE, !.boot = boot])

\* complete_creation.  An existing interface is only accepted with the
\* journaled marker, otherwise the job has nothing it may execute.
CreateJob(st) ==
    Job("create",
        (IF dev = None THEN DeviceOp("mkdev") \o DeviceOp("stamp")
         ELSE DeviceOp("open"))
            \o DeviceOp("pin") \o DeviceOp("ensure"),
        [st EXCEPT !.creating = FALSE, !.boot = boot])

\* What the handler does after its intent is durable.
Continue(kind, st) ==
    CASE kind = "preparing" -> PrepareJob(st)
      [] kind = "commit" -> Job("install", InstallOps(st), Committed(st))
      [] kind = "failing" -> FailuresJob(st)
      [] kind = "publish" -> PolicyJob(st)
      [] kind = "cancel" -> RevokeJob(st)
      [] kind = "lapse" -> ExpireJob(st)
      [] kind = "intend" -> CreateJob(st)
      [] OTHER -> Idle

\* Best-effort fencing of the retained record.
UnwindJob ==
    IF mem.fwd = None \/ mem.fwd.phase = "Guarded" THEN Idle
    ELSE Job("unwind", RejectForwarding(mem.fwd.decl), mem)

\* The handler's reaction to a failing backend call.
OpErrorJob ==
    CASE job.kind = "install" -> RollbackJob(mem)
      [] job.kind = "activate" -> UnwindJob
      [] job.kind = "failures" /\ Len(job.ops) <= 2 ->
            Job("unwind", GuardChanged(mem.fwd.failed, mem.fwd.pendFailed.failed),
                mem)
      [] OTHER -> Idle

\* The handler's reaction to a failing journal write.  Handlers that leave
\* process() through its last persist fence the retained record.
StoreErrorJob ==
    CASE job.kind = "install" -> RollbackJob(mem)
      [] job.kind \in {"prepared", "activate", "revoke", "settle"} -> UnwindJob
      [] OTHER -> Idle

-----------------------------------------------------------------------------
(* Executing a job. *)

DeviceOps == {"mkdev", "stamp", "open", "pin", "ensure", "rmdev"}

Owned == dev # None /\ mem.marker # 0 /\ dev.marker = mem.marker

Ready(op) ==
    CASE op.op = "mkdev" -> dev = None /\ serial < MaxSerial
      [] op.op = "stamp" -> dev # None
      [] op.op = "open" -> Owned
      [] op.op = "pin" -> Owned /\ lifefd = dev.id
      [] op.op = "ensure" -> dev # None
      [] op.op = "rmdev" -> TRUE
      [] OTHER -> Admissible(op, kern, dev # None)

\* lifecycle_fd, opened on the present interface unless it is held already.
OpenFd == IF lifefd = 0 THEN dev.id ELSE lifefd

\* create_exclusive, stamp_infrastructure_ownership, create_persistent,
\* enable_persistence, ensure_infrastructure, retire_infrastructure.
DeviceStep(op) ==
    /\ op.op \in DeviceOps
    /\ CASE op.op = "mkdev" ->
                /\ serial' = serial + 1
                /\ dev' = [id |-> serial + 1, marker |-> 0, pinned |-> FALSE,
                           foreign |-> FALSE]
         [] op.op = "stamp" ->
                dev' = [dev EXCEPT !.marker = mem.marker] /\ UNCHANGED serial
         [] op.op = "pin" ->
                dev' = [dev EXCEPT !.pinned = TRUE] /\ UNCHANGED serial
         [] op.op = "rmdev" -> dev' = None /\ UNCHANGED serial
         [] OTHER -> UNCHANGED <<dev, serial>>
    /\ kern' = IF op.op = "rmdev" THEN WithoutLink(kern) ELSE kern
    /\ lifefd' = CASE op.op = "mkdev" -> serial + 1
                   [] op.op = "open" -> OpenFd
                   [] op.op = "rmdev" -> 0
                   [] OTHER -> lifefd
    /\ job' = [job EXCEPT !.ops = Tail(job.ops),
                          !.final.ifindex =
                              IF op.op = "ensure" THEN dev.id ELSE @]

KernelStep(op) ==
    /\ op.op \notin DeviceOps
    /\ kern' = Effect(op, Writes(op, kern), kern)
    /\ job' = [job EXCEPT !.ops = Tail(job.ops)]
    /\ UNCHANGED <<dev, serial, lifefd>>

\* A handler or recovery pass is abandoned.
Abandon == torn' = (torn \/ job.kind \in {"revoke", "expire"})

\* The next elementary operation succeeds.
Step ==
    /\ up
    /\ job.ops # <<>>
    /\ Ready(Head(job.ops))
    /\ KernelStep(Head(job.ops)) \/ DeviceStep(Head(job.ops))
    /\ UNCHANGED <<disk, mem, up, restart, now, boot, alive, holders, proven,
                   torn, faults>>

\* It cannot succeed in the state it finds.
StepRefused ==
    /\ up
    /\ job.ops # <<>>
    /\ ~Ready(Head(job.ops))
    /\ job' = OpErrorJob
    /\ Abandon
    /\ UNCHANGED <<disk, mem, up, restart, lifefd, kern, dev, envVars, holders,
                   proven, faults>>

\* It fails half way.  A failing stamp drops the nonpersistent interface.
OpFails ==
    /\ up
    /\ job.ops # <<>>
    /\ faults < MaxFaults
    /\ faults' = faults + 1
    /\ job' = OpErrorJob
    /\ Abandon
    /\ LET op == Head(job.ops)
       IN /\ Ready(op)
          /\ \/ /\ op.op \notin DeviceOps
                /\ \E done \in SUBSET Writes(op, kern) :
                        kern' = Effect(op, done, kern)
                /\ UNCHANGED <<dev, lifefd>>
             \/ /\ op.op \in DeviceOps
                /\ dev' = IF op.op = "stamp" THEN None ELSE dev
                /\ lifefd' = IF op.op = "stamp" THEN 0 ELSE lifefd
                /\ UNCHANGED kern
    /\ UNCHANGED <<disk, mem, up, restart, envVars, holders, proven>>

\* persist: the journal is replaced, then the in-memory state.  The reply that
\* carries the I/O descriptor may be lost.
Finish ==
    /\ up
    /\ job.kind \notin {"idle", "unwind"}
    /\ job.ops = <<>>
    /\ disk' = job.final
    /\ mem' = job.final
    /\ job' = Continue(job.kind, job.final)
    /\ restart' = (restart /\ job.kind # "expire")
    /\ \/ UNCHANGED holders
       \/ /\ job.kind = "acquire"
          /\ job.final.io.proc \in alive
          /\ holders' = holders \cup {job.final.io.proc}
    /\ torn' = (torn /\ job.kind \notin {"prepared", "install", "rollback", "revoke",
                                          "expire"})
    /\ UNCHANGED <<up, lifefd, kern, dev, envVars, proven, faults>>

\* store fails; the file is the old one, or already the new one when only the
\* directory sync after the rename failed.
StoreFails ==
    /\ up
    /\ job.kind \notin {"idle", "unwind"}
    /\ job.ops = <<>>
    /\ faults < MaxFaults
    /\ faults' = faults + 1
    /\ \E outcome \in StoreOutcomes :
            disk' = IF outcome = "replaced" THEN job.final ELSE disk
    /\ job' = StoreErrorJob
    /\ Abandon
    /\ UNCHANGED <<mem, up, restart, lifefd, kern, dev, envVars, holders,
                   proven>>

\* Best-effort cleanup ends without a journal write.
UnwindDone ==
    /\ up
    /\ job.kind = "unwind"
    /\ job.ops = <<>>
    /\ job' = Idle
    /\ UNCHANGED <<disk, mem, up, restart, lifefd, kern, dev, envVars, holders,
                   proven, torn, faults>>

-----------------------------------------------------------------------------
(* recover_expired, run before every request and by the main loop. *)

Start(kind, ops, final) ==
    /\ job' = Job(kind, ops, final)
    /\ UNCHANGED <<disk, mem, up, restart, kern, dev, now, boot, alive, holders,
                   torn, faults>>

Quiet == UNCHANGED <<lifefd, proven, serial>>

Current == mem.fwd # None /\ Live(mem.fwd.owner) /\ mem.boot = boot

NeedDrop ==
    /\ mem.cand # None
    /\ ~Committing(mem)
    /\ restart \/ ~Live(mem.cand.owner)

NeedCancel ==
    mem.fwd # None /\ mem.fwd.pending # None /\ mem.fwd.pending.cancelled

PolicyDue ==
    /\ mem.fwd # None
    /\ mem.fwd.pending # None
    /\ mem.fwd.phase = "Active"
    /\ Current

FailuresDue ==
    /\ mem.fwd # None
    /\ mem.fwd.pendFailed # None
    /\ mem.fwd.phase = "Active"
    /\ Current

\* Faulty variant of Lapsed: deadlines are not looked at.
LapsedByBootOnly ==
    /\ mem.fwd # None
    /\ mem.fwd.phase # "Revoked"
    /\ \/ mem.boot # boot
       \/ restart /\ mem.fwd.phase \in {"Preparing", "Prepared"}

\* An unfinished preparation is ambiguous after a restart.
Lapsed ==
    /\ mem.fwd # None
    /\ mem.fwd.phase # "Revoked"
    /\ \/ ~Current
       \/ restart /\ mem.fwd.phase \in {"Preparing", "Prepared"}

Resting == up /\ job = Idle

CandidateSettled == ~mem.creating /\ ~Committing(mem) /\ ~NeedDrop

RecoverCreation ==
    /\ Resting
    /\ mem.creating
    /\ LET j == CreateJob(mem) IN Start(j.kind, j.ops, j.final)
    /\ Quiet

RecoverCommit ==
    /\ Resting
    /\ ~mem.creating
    /\ Committing(mem)
    /\ LET j == RollbackJob(mem) IN Start(j.kind, j.ops, j.final)
    /\ Quiet

RecoverCandidate ==
    /\ Resting
    /\ ~mem.creating
    /\ NeedDrop
    /\ Start("save", <<>>, [mem EXCEPT !.cand = None])
    /\ Quiet

RecoverCancelled ==
    /\ Resting
    /\ CandidateSettled
    /\ NeedCancel
    /\ LET j == ExpireJob(mem) IN Start(j.kind, j.ops, j.final)
    /\ Quiet

\* Faulty variant of RecoverPolicy: only a restart replays the intent.
RecoverPolicyAtRestart ==
    /\ Resting
    /\ restart
    /\ CandidateSettled
    /\ ~NeedCancel
    /\ PolicyDue
    /\ mem.cand = None /\ mem.fwd.pendFailed = None
    /\ Identity
    /\ LET j == PolicyJob(mem) IN Start(j.kind, j.ops, j.final)
    /\ Quiet

\* Best effort: its failure is logged and the pass goes on.
RecoverPolicy ==
    /\ Resting
    /\ CandidateSettled
    /\ ~NeedCancel
    /\ PolicyDue
    /\ mem.cand = None /\ mem.fwd.pendFailed = None
    /\ Identity
    /\ LET j == PolicyJob(mem) IN Start(j.kind, j.ops, j.final)
    /\ Quiet

RecoverFailures ==
    /\ Resting
    /\ CandidateSettled
    /\ ~NeedCancel
    /\ FailuresDue
    /\ Identity
    /\ LET j == FailuresJob(mem) IN Start(j.kind, j.ops, j.final)
    /\ Quiet

RecoverLapsed ==
    /\ Resting
    /\ CandidateSettled
    /\ ~NeedCancel
    /\ Lapsed
    /\ IF mem.fwd.pending # None THEN Start("lapse", <<>>, Cancelled(mem))
       ELSE LET j == ExpireJob(mem) IN Start(j.kind, j.ops, j.final)
    /\ Quiet

\* The pass reached its end; nothing more is ambiguous about the restart.
RecoverDone ==
    /\ Resting
    /\ CandidateSettled
    /\ ~NeedCancel /\ ~Lapsed
    /\ FailuresDue => Identity
    /\ restart
    /\ restart' = FALSE
    /\ UNCHANGED <<disk, mem, up, lifefd, job, kern, dev, envVars, holders,
                   proven, torn, faults>>

Recovery ==
    \/ RecoverCreation \/ RecoverCommit \/ RecoverCandidate
    \/ RecoverCancelled \/ RecoverPolicy \/ RecoverFailures \/ RecoverLapsed
    \/ RecoverDone

\* A request reaches its handler.  Skipping a best-effort repair is the same
\* as attempting it and failing before the first write.
Serving ==
    /\ Resting
    /\ CandidateSettled
    /\ ~NeedCancel /\ ~Lapsed
    /\ FailuresDue => Identity
    /\ ~restart

\* A pass of the main loop that finds nothing to do.
Poll == Serving /\ UNCHANGED vars

-----------------------------------------------------------------------------
(* Infrastructure requests.  Requests other than InfraEnsure and the          *)
(* descriptor request are rejected unless the retained administrator sends    *)
(* them.                                                                      *)

AdminServing == Serving /\ mem.admin # None

\* The creation intent, with a marker nobody has drawn before.
CreationIntent(st) ==
    [st EXCEPT !.marker = serial + 1, !.creating = TRUE, !.boot = boot]

DrawMarker ==
    /\ serial < MaxSerial
    /\ serial' = serial + 1
    /\ UNCHANGED <<lifefd, proven>>

InfraEnsure(c) ==
    /\ Serving
    /\ mem.admin = None
    /\ dev = None
    /\ DrawMarker
    /\ Start("intend", <<>>, [CreationIntent(mem) EXCEPT !.admin = c])

\* A repeated InfraEnsure finds the interface gone.
InfraRepair ==
    /\ AdminServing
    /\ dev = None
    /\ ~IoAlive(mem)
    /\ DrawMarker
    /\ Start("intend",
             IF mem.fwd = None THEN <<>>
             ELSE RejectForwarding(mem.fwd.decl) \o RemoveFirewall,
             [CreationIntent(mem) EXCEPT
                !.fwd = IF @ = None THEN None ELSE [@ EXCEPT !.phase = "Revoked"],
                !.cand = None, !.ifindex = 0, !.io = None])

\* Faulty variant of InfraAcquireIoFd: a live holder is not looked for.
InfraAcquireIoFdAnyway(p, epoch) ==
    /\ Serving
    /\ Identity
    /\ epoch > mem.ioEpoch
    /\ p \in alive
    /\ Start("acquire", <<>>,
             [mem EXCEPT !.io = [proc |-> p, epoch |-> epoch, boot |-> boot],
                         !.ioEpoch = epoch])
    /\ lifefd' = OpenFd
    /\ UNCHANGED <<proven, serial>>

InfraAcquireIoFd(p, epoch) ==
    /\ Serving
    /\ Identity
    /\ ~IoAlive(mem)
    /\ epoch > mem.ioEpoch
    /\ p \in alive
    /\ Start("acquire", <<>>,
             [mem EXCEPT !.io = [proc |-> p, epoch |-> epoch, boot |-> boot],
                         !.ioEpoch = epoch])
    /\ lifefd' = OpenFd
    /\ UNCHANGED <<proven, serial>>

InfraReleaseIo ==
    /\ AdminServing
    /\ Identity
    /\ mem.io # None
    /\ ~IoAlive(mem)
    /\ Start("settle", <<>>, [mem EXCEPT !.io = None])
    /\ Quiet

\* Faulty variant of InfraRetire: the sysctls are not restored.
InfraRetireKeepsSysctls ==
    /\ AdminServing
    /\ Identity
    /\ ~IoAlive(mem)
    /\ mem.fwd # None => mem.fwd.phase = "Revoked"
    /\ Start("retire",
             (IF mem.fwd = None THEN <<>>
              ELSE RetireForwarding(kern, mem.fwd.decl)) \o DeviceOp("rmdev"),
             NewState)
    /\ Quiet

InfraRetire ==
    /\ AdminServing
    /\ Identity
    /\ ~IoAlive(mem)
    /\ mem.fwd # None => mem.fwd.phase = "Revoked"
    /\ Start("retire",
             (IF mem.fwd = None THEN <<>>
              ELSE RetireForwarding(kern, mem.fwd.decl)
                       \o WriteSysctls(mem.sysctls, FALSE))
                 \o DeviceOp("rmdev"),
             NewState)
    /\ Quiet

-----------------------------------------------------------------------------
(* Forwarding requests. *)

NoRepairPending ==
    mem.fwd # None => mem.fwd.pendFailed = None /\ mem.fwd.pending = None

\* The first preparation of the domain, or its repetition after a lost reply.
PrepareInitial(o, d) ==
    /\ AdminServing
    /\ Identity
    /\ Live(o)
    /\ mem.cand = None
    /\ \/ mem.fwd = None /\ Preflight(kern, d)
       \/ /\ mem.fwd # None
          /\ mem.fwd.phase = "Preparing"
          /\ mem.fwd.owner = o
          /\ mem.fwd.decl = d
    /\ NoRepairPending
    /\ Start("preparing", <<>>,
             [mem EXCEPT !.fwd = NewRecord(o, d, "Preparing"),
                         !.token = o.token,
                         !.sysctls = IF mem.fwd = None THEN ~kern.sysctl ELSE @])
    /\ Quiet

\* Faulty variants of Succeeds: an equal token is accepted; generation and
\* epoch may go back.
SucceedsOnEqualToken(o, d, prev) ==
    /\ o.domain = prev.owner.domain
    /\ o.gen >= prev.owner.gen
    /\ o.gen = prev.owner.gen => d = prev.decl
    /\ o.epoch >= prev.owner.epoch
    /\ o.token >= Max2(prev.owner.token, mem.token)

SucceedsByTokenOnly(o, d, prev) ==
    /\ o.domain = prev.owner.domain
    /\ o.gen = prev.owner.gen => d = prev.decl
    /\ o.token > Max2(prev.owner.token, mem.token)

\* The owner may replace the retained one.
Succeeds(o, d, prev) ==
    /\ o.domain = prev.owner.domain
    /\ o.gen >= prev.owner.gen
    /\ o.gen = prev.owner.gen => d = prev.decl
    /\ o.epoch >= prev.owner.epoch
    /\ o.token > Max2(prev.owner.token, mem.token)

\* A candidate beside a retained policy: journaled only.
PrepareCandidate(o, d) ==
    /\ AdminServing
    /\ Identity
    /\ Live(o)
    /\ mem.cand = None
    /\ mem.fwd # None
    /\ mem.fwd.phase \in {"Active", "Guarded", "Revoked"}
    /\ Succeeds(o, d, mem.fwd)
    /\ d.attr = mem.fwd.decl.attr
    /\ NoRepairPending
    /\ ReplacementValid(kern, mem.fwd.decl)
    /\ Start("save", <<>>, [mem EXCEPT !.cand = NewRecord(o, d, "Prepared"),
                                       !.token = o.token])
    /\ Quiet

\* Binds a prepared record to the I/O process that will apply it.
ForwardAuthorize(which, a) ==
    /\ AdminServing
    /\ mem[which] # None
    /\ mem[which].phase = "Prepared"
    /\ Live(mem[which].owner)
    /\ IoAlive(mem)
    /\ a.io = mem.io.proc /\ a.epoch = mem.io.epoch
    /\ a.decl = mem[which].decl
    /\ mem[which].authority \in {None, a}
    /\ Start("settle", <<>>, [mem EXCEPT ![which].authority = a])
    /\ Quiet

Fresh(reported) == reported <= now + Skew /\ now <= reported + FreshFor

\* Faulty variant of ReceiptAccepted: the I/O holder is not compared.
ReceiptAcceptedFromAnyIo(a, reported) == Fresh(reported) /\ a.biz \in alive

\* ForwardCommitAuthorized's acceptance of the receipt for an authority.
ReceiptAccepted(a, reported) ==
    /\ IoAlive(mem)
    /\ a.io = mem.io.proc /\ a.epoch = mem.io.epoch
    /\ Fresh(reported)
    /\ a.biz \in alive

\* ForwardCommit only passes a record that no authority was bound to.
CommitAccepted(r, reported) ==
    \/ r.authority = None /\ UNCHANGED proven
    \/ /\ r.authority # None
       /\ ReceiptAccepted(r.authority, reported)
       /\ proven' = proven \cup
            {[token |-> r.owner.token, epoch |-> mem.ioEpoch, alive |-> alive]}

CommitRequest(r, reported) ==
    /\ AdminServing
    /\ Identity
    /\ r # None
    /\ Live(r.owner)
    /\ NoRepairPending
    /\ CommitAccepted(r, reported)
    /\ UNCHANGED <<lifefd, serial>>

\* Only the owner changes: the kernel policy stays.
HandoffOnly(prev, cand) ==
    /\ prev.phase = "Active"
    /\ cand.decl = prev.decl
    /\ cand.failed = prev.failed

CommitHandoff(reported) ==
    /\ CommitRequest(mem.cand, reported)
    /\ ReplacementValid(kern, mem.fwd.decl)
    /\ HandoffOnly(mem.fwd, mem.cand)
    /\ Start("save", <<>>, Committed(mem))

\* Faulty variant of CommitReplacement: no commit intent is recorded.
CommitReplacementWithoutIntent(reported) ==
    /\ CommitRequest(mem.cand, reported)
    /\ ReplacementValid(kern, mem.fwd.decl)
    /\ ~HandoffOnly(mem.fwd, mem.cand)
    /\ Start("commit", <<>>, mem)

CommitReplacement(reported) ==
    /\ CommitRequest(mem.cand, reported)
    /\ ReplacementValid(kern, mem.fwd.decl)
    /\ ~HandoffOnly(mem.fwd, mem.cand)
    /\ Start("commit", <<>>, [mem EXCEPT !.cand.phase = "Preparing"])

CommitInitial(reported) ==
    /\ CommitRequest(mem.fwd, reported)
    /\ mem.fwd.phase = "Prepared"
    /\ Start("activate", RestoreForwarding(mem.fwd.decl, mem.fwd.failed),
             [mem EXCEPT !.fwd.phase = "Active"])

ForwardGuard ==
    /\ AdminServing
    /\ mem.fwd # None
    /\ mem.fwd.phase = "Active"
    /\ Live(mem.fwd.owner)
    /\ mem.fwd.pending = None
    /\ Start("save", <<>>, [mem EXCEPT !.fwd.phase = "Guarded"])
    /\ Quiet

\* Faulty variant of RevokeCandidate: the cancelled token is given back.
RevokeCandidateForgetful ==
    /\ AdminServing
    /\ mem.cand # None
    /\ Start("save", <<>>, [mem EXCEPT !.cand = None, !.token = mem.fwd.owner.token])
    /\ Quiet

RevokeCandidate ==
    /\ AdminServing
    /\ mem.cand # None
    /\ Start("save", <<>>, [mem EXCEPT !.cand = None])
    /\ Quiet

\* A pending policy is first cancelled durably.
RevokeForward ==
    /\ AdminServing
    /\ mem.fwd # None
    /\ IF mem.fwd.pending # None THEN Start("cancel", <<>>, Cancelled(mem))
       ELSE LET j == RevokeJob(mem) IN Start(j.kind, j.ops, j.final)
    /\ Quiet

ForwardLeaseRenew(lease) ==
    /\ AdminServing
    /\ mem.fwd # None
    /\ mem.fwd.phase # "Revoked"
    /\ lease >= mem.fwd.owner.lease
    /\ lease <= mem.fwd.owner.auth
    /\ Live([mem.fwd.owner EXCEPT !.lease = lease])
    /\ Start("settle", <<>>, [mem EXCEPT !.fwd.owner.lease = lease])
    /\ Quiet

FailuresRequest(r, rev, failed) ==
    /\ AdminServing
    /\ Identity
    /\ r # None
    /\ Live(r.owner)
    /\ ValidFailures(r.decl, failed)
    /\ mem.fwd.pending = None
    /\ r.pendFailed = None
    /\ rev > r.failRev
    /\ Quiet

\* Routes need not change.
FailuresRecord(which, rev, failed) ==
    /\ FailuresRequest(mem[which], rev, failed)
    /\ \/ mem[which].phase = "Prepared"
       \/ mem[which].phase = "Active" /\ failed = mem[which].failed
    /\ Start("save", <<>>, [mem EXCEPT ![which].failed = failed,
                                       ![which].failRev = rev])

FailuresUpdate(rev, failed) ==
    /\ FailuresRequest(mem.fwd, rev, failed)
    /\ mem.fwd.phase = "Active"
    /\ failed # mem.fwd.failed
    /\ Start("failing", <<>>,
             [mem EXCEPT !.fwd.pendFailed = [rev |-> rev, failed |-> failed]])

\* Faulty variant of PolicyRequest: a candidate may be retained.
PolicyRequestBesideCandidate(rev, gen, target) ==
    /\ AdminServing
    /\ Identity
    /\ mem.fwd # None
    /\ mem.fwd.phase = "Active"
    /\ Live(mem.fwd.owner)
    /\ NoRepairPending
    /\ PolicyIdentity(mem.fwd.decl, target)
    /\ rev > mem.fwd.polRev
    /\ gen >= mem.fwd.polGen
    /\ Quiet

PolicyRequest(rev, gen, target) ==
    /\ AdminServing
    /\ Identity
    /\ mem.cand = None
    /\ mem.fwd # None
    /\ mem.fwd.phase = "Active"
    /\ Live(mem.fwd.owner)
    /\ NoRepairPending
    /\ PolicyIdentity(mem.fwd.decl, target)
    /\ rev > mem.fwd.polRev
    /\ gen >= mem.fwd.polGen
    /\ Quiet

PolicyMetadata(rev, gen) ==
    /\ PolicyRequest(rev, gen, mem.fwd.decl)
    /\ Start("save", <<>>,
             [mem EXCEPT !.fwd.polRev = rev, !.fwd.polGen = gen])

PolicyUpdate(rev, gen, target) ==
    /\ PolicyRequest(rev, gen, target)
    /\ target # mem.fwd.decl
    /\ ReplacementValid(kern, mem.fwd.decl)
    /\ Start("publish", <<>>,
             [mem EXCEPT !.fwd.pending = [cancelled |-> FALSE, rev |-> rev,
                                          gen |-> gen, decl |-> target]])

-----------------------------------------------------------------------------
(* The host. *)

\* A handler reads the clock once, so time passes between handlers.
Tick ==
    /\ job = Idle
    /\ now < MaxTime
    /\ now' = now + 1
    /\ UNCHANGED <<disk, mem, up, restart, lifefd, job, kern, dev, boot, serial,
                   alive, holders, proven, torn, faults>>

ProcessExit(p) ==
    /\ p \in alive
    /\ alive' = alive \ {p}
    /\ holders' = holders \ {p}
    /\ UNCHANGED <<disk, mem, up, restart, lifefd, job, kern, dev, now, boot,
                   serial, proven, torn, faults>>

\* The service is started from its journal.
Restarted ==
    /\ job' = Idle
    /\ mem' = disk
    /\ up' = Loadable(disk)
    /\ restart' = TRUE
    /\ lifefd' = 0
    /\ UNCHANGED <<disk, serial, alive, proven>>

\* An interface that is not persistent dies with its descriptor.
Crash ==
    /\ up
    /\ faults < MaxFaults
    /\ faults' = faults + 1
    /\ dev' = IF dev # None /\ ~dev.pinned /\ ~dev.foreign THEN None ELSE dev
    /\ Restarted
    /\ Abandon
    /\ UNCHANGED <<kern, now, boot, holders>>

\* Process identities of the old boot may be seen again in the new one.
Reboot ==
    /\ boot < MaxBoots
    /\ boot' = boot + 1
    /\ now' = 0
    /\ kern' = CleanKernel
    /\ dev' = None
    /\ holders' = {}
    /\ Restarted
    /\ torn' = FALSE
    /\ UNCHANGED faults

\* Somebody else deletes the interface, or creates one of the same name.
LoseDevice ==
    /\ DeviceLoss
    /\ dev # None
    /\ faults < MaxFaults
    /\ faults' = faults + 1
    /\ dev' = None
    /\ kern' = WithoutLink(kern)
    /\ UNCHANGED <<disk, mem, up, restart, lifefd, job, envVars, holders, proven,
                   torn>>

ForeignDevice ==
    /\ dev = None
    /\ faults < MaxFaults
    /\ serial < MaxSerial
    /\ faults' = faults + 1
    /\ serial' = serial + 1
    /\ dev' = [id |-> serial + 1, marker |-> 0, pinned |-> TRUE, foreign |-> TRUE]
    /\ UNCHANGED <<disk, mem, up, restart, lifefd, job, kern, now, boot, alive,
                   holders, proven, torn>>

-----------------------------------------------------------------------------
Init ==
    /\ disk = NewState
    /\ mem = NewState
    /\ up = TRUE
    /\ restart = TRUE
    /\ lifefd = 0
    /\ job = Idle
    /\ kern = CleanKernel
    /\ dev = None
    /\ now = 0
    /\ boot = 1
    /\ serial = 0
    /\ alive = Procs
    /\ holders = {}
    /\ proven = {}
    /\ torn = FALSE
    /\ faults = 0

Infrastructure ==
    \/ \E c \in Callers : InfraEnsure(c)
    \/ InfraRepair
    \/ \E p \in Procs, e \in 1..MaxIoEpoch : InfraAcquireIoFd(p, e)
    \/ InfraReleaseIo
    \/ InfraRetire

Ownership ==
    \/ \E o \in Owners, d \in Decls : PrepareInitial(o, d) \/ PrepareCandidate(o, d)
    \/ \E which \in {"fwd", "cand"}, io, biz \in Procs, e \in 1..MaxIoEpoch,
          d \in Decls :
            ForwardAuthorize(which,
                [io |-> io, epoch |-> e, biz |-> biz, decl |-> d])
    \/ \E t \in 0..MaxTime :
            CommitHandoff(t) \/ CommitReplacement(t) \/ CommitInitial(t)
    \/ ForwardGuard
    \/ RevokeCandidate
    \/ RevokeForward
    \/ \E lease \in 0..MaxTime : ForwardLeaseRenew(lease)

Publication ==
    \/ \E rev \in 1..MaxRevision, failed \in SUBSET Prefixes :
            \/ FailuresUpdate(rev, failed)
            \/ \E which \in {"fwd", "cand"} : FailuresRecord(which, rev, failed)
    \/ \E rev \in 1..MaxPolicy, gen \in {o.gen : o \in Owners} :
            \/ PolicyMetadata(rev, gen)
            \/ \E target \in Decls : PolicyUpdate(rev, gen, target)

Execution == Step \/ StepRefused \/ OpFails \/ Finish \/ StoreFails \/ UnwindDone

Host ==
    \/ Tick
    \/ \E p \in Procs : ProcessExit(p)
    \/ Crash \/ Reboot \/ LoseDevice \/ ForeignDevice

Next ==
    \/ Execution \/ Recovery \/ Poll
    \/ Infrastructure \/ Ownership \/ Publication
    \/ Host

Spec == Init /\ [][Next]_vars

\* The main loop runs recover_expired every 100 ms and never abandons a
\* handler; time passes whatever the service does.
Fairness ==
    /\ WF_vars(Step \/ StepRefused \/ Finish \/ UnwindDone)
    /\ WF_vars(Recovery)
    /\ SF_vars(Tick)

FairSpec == Spec /\ Fairness

-----------------------------------------------------------------------------
(* Properties. *)

\* Every variable keeps its type; job and journal hold well-formed states.
TypeOK ==
    /\ disk \in States /\ mem \in States /\ job.final \in States
    /\ up \in BOOLEAN /\ restart \in BOOLEAN /\ torn \in BOOLEAN
    /\ kern \in Kernels
    /\ dev \in Devices \cup {None}
    /\ lifefd \in Nat /\ now \in Nat /\ boot \in Nat /\ serial \in Nat /\ faults \in Nat
    /\ alive \subseteq Procs /\ holders \subseteq Procs
    /\ proven \subseteq [token : Nat, epoch : Nat, alive : SUBSET Procs]

\* The declarations whose routes a journaled state may have put in the kernel.
Intended(st) ==
    IF st.fwd = None THEN {}
    ELSE (IF st.fwd.phase = "Revoked" THEN {} ELSE {st.fwd.decl})
            \cup (IF Committing(st) THEN {st.fwd.decl, st.cand.decl} ELSE {})
            \cup (IF st.fwd.phase = "Active" /\ st.fwd.pending # None
                  THEN {st.fwd.pending.decl} ELSE {})

\* A route that forwards into the interface, and a firewall table, are always
\* covered by an unrevoked record of the journal, so that a restart at any
\* point knows what to fence ("Persist intent before privileged mutations").
ForwardingIsJournaled ==
    /\ \A p \in Prefixes : kern.route[p] = "unicast" =>
            \E d \in Intended(disk) : p \in d.remote
    /\ kern.fw # None => kern.fw \in Intended(disk)

\* No request is handled while routes of an expired owner, or of an owner of
\* an earlier boot, still forward: recover_expired fenced them first.
ExpiredNeverForwards ==
    Serving /\ (\E p \in Prefixes : kern.route[p] = "unicast") => Current

Settled == /\ Serving
           /\ Identity
           /\ mem.fwd # None
           /\ mem.fwd.phase \in {"Active", "Guarded"}
           /\ mem.fwd.pendFailed = None /\ mem.fwd.pending = None

Planned(r, p) ==
    CASE p \in r.failed -> "unreachable"
      [] p \in r.decl.remote \ r.failed -> "unicast"
      [] p \in Throws(r.decl) -> "throw"
      [] OTHER -> "none"

\* Between requests the kernel of an active owner holds exactly its plan,
\* whatever was rolled back or replayed before; a fault in a revocation or a
\* journal write may only have left it more closed: Remote prefixes rejected,
\* the firewall table gone.
ActiveMatchesKernel ==
    Settled =>
        /\ kern.fw = mem.fwd.decl \/ (faults > 0 /\ kern.fw = None)
        /\ kern.rule = Sel(mem.fwd.decl)
        /\ \A p \in Prefixes :
            \/ kern.route[p] = Planned(mem.fwd, p)
            \/ /\ faults > 0
               /\ p \in mem.fwd.decl.remote
               /\ kern.route[p] = "unreachable"

\* Packets are only forwarded through the firewall table.  The exceptions are
\* the commit over a guarded owner, whose I/O is quiesced meanwhile, and an
\* owner that is used further after its revocation was cut short.
ForwardingIsFiltered ==
    (\E p \in Prefixes : kern.route[p] = "unicast") /\ kern.fw = None /\ ~torn
        => Committing(disk) /\ disk.fwd.phase = "Guarded"

\* The declarations in force: a step may be anywhere between them.
InForce ==
    {mem.fwd.decl}
        \cup (IF Committing(mem) THEN {mem.cand.decl} ELSE {})
        \cup (IF mem.fwd.pending # None THEN {mem.fwd.pending.decl} ELSE {})

\* While a policy is retained, traffic to a Remote prefix of every declaration
\* in force is forwarded or rejected, never left to the main table: its route
\* and its selectors survive commit, rollback, publication and crashes
\* ("retains fail-closed steering instead of falling through main").
NoFallthrough ==
    Identity /\ mem.fwd # None /\ mem.fwd.phase \in {"Prepared", "Active", "Guarded"} =>
        /\ \A p \in Prefixes :
            (\A d \in InForce : p \in d.remote)
                => kern.route[p] \in {"unicast", "unreachable"}
        /\ \A s \in Sel(mem.fwd.decl) :
            (\A d \in InForce : s \in Sel(d)) => s \in kern.rule

\* A prefix that the retained record and its pending snapshot both report as
\* failed never gets a forwarding route back.
FailedNeverForwards ==
    mem.fwd # None /\ mem.fwd.phase \in {"Active", "Guarded"} /\ ~Committing(mem) =>
        \A p \in mem.fwd.failed :
            mem.fwd.pendFailed = None \/ p \in mem.fwd.pendFailed.failed
                => kern.route[p] # "unicast"

\* Fencing tokens order the records of one journal.
TokenOrder(st) ==
    /\ st.fwd # None => st.fwd.owner.token <= st.token
    /\ st.cand # None =>
        /\ st.fwd # None
        /\ st.fwd.owner.token < st.cand.owner.token
        /\ st.cand.owner.token <= st.token

\* The durable fencing token dominates every journaled owner, and a candidate
\* outranks the owner it would replace, in memory and on disk.
TokensDominate == TokenOrder(mem) /\ TokenOrder(disk)

\* The fencing tokens of the records a state holds.
Tokens(st) == {r.owner.token : r \in {st.fwd, st.cand} \ {None}}

\* A fencing token is used once ("Candidate cancellation or expiry consumes
\* its fence"): while the domain exists no step, be it a cancellation, an
\* expiry, a store that failed before or after its rename, a rollback or a
\* restart, lowers the token that is remembered, and an owner or a candidate
\* that was not there before has a larger one.  Every token held is remembered
\* (TokensDominate), so one that went away never comes back.
FenceConsumed ==
    [][mem'.admin # None =>
        /\ mem'.token >= mem.token
        /\ \A t \in Tokens(mem') \ Tokens(mem) : t > mem.token]_vars

\* A replaced owner is never followed by an older one, and one owner's
\* revisions and lease never go back, across commits, rollbacks and restarts.
OwnerAdvances ==
    [][mem.fwd # None /\ mem'.fwd # None =>
        LET old == mem.fwd
            new == mem'.fwd
        IN IF new.owner.token = old.owner.token
           THEN /\ new.owner.lease >= old.owner.lease
                /\ new.failRev >= old.failRev
                /\ new.polRev >= old.polRev /\ new.polGen >= old.polGen
           ELSE /\ new.owner.token > old.owner.token
                /\ new.owner.gen >= old.owner.gen
                /\ new.owner.epoch >= old.owner.epoch]_vars

\* At most one process holds the I/O descriptor ("never create a second
\* reader"), across lost replies, restarts and device repair.
IoExclusive == \A p, q \in holders : p = q

\* The service never takes an interface for its own that it did not create,
\* and the descriptor it hands out belongs to the interface in its journal.
NoForeignAdoption ==
    Identity => ~dev.foreign /\ lifefd \in {0, dev.id}

\* An owner with a bound authority is only active after a commit that found
\* the authority's I/O process holding the descriptor and its business
\* process running.
ActivationProven ==
    LET r == mem.fwd
    IN r # None /\ r.phase = "Active" /\ r.authority # None =>
        \E h \in proven : /\ h.token = r.owner.token
                          /\ h.epoch = r.authority.epoch
                          /\ {r.authority.io, r.authority.biz} \subseteq h.alive

\* A retired domain leaves no route, rule, table, sysctl change or interface.
RetiredLeavesNothing ==
    mem.admin = None /\ job = Idle =>
        kern = CleanKernel /\ (dev # None => dev.foreign)

\* A publication or a failure snapshot, cut short anywhere, neither opens a
\* failed prefix, nor leaves an undisturbed owner with another plan, nor lets
\* traffic fall through to the main table.
PublicationSound == FailedNeverForwards /\ ActiveMatchesKernel /\ NoFallthrough

\* From creation intent to retirement the service touches its own interface
\* only, and all of it (InfraEnsure, InfraRetire).
DeviceOwnership == NoForeignAdoption /\ RetiredLeavesNothing

\* Prefixes that two policies both forward.
Shared(r, s) == (r.decl.remote \ r.failed) \cap (s.decl.remote \ s.failed)

\* Replacing a guarded live owner, or rolling that replacement back, never
\* interrupts a prefix that both policies forward ("Never inject a transient
\* reject route before restoring the retained plan").
GuardedUndisturbed ==
    [][/\ Committing(mem)
       /\ mem.fwd.phase = "Guarded" /\ Live(mem.fwd.owner) /\ mem.boot = boot
       /\ dev' # None
       => \A p \in Shared(mem.fwd, mem.cand) :
            kern.route[p] = "unicast" => kern'.route[p] = "unicast"]_vars

\* Publishing a live policy never interrupts a prefix that stays forwarded.
PublicationUndisturbed ==
    [][job.kind = "policy" /\ dev' # None
       => \A p \in (mem.fwd.decl.remote \cap mem.fwd.pending.decl.remote)
                       \ mem.fwd.failed :
            kern.route[p] = "unicast" => kern'.route[p] = "unicast"]_vars

\* Whatever the service writes, a restarted service accepts.
JournalLoadable == Loadable(disk)

\* The commit intent stays durable until the rollback is complete.
CommitIntentKept == job.kind = "rollback" => Committing(disk)

\* What the kernel does is what the journal says, through every interrupted
\* commit, rollback, revocation and repair: only journaled owners that have
\* not expired forward, behind their filter, an undisturbed owner has exactly
\* its plan, nothing falls through to the main table, and a rollback can be
\* found again (install_replacement, rollback_replacement, recover_expired).
KernelSound ==
    /\ ForwardingIsJournaled /\ ExpiredNeverForwards /\ ForwardingIsFiltered
    /\ ActiveMatchesKernel /\ NoFallthrough /\ CommitIntentKept

\* An owner that expired, or whose boot ended, is eventually revoked and
\* nothing forwards any more.
ExpiryFences ==
    (mem.fwd # None /\ ~Current)
        ~> (mem.fwd = None \/ mem.fwd.phase = "Revoked" \/ Current)

\* A commit intent is eventually resolved one way or the other.
CommitResolves == Committing(mem) ~> ~Committing(mem)

\* The repair of an active owner's routes completes: recovery replays the
\* journaled failure snapshot or policy until it is applied, unless a
\* revocation that was cut short has taken the firewall table away.
RepairsConverge ==
    (mem.fwd # None /\ mem.fwd.phase = "Active" /\ ~NoRepairPending)
        ~> (\/ mem.fwd = None \/ mem.fwd.phase # "Active" \/ NoRepairPending
            \/ torn)

=============================================================================
