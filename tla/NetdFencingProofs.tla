-------------------------- MODULE NetdFencingProofs --------------------------
(***************************************************************************)
(* What the service may never undo: the action properties FenceConsumed    *)
(* and OwnerAdvances of NetdForward, what it may never skip: the evidence  *)
(* of ActivationProven, and what it may never take: an interface it did    *)
(* not create.  For every value of the constants.                          *)
(*                                                                         *)
(* Memory changes in two ways only: it becomes the state a job has just    *)
(* journaled, or, after a restart, what the journal holds.  The first two  *)
(* follow once every state that may become current is known to follow the  *)
(* one in memory, the third once each of them has its evidence.  The last  *)
(* needs that nobody else deletes the interface.                           *)
(***************************************************************************)
EXTENDS NetdForwardProofs

-----------------------------------------------------------------------------
(* The invariant. *)

\* Pending work of a record only moves its revisions forward.
RecordSound(r) ==
    /\ r.pendFailed # None => r.pendFailed.rev >= r.failRev
    /\ r.pending # None => r.pending.rev >= r.polRev /\ r.pending.gen >= r.polGen

\* A preparation that may be repeated has nothing to lose yet.
Untouched(r) ==
    /\ r.failRev = 0 /\ r.polRev = 0 /\ r.polGen = r.owner.gen
    /\ r.pendFailed = None /\ r.pending = None

Sound(st) ==
    /\ st.fwd # None =>
        /\ RecordSound(st.fwd)
        /\ st.fwd.phase = "Preparing" =>
              Untouched(st.fwd) /\ st.token = st.fwd.owner.token
    /\ st.fwd = None => st.token = 0
    /\ st.cand # None =>
        /\ st.fwd # None
        /\ RecordSound(st.cand)
        /\ st.cand.owner.gen >= st.fwd.owner.gen
        /\ st.cand.owner.epoch >= st.fwd.owner.epoch

\* One owner's record moves forward, or a later owner takes over.
Advances(old, new) ==
    IF new.owner.token = old.owner.token
    THEN /\ new.owner.lease >= old.owner.lease
         /\ new.failRev >= old.failRev
         /\ new.polRev >= old.polRev /\ new.polGen >= old.polGen
    ELSE /\ new.owner.token > old.owner.token
         /\ new.owner.gen >= old.owner.gen
         /\ new.owner.epoch >= old.owner.epoch

\* No token is forgotten, and one not held before is new.
Fenced(old, new) ==
    new.admin # None =>
        /\ new.token >= old.token
        /\ \A t \in Tokens(new) \ Tokens(old) : t > old.token

Follows(old, new) ==
    /\ Fenced(old, new)
    /\ old.fwd # None /\ new.fwd # None => Advances(old.fwd, new.fwd)

\* The states that memory may become follow the one it holds.
FencingInv ==
    /\ Sound(mem) /\ Sound(disk) /\ Sound(job.final)
    /\ Follows(mem, disk) /\ Follows(mem, job.final)

-----------------------------------------------------------------------------
(* Edits of a state. *)

\* The numbers of a record are numbers.
LEMMA RecordNumbers ==
    ASSUME NEW r \in ForwardRecords
    PROVE  /\ r.owner.token \in Nat /\ r.owner.gen \in Nat /\ r.owner.epoch \in Nat
           /\ r.owner.lease \in Nat
           /\ r.failRev \in Nat /\ r.polRev \in Nat /\ r.polGen \in Nat
           /\ r.pendFailed # None => r.pendFailed.rev \in Nat
           /\ r.pending # None => r.pending.rev \in Nat /\ r.pending.gen \in Nat
  BY DEF ForwardRecords, OwnerRecords, PendingFailures, PendingPolicies

\* Keeping the remembered token and holding no other ones keeps the fence.
LEMMA KeepsTokens ==
    ASSUME NEW st, GoodState(st), NEW nx, nx.token = st.token,
           \A r \in {nx.fwd, nx.cand} \ {None} :
              \E q \in {st.fwd, st.cand} \ {None} : r.owner.token = q.owner.token
    PROVE  Fenced(st, nx)
  <1>1. st.token \in Nat
    BY DEF GoodState, States
  <1>2. Tokens(nx) \subseteq Tokens(st)
    BY DEF Tokens
  <1>3. QED
    BY <1>1, <1>2 DEF Fenced

\* A state follows itself, also without its candidate.
LEMMA KeepsRecords ==
    ASSUME NEW st, GoodState(st), Sound(st),
           NEW nx, nx.fwd = st.fwd, nx.cand \in {st.cand, None}, nx.token = st.token
    PROVE  Sound(nx) /\ Follows(st, nx)
  <1>1. st.fwd # None => st.fwd \in ForwardRecords
    BY RecordTypes
  <1>2. st.fwd # None => Advances(st.fwd, st.fwd)
    BY <1>1, RecordNumbers DEF Advances
  <1>3. Fenced(st, nx)
    BY KeepsTokens
  <1>4. QED
    BY <1>2, <1>3 DEF Sound, Follows

\* The same owner with its lease and revisions no older.
Successor(r, s) ==
    /\ s.owner.token = r.owner.token
    /\ s.owner.gen = r.owner.gen
    /\ s.owner.epoch = r.owner.epoch
    /\ s.owner.lease >= r.owner.lease
    /\ s.failRev >= r.failRev
    /\ s.polRev >= r.polRev
    /\ s.polGen >= r.polGen
    /\ RecordSound(s)
    /\ s.phase = "Preparing" => Untouched(s) /\ r.phase = "Preparing"

\* Moving the retained record forward keeps a state sound.
LEMMA EditsOwner ==
    ASSUME NEW st, GoodState(st), Sound(st), st.fwd # None,
           NEW nx, Successor(st.fwd, nx.fwd), nx.fwd # None,
           nx.cand \in {st.cand, None}, nx.token = st.token
    PROVE  Sound(nx) /\ Follows(st, nx)
  <1>1. Fenced(st, nx)
    BY KeepsTokens DEF Successor
  <1>2. QED
    BY <1>1 DEF Successor, Sound, Follows, Advances

\* So does editing the candidate of the same owner.
LEMMA EditsCandidate ==
    ASSUME NEW st, GoodState(st), Sound(st), st.cand # None,
           NEW nx, nx.fwd = st.fwd, nx.cand.owner = st.cand.owner,
           RecordSound(nx.cand), nx.token = st.token
    PROVE  Sound(nx) /\ Follows(st, nx)
  <1>1. st.fwd # None /\ st.fwd \in ForwardRecords
    BY RecordTypes
  <1>2. Advances(st.fwd, st.fwd)
    BY <1>1, RecordNumbers DEF Advances
  <1>3. Fenced(st, nx)
    BY KeepsTokens
  <1>4. QED
    BY <1>1, <1>2, <1>3 DEF Sound, Follows

\* Changing the phase, or giving up pending work, moves a record forward.
LEMMA PhaseSuccessor ==
    ASSUME NEW r \in ForwardRecords, RecordSound(r)
    PROVE  /\ \A phase \in Phases \ {"Preparing"} :
                Successor(r, [r EXCEPT !.phase = phase])
           /\ Successor(r, Revoked(r))
           /\ \A phase \in Phases : RecordSound([r EXCEPT !.phase = phase])
  <1>1. ASSUME NEW phase \in Phases
        PROVE  LET s == [r EXCEPT !.phase = phase]
               IN  /\ s.owner = r.owner /\ s.failRev = r.failRev
                   /\ s.polRev = r.polRev /\ s.polGen = r.polGen
                   /\ s.pendFailed = r.pendFailed /\ s.pending = r.pending
                   /\ s.phase = phase
    BY DEF ForwardRecords
  <1>2. /\ Revoked(r).owner = r.owner /\ Revoked(r).failRev = r.failRev
        /\ Revoked(r).polRev = r.polRev /\ Revoked(r).polGen = r.polGen
        /\ Revoked(r).pendFailed = None /\ Revoked(r).pending = None
        /\ Revoked(r).phase = "Revoked"
    BY DEF ForwardRecords, Revoked
  <1>3. Successor(r, Revoked(r))
    BY <1>2, RecordNumbers DEF Successor, RecordSound
  <1>4. ASSUME NEW phase \in Phases
        PROVE  RecordSound([r EXCEPT !.phase = phase])
    BY <1>1, <1>4 DEF RecordSound
  <1>5. ASSUME NEW phase \in Phases \ {"Preparing"}
        PROVE  Successor(r, [r EXCEPT !.phase = phase])
    <2> DEFINE s == [r EXCEPT !.phase = phase]
    <2>1. /\ s.owner = r.owner /\ s.failRev = r.failRev
          /\ s.polRev = r.polRev /\ s.polGen = r.polGen /\ s.phase # "Preparing"
      BY <1>1, <1>5
    <2>2. RecordSound(s)
      BY <1>4, <1>5
    <2> HIDE DEF s
    <2>3. Successor(r, s)
      BY <2>1, <2>2, RecordNumbers DEF Successor
    <2>4. QED
      BY <2>3 DEF s
  <1>6. QED
    BY <1>3, <1>4, <1>5

-----------------------------------------------------------------------------
(* Jobs end in states that follow the one they started from. *)

\* The rollback keeps the previous owner, live or revoked.
LEMMA RollbackFollows ==
    ASSUME NEW st, GoodState(st), Sound(st), Committing(st)
    PROVE  Sound(RollbackJob(st).final) /\ Follows(st, RollbackJob(st).final)
  <1> DEFINE nx == RollbackJob(st).final
             s == [st.fwd EXCEPT !.phase = "Revoked"]
  <1>1. st \in States /\ st.fwd # None /\ st.fwd \in ForwardRecords
    BY RecordTypes DEF GoodState, Committing
  <1>2. nx.cand = None /\ nx.fwd \in {st.fwd, s} /\ nx.token = st.token
    BY <1>1 DEF RollbackJob, Job, States
  <1>3. s # None /\ Successor(st.fwd, s)
    BY <1>1, PhaseSuccessor, RecordEdits, NoneAssumption DEF Sound, Phases
  <1> HIDE DEF nx, s
  <1>4. CASE nx.fwd = st.fwd
    BY <1>2, <1>4, KeepsRecords DEF nx
  <1>5. CASE nx.fwd = s
    BY <1>1, <1>2, <1>3, <1>5, EditsOwner DEF nx
  <1>6. QED
    BY <1>2, <1>4, <1>5

\* A committed candidate outranks the owner it replaces.
LEMMA CommittedFollows ==
    ASSUME NEW st, GoodState(st), Sound(st), st.cand # None
    PROVE  Sound(Committed(st)) /\ Follows(st, Committed(st))
  <1> DEFINE nx == Committed(st)
             s == [st.cand EXCEPT !.phase = "Active"]
  <1>1. /\ st \in States /\ TokenOrder(st)
        /\ st.fwd # None /\ st.fwd \in ForwardRecords /\ st.cand \in ForwardRecords
    BY RecordTypes DEF GoodState
  <1>2. nx.cand = None /\ nx.fwd = s /\ nx.token = st.token
    BY <1>1 DEF Committed, States
  <1>3. s.owner = st.cand.owner /\ s.phase = "Active" /\ RecordSound(s)
    BY <1>1, PhaseSuccessor DEF Sound, Phases, ForwardRecords
  <1> HIDE DEF nx, s
  <1>4. Advances(st.fwd, s)
    BY <1>1, <1>3, RecordNumbers DEF Advances, Sound, TokenOrder
  <1>5. Fenced(st, nx)
    BY <1>1, <1>2, <1>3, KeepsTokens
  <1>6. s # None
    BY <1>1, RecordEdits, NoneAssumption DEF s, Phases
  <1>7. QED
    BY <1>2, <1>3, <1>4, <1>5, <1>6 DEF Sound, Follows, nx

\* Preparation and fencing keep the owner.
LEMMA RetainedFollows ==
    ASSUME NEW st, GoodState(st), Sound(st), st.fwd # None
    PROVE  /\ Sound(PrepareJob(st).final) /\ Follows(st, PrepareJob(st).final)
           /\ Sound(RevokeJob(st).final) /\ Follows(st, RevokeJob(st).final)
           /\ Sound(ExpireJob(st).final) /\ Follows(st, ExpireJob(st).final)
  <1> DEFINE s == [st.fwd EXCEPT !.phase = "Prepared"]
             r == Revoked(st.fwd)
  <1>1. st \in States /\ st.fwd \in ForwardRecords
    BY RecordTypes DEF GoodState
  <1>2. s # None /\ r # None /\ Successor(st.fwd, s) /\ Successor(st.fwd, r)
    BY <1>1, PhaseSuccessor, RecordEdits, NoneAssumption DEF Sound, Phases
  <1>3. PrepareJob(st).final.fwd = s /\ PrepareJob(st).final.cand = st.cand
        /\ PrepareJob(st).final.token = st.token
    BY <1>1 DEF PrepareJob, Job, States
  <1>4. RevokeJob(st).final.fwd = r /\ RevokeJob(st).final.cand = None
        /\ RevokeJob(st).final.token = st.token
    BY <1>1 DEF RevokeJob, Job, States
  <1>5. ExpireJob(st).final.fwd = r /\ ExpireJob(st).final.cand = st.cand
        /\ ExpireJob(st).final.token = st.token
    BY <1>1 DEF ExpireJob, Job, States
  <1> HIDE DEF s, r
  <1>6. QED
    BY <1>2, <1>3, <1>4, <1>5, EditsOwner

\* A failure snapshot that is applied is the pending one.
LEMMA FailuresFollows ==
    ASSUME NEW st, GoodState(st), Sound(st), st.fwd # None, st.fwd.pendFailed # None
    PROVE  Sound(FailuresJob(st).final) /\ Follows(st, FailuresJob(st).final)
  <1> DEFINE nx == FailuresJob(st).final
             r == st.fwd
             s == [r EXCEPT !.failed = r.pendFailed.failed,
                            !.failRev = r.pendFailed.rev, !.pendFailed = None]
  <1>1. st \in States /\ r \in ForwardRecords /\ RecordSound(r)
        /\ r.phase # "Preparing"
    BY RecordTypes DEF GoodState, Sound, Untouched
  <1>2. nx.fwd = s /\ nx.cand = st.cand /\ nx.token = st.token
    BY <1>1 DEF FailuresJob, Job, States
  <1>3. r.pendFailed \in PendingFailures
    BY <1>1 DEF ForwardRecords
  <1>4. s \in ForwardRecords
    BY <1>1, <1>3 DEF ForwardRecords, PendingFailures
  <1>5. /\ s.owner = r.owner /\ s.failRev = r.pendFailed.rev /\ s.polRev = r.polRev
        /\ s.polGen = r.polGen /\ s.pendFailed = None /\ s.pending = r.pending
        /\ s.phase = r.phase
    BY <1>1 DEF ForwardRecords
  <1> HIDE DEF nx, s
  <1>6. Successor(r, s)
    BY <1>1, <1>5, RecordNumbers DEF Successor, RecordSound
  <1>7. s # None
    BY <1>4, NoneAssumption
  <1>8. QED
    BY <1>2, <1>6, <1>7, EditsOwner DEF nx

\* So is a policy that is published.
LEMMA PolicyFollows ==
    ASSUME NEW st, GoodState(st), Sound(st), st.fwd # None, st.fwd.pending # None
    PROVE  /\ Sound(PolicyJob(st).final) /\ Follows(st, PolicyJob(st).final)
           /\ Sound(Cancelled(st)) /\ Follows(st, Cancelled(st))
  <1> DEFINE nx == PolicyJob(st).final
             r == st.fwd
             p == r.pending
             failed == r.failed \cap p.decl.remote
             s == [r EXCEPT !.decl = p.decl, !.polRev = p.rev, !.polGen = p.gen,
                            !.failed = failed, !.pending = None]
             c == [r EXCEPT !.pending = [p EXCEPT !.cancelled = TRUE]]
  <1>1. st \in States /\ r \in ForwardRecords /\ RecordSound(r)
        /\ r.phase # "Preparing"
    BY RecordTypes DEF GoodState, Sound, Untouched
  <1>2. nx.fwd = s /\ nx.cand = st.cand /\ nx.token = st.token
    BY <1>1 DEF PolicyJob, Job, States
  <1>3. /\ Cancelled(st).fwd = c /\ Cancelled(st).cand = st.cand
        /\ Cancelled(st).token = st.token
    BY <1>1 DEF Cancelled, States
  <1>4. p \in PendingPolicies
    BY <1>1 DEF ForwardRecords
  <1>5. s \in ForwardRecords
    <2>1. p.decl \in Declarations /\ p.rev \in Nat /\ p.gen \in Nat
          /\ failed \in SUBSET Prefixes
      BY <1>1, <1>4 DEF PendingPolicies, ForwardRecords
    <2> HIDE DEF p, failed
    <2>2. QED
      BY <1>1, <2>1 DEF ForwardRecords
  <1>6. /\ s.owner = r.owner /\ s.failRev = r.failRev /\ s.polRev = p.rev
        /\ s.polGen = p.gen /\ s.pendFailed = r.pendFailed /\ s.pending = None
        /\ s.phase = r.phase
    BY <1>1 DEF ForwardRecords
  <1>7. [p EXCEPT !.cancelled = TRUE] \in PendingPolicies
        /\ [p EXCEPT !.cancelled = TRUE].rev = p.rev
        /\ [p EXCEPT !.cancelled = TRUE].gen = p.gen
    BY <1>4 DEF PendingPolicies
  <1>8. c \in ForwardRecords
        /\ c.owner = r.owner /\ c.failRev = r.failRev /\ c.polRev = r.polRev
        /\ c.polGen = r.polGen /\ c.pendFailed = r.pendFailed /\ c.phase = r.phase
        /\ c.pending.rev = p.rev /\ c.pending.gen = p.gen
    BY <1>1, <1>7 DEF ForwardRecords
  <1> HIDE DEF nx, s, c
  <1>9. Successor(r, s)
    BY <1>1, <1>6, RecordNumbers DEF Successor, RecordSound
  <1>10. Successor(r, c)
    BY <1>1, <1>8, RecordNumbers DEF Successor, RecordSound
  <1>11. s # None /\ c # None
    BY <1>5, <1>8, NoneAssumption
  <1>12. QED
    BY <1>2, <1>3, <1>9, <1>10, <1>11, EditsOwner DEF nx

\* Completing the creation of the interface touches no record.
LEMMA CreateFollows ==
    ASSUME NEW st, GoodState(st), Sound(st)
    PROVE  Sound(CreateJob(st).final) /\ Follows(st, CreateJob(st).final)
  <1>1. /\ CreateJob(st).final.fwd = st.fwd /\ CreateJob(st).final.cand = st.cand
        /\ CreateJob(st).final.token = st.token
    BY DEF CreateJob, Job, States, GoodState
  <1>2. QED
    BY <1>1, KeepsRecords

\* The idle job follows anything.
LEMMA IdleFollows ==
    ASSUME NEW st
    PROVE  Sound(Idle.final) /\ Follows(st, Idle.final)
  BY DEF Idle, NewState, Sound, Follows, Fenced

\* What follows a durable intent follows the state it made durable.
LEMMA ContinueFollows ==
    ASSUME NEW j, NEW m, JobOK(j, m), Sound(j.final)
    PROVE  LET nx == Continue(j.kind, j.final).final
           IN  Sound(nx) /\ Follows(j.final, nx)
  <1> DEFINE st == j.final
  <1>1. GoodState(st)
    BY DEF JobOK, Jobs, GoodState
  <1>2. CASE j.kind = "preparing"
    BY <1>1, <1>2, RetainedFollows DEF Continue, JobOK
  <1>3. CASE j.kind = "commit"
    <2>1. st.cand # None
      BY <1>3 DEF JobOK, Committing
    <2>2. Continue(j.kind, st).final = Committed(st)
      BY <1>3 DEF Continue, Job
    <2>3. QED
      BY <1>1, <2>1, <2>2, CommittedFollows
  <1>4. CASE j.kind = "failing"
    BY <1>1, <1>4, FailuresFollows DEF Continue, JobOK
  <1>5. CASE j.kind = "publish"
    BY <1>1, <1>5, PolicyFollows DEF Continue, JobOK
  <1>6. CASE j.kind = "cancel"
    BY <1>1, <1>6, RetainedFollows DEF Continue, JobOK
  <1>7. CASE j.kind = "lapse"
    BY <1>1, <1>7, RetainedFollows DEF Continue, JobOK
  <1>8. CASE j.kind = "intend"
    BY <1>1, <1>8, CreateFollows DEF Continue
  <1>9. CASE j.kind \notin {"preparing", "commit", "failing", "publish", "cancel",
                            "lapse", "intend"}
    BY <1>9, IdleFollows DEF Continue
  <1>10. QED
    BY <1>2, <1>3, <1>4, <1>5, <1>6, <1>7, <1>8, <1>9

\* What follows an error follows the state in memory.
LEMMA ErrorsFollow ==
    ASSUME TypeInv, FencingInv
    PROVE  /\ Sound(OpErrorJob.final) /\ Follows(mem, OpErrorJob.final)
           /\ Sound(StoreErrorJob.final) /\ Follows(mem, StoreErrorJob.final)
  <1>1. GoodState(mem) /\ Sound(mem) /\ JobOK(job, mem)
    BY DEF TypeInv, FencingInv
  <1>2. Follows(mem, mem)
    BY <1>1, KeepsRecords
  <1>3. Sound(UnwindJob.final) /\ Follows(mem, UnwindJob.final)
    BY <1>1, <1>2, IdleFollows DEF UnwindJob, Job
  <1>4. CASE job.kind = "install"
    BY <1>1, <1>4, RollbackFollows DEF OpErrorJob, StoreErrorJob, JobOK
  <1>5. CASE job.kind = "failures"
    BY <1>1, <1>2, <1>5, IdleFollows DEF OpErrorJob, StoreErrorJob, Job
  <1>6. CASE job.kind \notin {"install", "failures"}
    BY <1>3, <1>6, IdleFollows DEF OpErrorJob, StoreErrorJob
  <1>7. QED
    BY <1>4, <1>5, <1>6

-----------------------------------------------------------------------------
(* Every action keeps the invariant. *)

\* A job whose final state follows memory keeps the invariant.
LEMMA StartFollows ==
    ASSUME FencingInv, NEW kind, NEW ops, NEW final, Start(kind, ops, final),
           Sound(final), Follows(mem, final)
    PROVE  FencingInv'
  BY DEF FencingInv, Start, Job, Sound, Follows, Fenced, Tokens

\* In particular one that leaves the records alone or drops the candidate.
LEMMA StartKeepsRecords ==
    ASSUME TypeInv, FencingInv, NEW kind, NEW ops, NEW final,
           Start(kind, ops, final),
           final.fwd = mem.fwd, final.cand \in {mem.cand, None},
           final.token = mem.token
    PROVE  FencingInv'
  BY KeepsRecords, StartFollows DEF TypeInv, FencingInv

\* Executing a job keeps the invariant.
LEMMA ExecutionFollows ==
    ASSUME TypeInv, FencingInv, Execution
    PROVE  FencingInv'
  <1>0. /\ mem \in States /\ job \in Jobs /\ job.final \in States /\ JobOK(job, mem)
        /\ GoodState(job.final)
    BY DEF TypeInv, JobOK, GoodState, Jobs
  <1>1. CASE Step
    <2>1. UNCHANGED <<disk, mem>>
      BY <1>1 DEF Step
    <2>2. /\ job'.final.fwd = job.final.fwd /\ job'.final.cand = job.final.cand
          /\ job'.final.token = job.final.token /\ job'.final.admin = job.final.admin
      <3> DEFINE op == Head(job.ops)
      <3>1. CASE KernelStep(op)
        BY <1>0, <3>1 DEF KernelStep, Jobs
      <3>2. CASE DeviceStep(op)
        <4>1. job' = [job EXCEPT !.ops = Tail(job.ops),
                                 !.final.ifindex =
                                     IF op.op = "ensure" THEN dev.id ELSE @]
          BY <3>2 DEF DeviceStep
        <4>2. QED
          BY <1>0, <4>1 DEF Jobs, States
      <3>3. QED
        BY <1>1, <3>1, <3>2 DEF Step
    <2>3. QED
      BY <2>1, <2>2 DEF FencingInv, Sound, Follows, Fenced, Tokens
  <1>2. CASE StepRefused \/ OpFails
    <2>1. job' = OpErrorJob /\ UNCHANGED <<disk, mem>>
      BY <1>2 DEF StepRefused, OpFails
    <2>2. QED
      BY <2>1, ErrorsFollow DEF FencingInv, Sound, Follows, Fenced, Tokens
  <1>3. CASE Finish
    <2>1. /\ disk' = job.final /\ mem' = job.final
          /\ job' = Continue(job.kind, job.final)
      BY <1>3 DEF Finish
    <2>2. Sound(job.final)
      BY DEF FencingInv
    <2>3. Follows(job.final, job.final)
      BY <1>0, <2>2, KeepsRecords
    <2>4. LET nx == Continue(job.kind, job.final).final
          IN  Sound(nx) /\ Follows(job.final, nx)
      BY <1>0, <2>2, ContinueFollows
    <2>5. QED
      BY <2>1, <2>2, <2>3, <2>4 DEF FencingInv, Sound, Follows, Fenced, Tokens
  <1>4. CASE StoreFails
    <2>1. job' = StoreErrorJob /\ disk' \in {disk, job.final} /\ mem' = mem
      BY <1>4 DEF StoreFails
    <2>2. QED
      BY <2>1, ErrorsFollow DEF FencingInv, Sound, Follows, Fenced, Tokens
  <1>5. CASE UnwindDone
    <2>1. job' = Idle /\ UNCHANGED <<disk, mem>>
      BY <1>5 DEF UnwindDone
    <2>2. QED
      BY <2>1, IdleFollows DEF FencingInv, Sound, Follows, Fenced, Tokens
  <1>6. QED
    BY <1>1, <1>2, <1>3, <1>4, <1>5 DEF Execution

\* Recovery keeps the invariant.
LEMMA RecoveryFollows ==
    ASSUME TypeInv, FencingInv, Recovery
    PROVE  FencingInv'
  <1>0. GoodState(mem) /\ Sound(mem) /\ mem \in States
    BY DEF TypeInv, GoodState, FencingInv
  <1>1. CASE RecoverCreation
    BY <1>0, <1>1, CreateFollows, StartFollows DEF RecoverCreation
  <1>2. CASE RecoverCommit
    BY <1>0, <1>2, RollbackFollows, StartFollows DEF RecoverCommit
  <1>3. CASE RecoverCandidate
    BY <1>0, <1>3, StartKeepsRecords DEF RecoverCandidate, States
  <1>4. CASE RecoverCancelled
    BY <1>0, <1>4, RetainedFollows, StartFollows DEF RecoverCancelled, NeedCancel
  <1>5. CASE RecoverPolicy
    BY <1>0, <1>5, PolicyFollows, StartFollows DEF RecoverPolicy, PolicyDue
  <1>6. CASE RecoverFailures
    BY <1>0, <1>6, FailuresFollows, StartFollows DEF RecoverFailures, FailuresDue
  <1>7. CASE RecoverLapsed
    <2>1. mem.fwd # None
      BY <1>7 DEF RecoverLapsed, Lapsed
    <2>2. CASE mem.fwd.pending # None
      BY <1>0, <1>7, <2>1, <2>2, PolicyFollows, StartFollows DEF RecoverLapsed
    <2>3. CASE mem.fwd.pending = None
      BY <1>0, <1>7, <2>1, <2>3, RetainedFollows, StartFollows DEF RecoverLapsed
    <2>4. QED
      BY <2>2, <2>3
  <1>8. CASE RecoverDone
    BY <1>8 DEF RecoverDone, FencingInv, Sound, Follows, Fenced, Tokens
  <1>9. QED
    BY <1>1, <1>2, <1>3, <1>4, <1>5, <1>6, <1>7, <1>8 DEF Recovery

\* Infrastructure requests keep the records, revoke them with the interface or
\* erase them.
LEMMA InfrastructureFollows ==
    ASSUME TypeInv, FencingInv, Infrastructure
    PROVE  FencingInv'
  <1>0. GoodState(mem) /\ Sound(mem) /\ mem \in States
    BY DEF TypeInv, GoodState, FencingInv
  <1>1. ASSUME NEW c \in Callers, InfraEnsure(c)
        PROVE  FencingInv'
    <2> DEFINE st == [CreationIntent(mem) EXCEPT !.admin = c]
    <2>1. st.fwd = mem.fwd /\ st.cand = mem.cand /\ st.token = mem.token
      BY <1>0 DEF CreationIntent, States
    <2>2. Start("intend", <<>>, st)
      BY <1>1 DEF InfraEnsure
    <2> HIDE DEF st
    <2>3. QED
      BY <2>1, <2>2, StartKeepsRecords
  <1>2. CASE InfraRepair
    <2> DEFINE st == [CreationIntent(mem) EXCEPT
                        !.fwd = IF @ = None THEN None
                                ELSE [@ EXCEPT !.phase = "Revoked"],
                        !.cand = None, !.ifindex = 0, !.io = None]
               s == [mem.fwd EXCEPT !.phase = "Revoked"]
    <2>1. /\ st.cand = None /\ st.fwd = IF mem.fwd = None THEN None ELSE s
          /\ st.token = mem.token
      BY <1>0 DEF CreationIntent, States
    <2>2. \E ops : Start("intend", ops, st)
      BY <1>2 DEF InfraRepair
    <2> HIDE DEF st
    <2>3. CASE mem.fwd = None
      BY <2>1, <2>2, <2>3, StartKeepsRecords
    <2>4. CASE mem.fwd # None
      <3>1. mem.fwd \in ForwardRecords /\ RecordSound(mem.fwd)
        BY <1>0, <2>4, RecordTypes DEF Sound
      <3>2. s # None /\ Successor(mem.fwd, s)
        BY <3>1, PhaseSuccessor, RecordEdits, NoneAssumption DEF Phases
      <3> HIDE DEF s
      <3>3. Sound(st) /\ Follows(mem, st)
        BY <1>0, <2>1, <2>4, <3>2, EditsOwner
      <3>4. QED
        BY <2>2, <3>3, StartFollows
    <2>5. QED
      BY <2>3, <2>4
  <1>3. ASSUME NEW p \in Procs, NEW e \in 1..MaxIoEpoch, InfraAcquireIoFd(p, e)
        PROVE  FencingInv'
    BY <1>0, <1>3, StartKeepsRecords DEF InfraAcquireIoFd, States
  <1>4. CASE InfraReleaseIo
    BY <1>0, <1>4, StartKeepsRecords DEF InfraReleaseIo, States
  <1>5. CASE InfraRetire
    <2>1. \E ops : Start("retire", ops, NewState)
      BY <1>5 DEF InfraRetire
    <2>2. Sound(NewState) /\ Follows(mem, NewState)
      BY IdleFollows DEF Idle
    <2>3. QED
      BY <2>1, <2>2, StartFollows
  <1>6. QED
    BY <1>1, <1>2, <1>3, <1>4, <1>5 DEF Infrastructure

\* The host restarts the service from a journal that follows its memory.
LEMMA HostFollows ==
    ASSUME TypeInv, FencingInv, Host
    PROVE  FencingInv'
  <1>1. CASE Crash \/ Reboot
    <2>1. job' = Idle /\ mem' = disk /\ disk' = disk
      BY <1>1 DEF Crash, Reboot, Restarted
    <2>2. GoodState(disk) /\ Sound(disk)
      BY DEF TypeInv, FencingInv
    <2>3. Follows(disk, disk)
      BY <2>2, KeepsRecords
    <2>4. QED
      BY <2>1, <2>2, <2>3, IdleFollows DEF FencingInv, Sound, Follows, Fenced, Tokens
  <1>2. CASE UNCHANGED <<disk, mem, job>>
    BY <1>2 DEF FencingInv, Sound, Follows, Fenced, Tokens
  <1>3. QED
    BY <1>1, <1>2 DEF Host, Tick, ProcessExit, LoseDevice, ForeignDevice

\* A record whose revisions and owner are kept, apart from what is edited.
LEMMA StartSuccessor ==
    ASSUME TypeInv, FencingInv, mem.fwd # None,
           NEW r \in ForwardRecords, Successor(mem.fwd, r),
           NEW kind, NEW ops, Start(kind, ops, [mem EXCEPT !.fwd = r])
    PROVE  FencingInv'
  <1> DEFINE st == [mem EXCEPT !.fwd = r]
  <1>1. Sound(mem) /\ mem \in States /\ GoodState(mem)
    BY DEF TypeInv, GoodState, FencingInv
  <1>2. st.fwd = r /\ st.cand = mem.cand /\ r # None /\ st.token = mem.token
    BY <1>1, NoneAssumption DEF States
  <1>3. Start(kind, ops, st)
    OBVIOUS
  <1> HIDE DEF st
  <1>4. Sound(st) /\ Follows(mem, st)
    BY <1>1, <1>2, EditsOwner
  <1>5. QED
    BY <1>3, <1>4, StartFollows

\* The same for the candidate.
LEMMA StartCandidate ==
    ASSUME TypeInv, FencingInv, mem.cand # None,
           NEW r \in ForwardRecords, r.owner = mem.cand.owner, RecordSound(r),
           NEW kind, NEW ops, Start(kind, ops, [mem EXCEPT !.cand = r])
    PROVE  FencingInv'
  <1> DEFINE st == [mem EXCEPT !.cand = r]
  <1>1. Sound(mem) /\ mem \in States /\ GoodState(mem)
    BY DEF TypeInv, GoodState, FencingInv
  <1>2. st.cand = r /\ st.fwd = mem.fwd /\ st.token = mem.token
    BY <1>1 DEF States
  <1>3. Start(kind, ops, st)
    OBVIOUS
  <1> HIDE DEF st
  <1>4. Sound(st) /\ Follows(mem, st)
    BY <1>1, <1>2, EditsCandidate
  <1>5. QED
    BY <1>3, <1>4, StartFollows

\* A repeated preparation finds a record that nothing happened to.
LEMMA PrepareInitialFollows ==
    ASSUME TypeInv, FencingInv, NEW o \in Owners, NEW d \in Decls,
           PrepareInitial(o, d)
    PROVE  FencingInv'
  <1> DEFINE r == NewRecord(o, d, "Preparing")
             changed == IF mem.fwd = None THEN ~kern.sysctl ELSE mem.sysctls
             st == [mem EXCEPT !.fwd = r, !.token = o.token, !.sysctls = changed]
  <1>1. GoodState(mem) /\ mem \in States /\ Sound(mem)
    BY DEF TypeInv, GoodState, FencingInv
  <1>2. r \in ForwardRecords /\ r.owner = o /\ r # None /\ Untouched(r)
    <2>1. r \in ForwardRecords /\ r.owner = o
      BY NewRecordType DEF Phases
    <2>2. Untouched(r)
      BY DEF NewRecord, Untouched
    <2>3. QED
      BY <2>1, <2>2, NoneAssumption
  <1>3. Start("preparing", <<>>, st) /\ mem.cand = None
    BY DEF PrepareInitial
  <1>4. mem.fwd # None => mem.fwd.owner = o /\ mem.fwd.phase = "Preparing"
    BY DEF PrepareInitial
  <1> HIDE DEF r, changed
  <1>5. st.fwd = r /\ st.cand = None /\ st.token = o.token
    BY <1>1, <1>3 DEF States
  <1> HIDE DEF st
  <1>6. CASE mem.fwd = None
    <2>1. mem.token = 0 /\ o.token \in Nat /\ o.token > 0
      BY <1>1, <1>6, OwnerAssumption DEF Sound, OwnerRecords
    <2>2. Tokens(st) = {o.token}
      BY <1>2, <1>5 DEF Tokens
    <2>3. Fenced(mem, st)
      BY <1>5, <2>1, <2>2 DEF Fenced
    <2>4. Sound(st) /\ Follows(mem, st)
      BY <1>2, <1>5, <1>6, <2>3 DEF Sound, Follows, RecordSound, Untouched
    <2>5. QED
      BY <1>3, <2>4, StartFollows
  <1>7. CASE mem.fwd # None
    <2>1. /\ Untouched(mem.fwd) /\ mem.fwd \in ForwardRecords
          /\ mem.token = o.token
      BY <1>1, <1>4, <1>7, RecordTypes DEF Sound
    <2>2. Successor(mem.fwd, r)
      BY <1>2, <1>4, <1>7, <2>1, RecordNumbers DEF Successor, Untouched, RecordSound
    <2>3. Sound(st) /\ Follows(mem, st)
      BY <1>1, <1>2, <1>5, <1>7, <2>1, <2>2, EditsOwner
    <2>4. QED
      BY <1>3, <2>3, StartFollows
  <1>8. QED
    BY <1>6, <1>7

\* A candidate's token is larger than every token seen before.
LEMMA PrepareCandidateFollows ==
    ASSUME TypeInv, FencingInv, NEW o \in Owners, NEW d \in Decls,
           PrepareCandidate(o, d)
    PROVE  FencingInv'
  <1> DEFINE r == NewRecord(o, d, "Prepared")
             st == [mem EXCEPT !.cand = r, !.token = o.token]
  <1>1. GoodState(mem) /\ mem \in States /\ Sound(mem) /\ mem.token \in Nat
        /\ mem.fwd # None
    BY DEF TypeInv, GoodState, FencingInv, States, PrepareCandidate
  <1>2. mem.fwd \in ForwardRecords
    BY <1>1, RecordTypes
  <1>3. r \in ForwardRecords /\ r.owner = o /\ o.token \in Nat /\ Untouched(r)
    BY NewRecordType, OwnerAssumption DEF Phases, OwnerRecords, NewRecord, Untouched
  <1>4. /\ o.token > mem.token
        /\ o.gen >= mem.fwd.owner.gen /\ o.epoch >= mem.fwd.owner.epoch
    BY <1>1, <1>2, <1>3, RecordNumbers DEF PrepareCandidate, Succeeds, Max2
  <1>5. Start("save", <<>>, st)
    BY DEF PrepareCandidate
  <1> HIDE DEF r
  <1>6. st.fwd = mem.fwd /\ st.cand = r /\ st.token = o.token
    BY <1>1 DEF States
  <1> HIDE DEF st
  <1>7. Advances(mem.fwd, mem.fwd)
    BY <1>2, RecordNumbers DEF Advances
  <1>8. Fenced(mem, st)
    <2>1. Tokens(st) \subseteq Tokens(mem) \cup {o.token}
      BY <1>3, <1>6 DEF Tokens
    <2>2. QED
      BY <1>1, <1>3, <1>4, <1>6, <2>1 DEF Fenced
  <1>9. mem.fwd.phase # "Preparing"
    BY DEF PrepareCandidate
  <1>10. Sound(st) /\ Follows(mem, st)
    BY <1>1, <1>3, <1>4, <1>6, <1>7, <1>8, <1>9
    DEF Sound, Follows, RecordSound, Untouched
  <1>11. QED
    BY <1>5, <1>10, StartFollows

\* Binding an authority keeps owner and revisions.
LEMMA AuthorizeFollows ==
    ASSUME TypeInv, FencingInv, NEW which \in {"fwd", "cand"},
           NEW a \in Authorities, ForwardAuthorize(which, a)
    PROVE  FencingInv'
  <1>1. GoodState(mem) /\ mem \in States /\ Sound(mem)
    BY DEF TypeInv, GoodState, FencingInv
  <1> DEFINE m == mem[which]
             r == [m EXCEPT !.authority = a]
  <1>2. Start("settle", <<>>, [mem EXCEPT ![which] = r])
        /\ m # None /\ m.phase = "Prepared"
    BY <1>1 DEF ForwardAuthorize, States
  <1>3. m \in ForwardRecords /\ RecordSound(m)
    BY <1>1, <1>2, RecordTypes DEF Sound
  <1>4. /\ r \in ForwardRecords /\ r.owner = m.owner
        /\ r.phase = m.phase /\ r.failRev = m.failRev /\ r.polRev = m.polRev
        /\ r.polGen = m.polGen /\ r.pending = m.pending
        /\ r.pendFailed = m.pendFailed
    BY <1>3 DEF ForwardRecords
  <1> HIDE DEF r, m
  <1>5. RecordSound(r) /\ Successor(m, r)
    BY <1>2, <1>3, <1>4, RecordNumbers DEF RecordSound, Successor
  <1>6. CASE which = "fwd"
    BY <1>2, <1>4, <1>5, <1>6, StartSuccessor DEF m
  <1>7. CASE which = "cand"
    BY <1>2, <1>4, <1>5, <1>7, StartCandidate DEF m
  <1>8. QED
    BY <1>6, <1>7

\* A commit puts the candidate in the owner's place or changes a phase.
LEMMA CommitFollows ==
    ASSUME TypeInv, FencingInv, NEW t,
           CommitHandoff(t) \/ CommitReplacement(t) \/ CommitInitial(t)
    PROVE  FencingInv'
  <1>1. GoodState(mem) /\ mem \in States /\ Sound(mem)
    BY DEF TypeInv, GoodState, FencingInv
  <1>2. CASE CommitHandoff(t)
    BY <1>1, <1>2, CommittedFollows, StartFollows DEF CommitHandoff, CommitRequest
  <1>3. CASE CommitReplacement(t)
    <2> DEFINE r == [mem.cand EXCEPT !.phase = "Preparing"]
    <2>1. mem.cand # None /\ mem.cand \in ForwardRecords /\ RecordSound(mem.cand)
      BY <1>1, <1>3, RecordTypes DEF CommitReplacement, CommitRequest, Sound
    <2>2. r \in ForwardRecords /\ r.owner = mem.cand.owner /\ RecordSound(r)
      BY <2>1, RecordEdits, PhaseSuccessor DEF Phases
    <2>3. Start("commit", <<>>, [mem EXCEPT !.cand = r])
      BY <1>3 DEF CommitReplacement
    <2> HIDE DEF r
    <2>4. QED
      BY <2>1, <2>2, <2>3, StartCandidate
  <1>4. CASE CommitInitial(t)
    <2> DEFINE r == [mem.fwd EXCEPT !.phase = "Active"]
    <2>1. mem.fwd # None /\ mem.fwd \in ForwardRecords /\ RecordSound(mem.fwd)
      BY <1>1, <1>4, RecordTypes DEF CommitInitial, CommitRequest, Sound
    <2>2. r \in ForwardRecords /\ Successor(mem.fwd, r)
      BY <2>1, RecordEdits, PhaseSuccessor DEF Phases
    <2>3. \E ops : Start("activate", ops, [mem EXCEPT !.fwd = r])
      BY <1>4 DEF CommitInitial
    <2> HIDE DEF r
    <2>4. QED
      BY <2>1, <2>2, <2>3, StartSuccessor
  <1>5. QED
    BY <1>2, <1>3, <1>4

\* Guarding, revoking and renewing keep the owner; a lease only grows.
LEMMA RenewFollows ==
    ASSUME TypeInv, FencingInv,
           \/ ForwardGuard \/ RevokeCandidate \/ RevokeForward
           \/ \E lease \in 0..MaxTime : ForwardLeaseRenew(lease)
    PROVE  FencingInv'
  <1>1. GoodState(mem) /\ mem \in States /\ Sound(mem)
    BY DEF TypeInv, GoodState, FencingInv
  <1>2. CASE ForwardGuard
    <2> DEFINE r == [mem.fwd EXCEPT !.phase = "Guarded"]
    <2>1. mem.fwd # None /\ mem.fwd \in ForwardRecords /\ RecordSound(mem.fwd)
      BY <1>1, <1>2, RecordTypes DEF ForwardGuard, Sound
    <2>2. r \in ForwardRecords /\ Successor(mem.fwd, r)
      BY <2>1, RecordEdits, PhaseSuccessor DEF Phases
    <2>3. Start("save", <<>>, [mem EXCEPT !.fwd = r])
      BY <1>2 DEF ForwardGuard
    <2> HIDE DEF r
    <2>4. QED
      BY <2>1, <2>2, <2>3, StartSuccessor
  <1>3. CASE RevokeCandidate
    BY <1>1, <1>3, StartKeepsRecords DEF RevokeCandidate, States
  <1>4. CASE RevokeForward
    <2>1. mem.fwd # None
      BY <1>4 DEF RevokeForward
    <2>2. CASE mem.fwd.pending # None
      BY <1>1, <1>4, <2>1, <2>2, PolicyFollows, StartFollows DEF RevokeForward
    <2>3. CASE mem.fwd.pending = None
      BY <1>1, <1>4, <2>1, <2>3, RetainedFollows, StartFollows DEF RevokeForward
    <2>4. QED
      BY <2>2, <2>3
  <1>5. ASSUME NEW lease \in 0..MaxTime, ForwardLeaseRenew(lease)
        PROVE  FencingInv'
    <2> DEFINE m == mem.fwd
               o == [m.owner EXCEPT !.lease = lease]
               r == [m EXCEPT !.owner = o]
    <2>1. /\ m # None /\ m \in ForwardRecords /\ lease \in Nat
          /\ RecordSound(m)
          /\ m.phase = "Preparing" => Untouched(m)
          /\ lease >= m.owner.lease
      BY <1>1, <1>5, RecordTypes, BoundAssumption DEF ForwardLeaseRenew, Sound
    <2>2. /\ o \in OwnerRecords /\ o.token = m.owner.token
          /\ o.gen = m.owner.gen /\ o.epoch = m.owner.epoch /\ o.lease = lease
      BY <2>1, OwnerType DEF OwnerRecords
    <2>3. Start("settle", <<>>, [mem EXCEPT !.fwd = r])
      BY <1>5 DEF ForwardLeaseRenew
    <2> HIDE DEF o
    <2>4. /\ r \in ForwardRecords /\ r.owner = o
          /\ r.phase = m.phase /\ r.failRev = m.failRev /\ r.polRev = m.polRev
          /\ r.polGen = m.polGen /\ r.pending = m.pending
          /\ r.pendFailed = m.pendFailed
      BY <2>1, <2>2 DEF ForwardRecords
    <2> HIDE DEF r, m
    <2>5. Successor(m, r)
      BY <2>1, <2>2, <2>4, RecordNumbers DEF Successor, RecordSound, Untouched
    <2>6. QED
      BY <2>1, <2>3, <2>4, <2>5, StartSuccessor DEF m
  <1>6. QED
    BY <1>2, <1>3, <1>4, <1>5

\* Ownership requests keep the invariant.
LEMMA OwnershipFollows ==
    ASSUME TypeInv, FencingInv, Ownership
    PROVE  FencingInv'
  <1>1. ASSUME NEW which \in {"fwd", "cand"}, NEW io \in Procs, NEW biz \in Procs,
               NEW e \in 1..MaxIoEpoch, NEW d \in Decls,
               ForwardAuthorize(which, [io |-> io, epoch |-> e, biz |-> biz, decl |-> d])
        PROVE  FencingInv'
    <2>1. [io |-> io, epoch |-> e, biz |-> biz, decl |-> d] \in Authorities
      BY BoundAssumption, DeclAssumption DEF Authorities
    <2>2. QED
      BY <1>1, <2>1, AuthorizeFollows
  <1>2. QED
    BY <1>1, PrepareInitialFollows, PrepareCandidateFollows, CommitFollows,
       RenewFollows
    DEF Ownership

\* Failure snapshots and live policies carry later revisions.
LEMMA PublicationFollows ==
    ASSUME TypeInv, FencingInv, Publication
    PROVE  FencingInv'
  <1>1. GoodState(mem) /\ mem \in States /\ Sound(mem)
    BY DEF TypeInv, GoodState, FencingInv
  <1>2. ASSUME NEW rev \in 1..MaxRevision, NEW failed \in SUBSET Prefixes,
               FailuresUpdate(rev, failed)
        PROVE  FencingInv'
    <2> DEFINE m == mem.fwd
               p == [rev |-> rev, failed |-> failed]
               r == [m EXCEPT !.pendFailed = p]
    <2>1. /\ m # None /\ m \in ForwardRecords /\ RecordSound(m)
          /\ m.phase = "Active" /\ rev > m.failRev
      BY <1>1, <1>2, RecordTypes DEF FailuresUpdate, FailuresRequest, Sound
    <2>2. p \in PendingFailures /\ p.rev = rev /\ rev \in Nat
      BY BoundAssumption DEF PendingFailures
    <2>3. Start("failing", <<>>, [mem EXCEPT !.fwd = r])
      BY <1>2 DEF FailuresUpdate
    <2> HIDE DEF p
    <2>4. /\ r \in ForwardRecords /\ r.owner = m.owner
          /\ r.phase = m.phase /\ r.failRev = m.failRev /\ r.polRev = m.polRev
          /\ r.polGen = m.polGen /\ r.pending = m.pending /\ r.pendFailed = p
      BY <2>1, <2>2 DEF ForwardRecords
    <2> HIDE DEF r, m
    <2>5. Successor(m, r)
      BY <2>1, <2>2, <2>4, RecordNumbers DEF Successor, RecordSound
    <2>6. QED
      BY <2>1, <2>3, <2>4, <2>5, StartSuccessor DEF m
  <1>3. ASSUME NEW rev \in 1..MaxRevision, NEW failed \in SUBSET Prefixes,
               NEW which \in {"fwd", "cand"}, FailuresRecord(which, rev, failed)
        PROVE  FencingInv'
    <2> DEFINE m == mem[which]
               r == [m EXCEPT !.failed = failed, !.failRev = rev]
    <2>1. /\ m # None /\ m \in ForwardRecords /\ RecordSound(m) /\ rev \in Nat
          /\ m.phase # "Preparing" /\ rev > m.failRev /\ m.pendFailed = None
      BY <1>1, <1>3, RecordTypes, BoundAssumption
      DEF FailuresRecord, FailuresRequest, Sound
    <2>2. Start("save", <<>>, [mem EXCEPT ![which] = r])
      <3>1. [mem EXCEPT ![which].failed = failed, ![which].failRev = rev]
                = [mem EXCEPT ![which] = r]
        BY <1>1 DEF States
      <3>2. QED
        BY <1>3, <3>1 DEF FailuresRecord
    <2>3. /\ r \in ForwardRecords /\ r.owner = m.owner
          /\ r.phase = m.phase /\ r.failRev = rev /\ r.polRev = m.polRev
          /\ r.polGen = m.polGen /\ r.pending = m.pending
          /\ r.pendFailed = m.pendFailed
      BY <2>1 DEF ForwardRecords
    <2> HIDE DEF r, m
    <2>4. RecordSound(r) /\ Successor(m, r)
      BY <2>1, <2>3, RecordNumbers DEF Successor, RecordSound
    <2>5. CASE which = "fwd"
      BY <2>1, <2>2, <2>3, <2>4, <2>5, StartSuccessor DEF m
    <2>6. CASE which = "cand"
      BY <2>1, <2>2, <2>3, <2>4, <2>6, StartCandidate DEF m
    <2>7. QED
      BY <2>5, <2>6
  <1>4. ASSUME NEW rev \in 1..MaxPolicy, NEW gen \in {o.gen : o \in Owners},
               PolicyMetadata(rev, gen)
        PROVE  FencingInv'
    <2> DEFINE m == mem.fwd
               r == [m EXCEPT !.polRev = rev, !.polGen = gen]
    <2>1. /\ m # None /\ m \in ForwardRecords /\ RecordSound(m)
          /\ m.phase = "Active" /\ rev > m.polRev /\ gen >= m.polGen
          /\ m.pending = None
      BY <1>1, <1>4, RecordTypes
      DEF PolicyMetadata, PolicyRequest, Sound, NoRepairPending
    <2>2. rev \in Nat /\ gen \in Nat
      BY BoundAssumption, OwnerAssumption DEF OwnerRecords
    <2>3. Start("save", <<>>, [mem EXCEPT !.fwd = r])
      <3>1. [mem EXCEPT !.fwd.polRev = rev, !.fwd.polGen = gen]
                = [mem EXCEPT !.fwd = r]
        BY <1>1 DEF States
      <3>2. QED
        BY <1>4, <3>1 DEF PolicyMetadata
    <2>4. /\ r \in ForwardRecords /\ r.owner = m.owner
          /\ r.phase = m.phase /\ r.failRev = m.failRev /\ r.polRev = rev
          /\ r.polGen = gen /\ r.pending = m.pending /\ r.pendFailed = m.pendFailed
      BY <2>1, <2>2 DEF ForwardRecords
    <2> HIDE DEF r, m
    <2>5. Successor(m, r)
      BY <2>1, <2>2, <2>4, RecordNumbers DEF Successor, RecordSound
    <2>6. QED
      BY <2>1, <2>3, <2>4, <2>5, StartSuccessor DEF m
  <1>5. ASSUME NEW rev \in 1..MaxPolicy, NEW gen \in {o.gen : o \in Owners},
               NEW target \in Decls, PolicyUpdate(rev, gen, target)
        PROVE  FencingInv'
    <2> DEFINE m == mem.fwd
               p == [cancelled |-> FALSE, rev |-> rev, gen |-> gen, decl |-> target]
               r == [m EXCEPT !.pending = p]
    <2>1. /\ m # None /\ m \in ForwardRecords /\ RecordSound(m)
          /\ m.phase = "Active" /\ rev > m.polRev /\ gen >= m.polGen
      BY <1>1, <1>5, RecordTypes DEF PolicyUpdate, PolicyRequest, Sound
    <2>2. /\ p \in PendingPolicies /\ p.rev = rev /\ p.gen = gen
          /\ rev \in Nat /\ gen \in Nat
      <3>1. rev \in Nat /\ gen \in Nat /\ target \in Declarations
        BY BoundAssumption, OwnerAssumption, DeclAssumption DEF OwnerRecords
      <3>2. QED
        BY <3>1 DEF PendingPolicies
    <2>3. Start("publish", <<>>, [mem EXCEPT !.fwd = r])
      BY <1>5 DEF PolicyUpdate
    <2> HIDE DEF p
    <2>4. /\ r \in ForwardRecords /\ r.owner = m.owner
          /\ r.phase = m.phase /\ r.failRev = m.failRev /\ r.polRev = m.polRev
          /\ r.polGen = m.polGen /\ r.pending = p /\ r.pendFailed = m.pendFailed
      BY <2>1, <2>2 DEF ForwardRecords
    <2> HIDE DEF r, m
    <2>5. Successor(m, r)
      BY <2>1, <2>2, <2>4, RecordNumbers DEF Successor, RecordSound
    <2>6. QED
      BY <2>1, <2>3, <2>4, <2>5, StartSuccessor DEF m
  <1>6. QED
    BY <1>2, <1>3, <1>4, <1>5 DEF Publication

-----------------------------------------------------------------------------
(* The theorems. *)

\* FencingInv is inductive relative to the type invariant.
LEMMA FencingStep == TypeInv /\ FencingInv /\ [Next]_vars => FencingInv'
  <1> SUFFICES ASSUME TypeInv, FencingInv, [Next]_vars
               PROVE  FencingInv'
    OBVIOUS
  <1>1. CASE UNCHANGED vars
    BY <1>1 DEF vars, FencingInv, Sound, Follows, Fenced, Tokens
  <1>2. CASE Poll
    BY <1>2 DEF Poll, vars, FencingInv, Sound, Follows, Fenced, Tokens
  <1>3. QED
    BY <1>1, <1>2, ExecutionFollows, RecoveryFollows, InfrastructureFollows,
       OwnershipFollows, PublicationFollows, HostFollows DEF Next

\* The empty journal follows itself.
LEMMA FencingInit == Init => FencingInv
  BY DEF Init, FencingInv, Sound, Follows, Fenced, Idle, NewState

\* Memory only changes to the state just journaled or to the journal's.
LEMMA MemoryFollowsJournal ==
    [Next]_vars => mem' \in {mem, job.final, disk}
  <1>1. ASSUME NEW kind, NEW ops, NEW final, Start(kind, ops, final)
        PROVE  mem' = mem
    BY <1>1 DEF Start
  <1>2. Execution => mem' \in {mem, job.final}
    BY DEF Execution, Step, StepRefused, OpFails, Finish, StoreFails, UnwindDone
  <1>3. Recovery => mem' = mem
    BY <1>1 DEF Recovery, RecoverCreation, RecoverCommit, RecoverCandidate,
       RecoverCancelled, RecoverPolicy, RecoverFailures, RecoverLapsed, RecoverDone
  <1>4. Infrastructure => mem' = mem
    BY <1>1 DEF Infrastructure, InfraEnsure, InfraRepair, InfraAcquireIoFd,
       InfraReleaseIo, InfraRetire
  <1>5. Ownership => mem' = mem
    <2>1. ASSUME NEW o, NEW d, PrepareInitial(o, d) \/ PrepareCandidate(o, d)
          PROVE  mem' = mem
      BY <1>1, <2>1 DEF PrepareInitial, PrepareCandidate
    <2>2. ASSUME NEW which, NEW a, ForwardAuthorize(which, a)
          PROVE  mem' = mem
      BY <1>1, <2>2 DEF ForwardAuthorize
    <2>3. ASSUME NEW t, CommitHandoff(t) \/ CommitReplacement(t) \/ CommitInitial(t)
          PROVE  mem' = mem
      BY <1>1, <2>3 DEF CommitHandoff, CommitReplacement, CommitInitial
    <2>4. ForwardGuard \/ RevokeCandidate \/ RevokeForward => mem' = mem
      BY <1>1 DEF ForwardGuard, RevokeCandidate, RevokeForward
    <2>5. ASSUME NEW lease, ForwardLeaseRenew(lease)
          PROVE  mem' = mem
      BY <1>1, <2>5 DEF ForwardLeaseRenew
    <2>6. QED
      BY <2>1, <2>2, <2>3, <2>4, <2>5 DEF Ownership
  <1>6. Publication => mem' = mem
    BY <1>1 DEF Publication, FailuresUpdate, FailuresRecord, PolicyMetadata,
       PolicyUpdate
  <1>7. Host => mem' \in {mem, disk}
    BY DEF Host, Tick, ProcessExit, Crash, Reboot, Restarted, LoseDevice,
       ForeignDevice
  <1>8. Poll => mem' = mem
    BY DEF Poll, vars
  <1>9. UNCHANGED vars => mem' = mem
    BY DEF vars
  <1>10. QED
    BY <1>2, <1>3, <1>4, <1>5, <1>6, <1>7, <1>8, <1>9 DEF Next

\* So every step takes memory to a state that follows it.
LEMMA StepFollows == TypeInv /\ FencingInv /\ [Next]_vars => Follows(mem, mem')
  <1> SUFFICES ASSUME TypeInv, FencingInv, [Next]_vars
               PROVE  Follows(mem, mem')
    OBVIOUS
  <1>1. Follows(mem, mem)
    BY KeepsRecords DEF TypeInv, FencingInv
  <1>2. mem' \in {mem, job.final, disk}
    BY MemoryFollowsJournal
  <1>3. CASE mem' = mem
    BY <1>1, <1>3
  <1>4. CASE mem' = job.final
    BY <1>4 DEF FencingInv
  <1>5. CASE mem' = disk
    BY <1>5 DEF FencingInv
  <1>6. QED
    BY <1>2, <1>3, <1>4, <1>5

\* FencingInv holds in every reachable state.
THEOREM FencingInvariance == Spec => []FencingInv
  BY TypeInvariance, FencingStep, FencingInit, PTL DEF Spec

\* No step of v2.rs lowers the remembered fencing token while the domain
\* exists, neither cancellation nor expiry, a rollback, a store that failed
\* before or after its rename, or a restart; and a token that was not held
\* before is larger.  So a token that was given up is never held again.
THEOREM FenceConsumption == Spec => FenceConsumed
  <1>1. TypeInv /\ FencingInv /\ [Next]_vars =>
            [mem'.admin # None =>
                /\ mem'.token >= mem.token
                /\ \A t \in Tokens(mem') \ Tokens(mem) : t > mem.token]_vars
    BY StepFollows DEF Follows, Fenced
  <1>2. QED
    BY <1>1, TypeInvariance, FencingInvariance, PTL DEF Spec, FenceConsumed

\* Across commits, rollbacks, failed stores and restarts the retained owner is
\* only replaced by one with a larger token and no older generation and epoch,
\* and the lease and revisions of one owner never go back.
THEOREM OwnerProgress == Spec => OwnerAdvances
  <1> DEFINE A == mem.fwd # None /\ mem'.fwd # None =>
        LET old == mem.fwd
            new == mem'.fwd
        IN IF new.owner.token = old.owner.token
           THEN /\ new.owner.lease >= old.owner.lease
                /\ new.failRev >= old.failRev
                /\ new.polRev >= old.polRev /\ new.polGen >= old.polGen
           ELSE /\ new.owner.token > old.owner.token
                /\ new.owner.gen >= old.owner.gen
                /\ new.owner.epoch >= old.owner.epoch
  <1>1. TypeInv /\ FencingInv /\ [Next]_vars => [A]_vars
    BY StepFollows DEF Follows, Advances
  <1>2. QED
    BY <1>1, TypeInvariance, FencingInvariance, PTL DEF Spec, OwnerAdvances

-----------------------------------------------------------------------------
(* Activation: an owner that may become current with a bound authority was   *)
(* committed while the authority's processes ran.                            *)

Witnessed(r, P) ==
    r.authority # None =>
        \E h \in P : /\ h.token = r.owner.token
                     /\ h.epoch = r.authority.epoch
                     /\ {r.authority.io, r.authority.biz} \subseteq h.alive

\* The epoch a commit records is the one of the I/O owner it compared.
Backed(st, P) ==
    /\ st.fwd # None /\ st.fwd.phase = "Active" => Witnessed(st.fwd, P)
    /\ st.io # None => st.io.epoch = st.ioEpoch

\* A commit intent is witnessed before its record becomes active.
ProvenInv ==
    /\ Backed(mem, proven) /\ Backed(disk, proven) /\ Backed(job.final, proven)
    /\ job.kind = "commit" => Witnessed(job.final.cand, proven)

\* Nothing becomes active, and the I/O owner is kept or given up.
Retains(st, nx) ==
    /\ nx.fwd # None /\ nx.fwd.phase = "Active" =>
        /\ st.fwd # None /\ st.fwd.phase = "Active"
        /\ nx.fwd.owner.token = st.fwd.owner.token
        /\ nx.fwd.authority = st.fwd.authority
    /\ nx.io # None => nx.io = st.io /\ nx.ioEpoch = st.ioEpoch

\* What retains a backed state is backed, also by a longer history.
LEMMA RetainsBacked ==
    ASSUME NEW st, NEW nx, NEW P, NEW Q, Backed(st, P), Retains(st, nx),
           P \subseteq Q
    PROVE  Backed(nx, Q)
  BY DEF Backed, Retains, Witnessed

\* A state retains itself.
LEMMA RetainsItself ==
    ASSUME NEW st
    PROVE  Retains(st, st)
  BY DEF Retains

\* The idle job's state is backed by any history.
LEMMA IdleBacked ==
    ASSUME NEW P
    PROVE  Backed(Idle.final, P) /\ Idle.kind # "commit"
  BY DEF Idle, NewState, Backed

\* The rollback restores the previous owner as it was.
LEMMA RollbackRetains ==
    ASSUME NEW st, GoodState(st), st.fwd # None
    PROVE  Retains(st, RollbackJob(st).final) /\ RollbackJob(st).kind = "rollback"
  <1> DEFINE nx == RollbackJob(st).final
             s == [st.fwd EXCEPT !.phase = "Revoked"]
  <1>1. st \in States /\ st.fwd \in ForwardRecords
    BY RecordTypes DEF GoodState
  <1>2. /\ nx.io = st.io /\ nx.ioEpoch = st.ioEpoch /\ nx.fwd \in {st.fwd, s}
        /\ RollbackJob(st).kind = "rollback"
    BY <1>1 DEF RollbackJob, Job, States
  <1>3. s.phase = "Revoked"
    BY <1>1 DEF ForwardRecords
  <1> HIDE DEF nx, s
  <1>4. Retains(st, nx)
    BY <1>2, <1>3 DEF Retains
  <1>5. QED
    BY <1>2, <1>4 DEF nx

\* Preparation and fencing activate nothing.
LEMMA FencingRetains ==
    ASSUME NEW st, GoodState(st), st.fwd # None
    PROVE  /\ Retains(st, PrepareJob(st).final) /\ PrepareJob(st).kind = "prepared"
           /\ Retains(st, RevokeJob(st).final) /\ RevokeJob(st).kind = "revoke"
           /\ Retains(st, ExpireJob(st).final) /\ ExpireJob(st).kind = "expire"
  <1>1. st \in States /\ st.fwd \in ForwardRecords
    BY RecordTypes DEF GoodState
  <1>2. /\ PrepareJob(st).final.fwd.phase = "Prepared"
        /\ PrepareJob(st).final.io = st.io
        /\ PrepareJob(st).final.ioEpoch = st.ioEpoch
        /\ PrepareJob(st).kind = "prepared"
    BY <1>1 DEF PrepareJob, Job, States, ForwardRecords
  <1>3. Revoked(st.fwd).phase = "Revoked"
    BY <1>1 DEF Revoked, ForwardRecords
  <1>4. /\ RevokeJob(st).final.fwd = Revoked(st.fwd)
        /\ RevokeJob(st).final.io = st.io /\ RevokeJob(st).final.ioEpoch = st.ioEpoch
        /\ RevokeJob(st).kind = "revoke"
    BY <1>1 DEF RevokeJob, Job, States
  <1>5. /\ ExpireJob(st).final.fwd = Revoked(st.fwd)
        /\ ExpireJob(st).final.io = st.io /\ ExpireJob(st).final.ioEpoch = st.ioEpoch
        /\ ExpireJob(st).kind = "expire"
    BY <1>1 DEF ExpireJob, Job, States
  <1>6. QED
    BY <1>2, <1>3, <1>4, <1>5 DEF Retains

\* Failure snapshots and policies keep phase, owner and authority.
LEMMA PublishingRetains ==
    ASSUME NEW st, GoodState(st), st.fwd # None
    PROVE  /\ Retains(st, FailuresJob(st).final) /\ FailuresJob(st).kind = "failures"
           /\ Retains(st, PolicyJob(st).final) /\ PolicyJob(st).kind = "policy"
           /\ Retains(st, Cancelled(st))
  <1>1. st \in States /\ st.fwd \in ForwardRecords
    BY RecordTypes DEF GoodState
  <1> DEFINE Kept(nx) == /\ nx.fwd.phase = st.fwd.phase /\ nx.fwd.owner = st.fwd.owner
                         /\ nx.fwd.authority = st.fwd.authority
                         /\ nx.io = st.io /\ nx.ioEpoch = st.ioEpoch
  <1>2. Kept(FailuresJob(st).final) /\ FailuresJob(st).kind = "failures"
    BY <1>1 DEF FailuresJob, Job, States, ForwardRecords
  <1>3. Kept(PolicyJob(st).final) /\ PolicyJob(st).kind = "policy"
    BY <1>1 DEF PolicyJob, Job, States, ForwardRecords
  <1>4. Kept(Cancelled(st))
    BY <1>1 DEF Cancelled, States, ForwardRecords
  <1>5. QED
    BY <1>2, <1>3, <1>4 DEF Retains

\* Completing the creation touches neither record nor I/O owner.
LEMMA CreateRetains ==
    ASSUME NEW st, GoodState(st)
    PROVE  Retains(st, CreateJob(st).final) /\ CreateJob(st).kind = "create"
  <1>1. /\ CreateJob(st).final.fwd = st.fwd /\ CreateJob(st).final.io = st.io
        /\ CreateJob(st).final.ioEpoch = st.ioEpoch /\ CreateJob(st).kind = "create"
    BY DEF CreateJob, Job, States, GoodState
  <1>2. QED
    BY <1>1 DEF Retains

\* A witnessed candidate may become the owner.
LEMMA CommittedBacked ==
    ASSUME NEW st, GoodState(st), st.cand # None, NEW P, NEW Q, Backed(st, Q),
           Witnessed(st.cand, P)
    PROVE  Backed(Committed(st), P)
  <1> DEFINE nx == Committed(st)
  <1>1. st \in States /\ st.cand \in ForwardRecords
    BY RecordTypes DEF GoodState
  <1>2. /\ nx.fwd.owner = st.cand.owner /\ nx.fwd.authority = st.cand.authority
        /\ nx.io = st.io /\ nx.ioEpoch = st.ioEpoch
    BY <1>1 DEF Committed, States, ForwardRecords
  <1> HIDE DEF nx
  <1>3. Backed(nx, P)
    BY <1>2 DEF Backed, Witnessed
  <1>4. QED
    BY <1>3 DEF nx

\* What a handler does once its intent is durable is backed.
LEMMA ContinueBacked ==
    ASSUME NEW j, NEW m, JobOK(j, m), NEW P, Backed(j.final, P),
           j.kind = "commit" => Witnessed(j.final.cand, P)
    PROVE  /\ Backed(Continue(j.kind, j.final).final, P)
           /\ Continue(j.kind, j.final).kind # "commit"
  <1> DEFINE st == j.final
  <1>1. GoodState(st)
    BY DEF JobOK, Jobs, GoodState
  <1>2. CASE j.kind = "commit"
    <2>1. st.cand # None
      BY <1>2 DEF JobOK, Committing
    <2>2. /\ Continue(j.kind, st).final = Committed(st)
          /\ Continue(j.kind, st).kind = "install"
      BY <1>2 DEF Continue, Job
    <2>3. QED
      BY <1>1, <1>2, <2>1, <2>2, CommittedBacked
  <1>3. CASE j.kind \in {"preparing", "failing", "publish", "cancel", "lapse"}
    <2>1. st.fwd # None
      BY <1>3 DEF JobOK
    <2>2. /\ Retains(st, Continue(j.kind, st).final)
          /\ Continue(j.kind, st).kind # "commit"
      BY <1>1, <1>3, <2>1, FencingRetains, PublishingRetains DEF Continue
    <2>3. QED
      BY <2>2, RetainsBacked
  <1>4. CASE j.kind = "intend"
    BY <1>1, <1>4, CreateRetains, RetainsBacked DEF Continue
  <1>5. CASE j.kind \notin {"preparing", "commit", "failing", "publish", "cancel",
                            "lapse", "intend"}
    BY <1>5, IdleBacked DEF Continue
  <1>6. QED
    BY <1>2, <1>3, <1>4, <1>5

\* So is what it does after an error.
LEMMA ErrorsBacked ==
    ASSUME TypeInv, ProvenInv
    PROVE  /\ Backed(OpErrorJob.final, proven) /\ OpErrorJob.kind # "commit"
           /\ Backed(StoreErrorJob.final, proven) /\ StoreErrorJob.kind # "commit"
  <1>1. GoodState(mem) /\ Backed(mem, proven) /\ JobOK(job, mem)
    BY DEF TypeInv, ProvenInv
  <1>2. Backed(UnwindJob.final, proven) /\ UnwindJob.kind # "commit"
    BY <1>1, IdleBacked DEF UnwindJob, Job
  <1>3. CASE job.kind = "install"
    <2>1. mem.fwd # None
      BY <1>1, <1>3, RecordTypes DEF JobOK, Committing
    <2>2. Backed(RollbackJob(mem).final, proven) /\ RollbackJob(mem).kind # "commit"
      BY <1>1, <2>1, RollbackRetains, RetainsBacked
    <2>3. QED
      BY <1>3, <2>2 DEF OpErrorJob, StoreErrorJob
  <1>4. CASE job.kind = "failures"
    BY <1>1, <1>4, IdleBacked DEF OpErrorJob, StoreErrorJob, Job
  <1>5. CASE job.kind \notin {"install", "failures"}
    BY <1>2, <1>5, IdleBacked DEF OpErrorJob, StoreErrorJob
  <1>6. QED
    BY <1>3, <1>4, <1>5

\* Starting a job that ends in a backed state keeps the invariant.
LEMMA StartBacked ==
    ASSUME ProvenInv, NEW kind, NEW ops, NEW final, Start(kind, ops, final),
           proven \subseteq proven', Backed(final, proven'),
           kind = "commit" => Witnessed(final.cand, proven')
    PROVE  ProvenInv'
  <1>1. Backed(mem, proven') /\ Backed(disk, proven')
    BY RetainsItself, RetainsBacked DEF ProvenInv
  <1>2. job' = Job(kind, ops, final) /\ mem' = mem /\ disk' = disk
    BY DEF Start
  <1>3. job'.final = final /\ job'.kind = kind
    BY <1>2 DEF Job
  <1>4. QED
    BY <1>1, <1>2, <1>3 DEF ProvenInv, Backed, Witnessed

\* In particular one that activates nothing.
LEMMA StartRetains ==
    ASSUME ProvenInv, NEW kind, NEW ops, NEW final, Start(kind, ops, final),
           proven' = proven, Retains(mem, final), kind # "commit"
    PROVE  ProvenInv'
  BY RetainsBacked, StartBacked DEF ProvenInv

\* Executing a job keeps the invariant.
LEMMA ExecutionBacked ==
    ASSUME TypeInv, ProvenInv, Execution
    PROVE  ProvenInv'
  <1>0. job \in Jobs /\ job.final \in States /\ JobOK(job, mem)
    BY DEF TypeInv, JobOK, Jobs
  <1>1. proven' = proven
    BY DEF Execution, Step, StepRefused, OpFails, Finish, StoreFails, UnwindDone
  <1>2. CASE Step
    <2>1. UNCHANGED <<disk, mem>>
      BY <1>2 DEF Step
    <2>2. /\ job'.final.fwd = job.final.fwd /\ job'.final.cand = job.final.cand
          /\ job'.final.io = job.final.io /\ job'.final.ioEpoch = job.final.ioEpoch
          /\ job'.kind = job.kind
      <3> DEFINE op == Head(job.ops)
      <3>1. CASE KernelStep(op)
        BY <1>0, <3>1 DEF KernelStep, Jobs
      <3>2. CASE DeviceStep(op)
        <4>1. job' = [job EXCEPT !.ops = Tail(job.ops),
                                 !.final.ifindex =
                                     IF op.op = "ensure" THEN dev.id ELSE @]
          BY <3>2 DEF DeviceStep
        <4>2. QED
          BY <1>0, <4>1 DEF Jobs, States
      <3>3. QED
        BY <1>2, <3>1, <3>2 DEF Step
    <2>3. QED
      BY <1>1, <2>1, <2>2 DEF ProvenInv, Backed
  <1>3. CASE StepRefused \/ OpFails
    <2>1. job' = OpErrorJob /\ UNCHANGED <<disk, mem>>
      BY <1>3 DEF StepRefused, OpFails
    <2>2. QED
      BY <1>1, <2>1, ErrorsBacked DEF ProvenInv
  <1>4. CASE Finish
    <2>1. /\ disk' = job.final /\ mem' = job.final
          /\ job' = Continue(job.kind, job.final)
      BY <1>4 DEF Finish
    <2>2. Backed(job'.final, proven) /\ job'.kind # "commit"
      BY <1>0, <2>1, ContinueBacked DEF ProvenInv
    <2>3. QED
      BY <1>1, <2>1, <2>2 DEF ProvenInv
  <1>5. CASE StoreFails
    <2>1. job' = StoreErrorJob /\ disk' \in {disk, job.final} /\ mem' = mem
      BY <1>5 DEF StoreFails
    <2>2. QED
      BY <1>1, <2>1, ErrorsBacked DEF ProvenInv
  <1>6. CASE UnwindDone
    <2>1. job' = Idle /\ UNCHANGED <<disk, mem>>
      BY <1>6 DEF UnwindDone
    <2>2. QED
      BY <1>1, <2>1, IdleBacked DEF ProvenInv
  <1>7. QED
    BY <1>2, <1>3, <1>4, <1>5, <1>6 DEF Execution

\* Recovery activates nothing.
LEMMA RecoveryBacked ==
    ASSUME TypeInv, ProvenInv, Recovery
    PROVE  ProvenInv'
  <1>0. GoodState(mem) /\ mem \in States
    BY DEF TypeInv, GoodState
  <1>1. CASE RecoverCreation
    BY <1>0, <1>1, CreateRetains, StartRetains DEF RecoverCreation, Quiet
  <1>2. CASE RecoverCommit
    <2>1. mem.fwd # None
      BY <1>0, <1>2, RecordTypes DEF RecoverCommit, Committing
    <2>2. QED
      BY <1>0, <1>2, <2>1, RollbackRetains, StartRetains DEF RecoverCommit, Quiet
  <1>3. CASE RecoverCandidate
    <2>1. Retains(mem, [mem EXCEPT !.cand = None])
      BY <1>0 DEF Retains, States
    <2>2. QED
      BY <1>3, <2>1, StartRetains DEF RecoverCandidate, Quiet
  <1>4. CASE RecoverCancelled
    BY <1>0, <1>4, FencingRetains, StartRetains DEF RecoverCancelled, NeedCancel, Quiet
  <1>5. CASE RecoverPolicy
    BY <1>0, <1>5, PublishingRetains, StartRetains DEF RecoverPolicy, PolicyDue, Quiet
  <1>6. CASE RecoverFailures
    BY <1>0, <1>6, PublishingRetains, StartRetains
    DEF RecoverFailures, FailuresDue, Quiet
  <1>7. CASE RecoverLapsed
    <2>1. mem.fwd # None /\ proven' = proven
      BY <1>7 DEF RecoverLapsed, Lapsed, Quiet
    <2>2. CASE mem.fwd.pending # None
      BY <1>0, <1>7, <2>1, <2>2, PublishingRetains, StartRetains DEF RecoverLapsed
    <2>3. CASE mem.fwd.pending = None
      BY <1>0, <1>7, <2>1, <2>3, FencingRetains, StartRetains DEF RecoverLapsed
    <2>4. QED
      BY <2>2, <2>3
  <1>8. CASE RecoverDone
    BY <1>8 DEF RecoverDone, ProvenInv
  <1>9. QED
    BY <1>1, <1>2, <1>3, <1>4, <1>5, <1>6, <1>7, <1>8 DEF Recovery

\* Infrastructure requests activate nothing; a new I/O owner comes with its
\* epoch.
LEMMA InfrastructureBacked ==
    ASSUME TypeInv, ProvenInv, Infrastructure
    PROVE  ProvenInv'
  <1>0. mem \in States /\ Backed(mem, proven)
        /\ (mem.fwd # None => mem.fwd \in ForwardRecords)
    BY RecordTypes DEF TypeInv, GoodState, ProvenInv
  <1>1. ASSUME NEW c \in Callers, InfraEnsure(c)
        PROVE  ProvenInv'
    <2> DEFINE st == [CreationIntent(mem) EXCEPT !.admin = c]
    <2>1. st.fwd = mem.fwd /\ st.io = mem.io /\ st.ioEpoch = mem.ioEpoch
      BY <1>0 DEF CreationIntent, States
    <2>2. Start("intend", <<>>, st) /\ proven' = proven
      BY <1>1 DEF InfraEnsure, DrawMarker
    <2> HIDE DEF st
    <2>3. QED
      BY <2>1, <2>2, StartRetains DEF Retains
  <1>2. CASE InfraRepair
    <2> DEFINE st == [CreationIntent(mem) EXCEPT
                        !.fwd = IF @ = None THEN None
                                ELSE [@ EXCEPT !.phase = "Revoked"],
                        !.cand = None, !.ifindex = 0, !.io = None]
    <2>1. st.io = None /\ (st.fwd # None => st.fwd.phase # "Active")
      BY <1>0 DEF CreationIntent, States, ForwardRecords
    <2>2. \E ops : Start("intend", ops, st)
      BY <1>2 DEF InfraRepair
    <2>3. proven' = proven
      BY <1>2 DEF InfraRepair, DrawMarker
    <2> HIDE DEF st
    <2>4. QED
      BY <2>1, <2>2, <2>3, StartRetains DEF Retains
  <1>3. ASSUME NEW p \in Procs, NEW e \in 1..MaxIoEpoch, InfraAcquireIoFd(p, e)
        PROVE  ProvenInv'
    <2> DEFINE st == [mem EXCEPT !.io = [proc |-> p, epoch |-> e, boot |-> boot],
                                 !.ioEpoch = e]
    <2>1. st.fwd = mem.fwd /\ st.io.epoch = st.ioEpoch
      BY <1>0 DEF States
    <2>2. Start("acquire", <<>>, st) /\ proven' = proven
      BY <1>3 DEF InfraAcquireIoFd
    <2> HIDE DEF st
    <2>3. Backed(st, proven)
      BY <1>0, <2>1 DEF Backed
    <2>4. QED
      BY <2>2, <2>3, StartBacked
  <1>4. CASE InfraReleaseIo
    <2>1. Retains(mem, [mem EXCEPT !.io = None])
      BY <1>0 DEF Retains, States
    <2>2. QED
      BY <1>4, <2>1, StartRetains DEF InfraReleaseIo, Quiet
  <1>5. CASE InfraRetire
    <2>1. (\E ops : Start("retire", ops, NewState)) /\ proven' = proven
      BY <1>5 DEF InfraRetire, Quiet
    <2>2. Retains(mem, NewState)
      BY DEF Retains, NewState
    <2>3. QED
      BY <2>1, <2>2, StartRetains
  <1>6. QED
    BY <1>1, <1>2, <1>3, <1>4, <1>5 DEF Infrastructure

\* A commit is accepted without an authority, or with a witness.
LEMMA CommitWitnessed ==
    ASSUME TypeInv, ProvenInv, NEW r, NEW t, CommitRequest(r, t)
    PROVE  proven \subseteq proven' /\ Witnessed(r, proven')
  <1>1. CASE r.authority = None /\ UNCHANGED proven
    BY <1>1 DEF Witnessed
  <1>2. CASE r.authority # None
    <2> DEFINE h == [token |-> r.owner.token, epoch |-> mem.ioEpoch, alive |-> alive]
    <2>1. ReceiptAccepted(r.authority, t) /\ proven' = proven \cup {h}
      BY <1>2 DEF CommitRequest, CommitAccepted
    <2>2. /\ mem.io # None /\ mem.io.proc \in alive /\ r.authority.io = mem.io.proc
          /\ r.authority.epoch = mem.io.epoch /\ r.authority.biz \in alive
      BY <2>1 DEF ReceiptAccepted, IoAlive
    <2>3. mem.io.epoch = mem.ioEpoch
      BY <2>2 DEF ProvenInv, Backed
    <2>4. h \in proven'
      BY <2>1
    <2>5. /\ h.token = r.owner.token /\ h.epoch = r.authority.epoch
          /\ {r.authority.io, r.authority.biz} \subseteq h.alive
      BY <2>2, <2>3
    <2> HIDE DEF h
    <2>6. QED
      BY <2>1, <2>4, <2>5 DEF Witnessed
  <1>3. QED
    BY <1>1, <1>2 DEF CommitRequest, CommitAccepted

\* The three kinds of commit activate a witnessed record.
LEMMA CommitBacked ==
    ASSUME TypeInv, ProvenInv, NEW t,
           CommitHandoff(t) \/ CommitReplacement(t) \/ CommitInitial(t)
    PROVE  ProvenInv'
  <1>1. GoodState(mem) /\ mem \in States /\ Backed(mem, proven)
    BY DEF TypeInv, GoodState, ProvenInv
  <1>2. CASE CommitHandoff(t)
    <2>1. /\ CommitRequest(mem.cand, t) /\ mem.cand # None
          /\ Start("save", <<>>, Committed(mem))
      BY <1>2 DEF CommitHandoff, CommitRequest
    <2>2. proven \subseteq proven' /\ Witnessed(mem.cand, proven')
      BY <2>1, CommitWitnessed
    <2>3. Backed(Committed(mem), proven')
      BY <1>1, <2>1, <2>2, CommittedBacked
    <2>4. QED
      BY <2>1, <2>2, <2>3, StartBacked
  <1>3. CASE CommitReplacement(t)
    <2> DEFINE st == [mem EXCEPT !.cand.phase = "Preparing"]
    <2>1. /\ CommitRequest(mem.cand, t) /\ mem.cand # None
          /\ Start("commit", <<>>, st)
      BY <1>3 DEF CommitReplacement, CommitRequest
    <2>2. proven \subseteq proven' /\ Witnessed(mem.cand, proven')
      BY <2>1, CommitWitnessed
    <2>3. mem.cand \in ForwardRecords
      BY <1>1, <2>1, RecordTypes
    <2>4. /\ st.fwd = mem.fwd /\ st.io = mem.io /\ st.ioEpoch = mem.ioEpoch
          /\ st.cand.owner = mem.cand.owner /\ st.cand.authority = mem.cand.authority
      BY <1>1, <2>3 DEF States, ForwardRecords
    <2> HIDE DEF st
    <2>5. Witnessed(st.cand, proven')
      BY <2>2, <2>4 DEF Witnessed
    <2>6. Retains(mem, st)
      BY <2>4 DEF Retains
    <2>7. Backed(st, proven')
      BY <1>1, <2>2, <2>6, RetainsBacked
    <2>8. QED
      BY <2>1, <2>2, <2>5, <2>7, StartBacked
  <1>4. CASE CommitInitial(t)
    <2> DEFINE st == [mem EXCEPT !.fwd.phase = "Active"]
    <2>1. CommitRequest(mem.fwd, t) /\ mem.fwd # None
      BY <1>4 DEF CommitInitial, CommitRequest
    <2>2. \E ops : Start("activate", ops, st)
      BY <1>4 DEF CommitInitial
    <2>3. proven \subseteq proven' /\ Witnessed(mem.fwd, proven')
      BY <2>1, CommitWitnessed
    <2>4. mem.fwd \in ForwardRecords
      BY <1>1, <2>1, RecordTypes
    <2>5. /\ st.fwd.owner = mem.fwd.owner /\ st.fwd.authority = mem.fwd.authority
          /\ st.io = mem.io /\ st.ioEpoch = mem.ioEpoch
      BY <1>1, <2>4 DEF States, ForwardRecords
    <2> HIDE DEF st
    <2>6. Backed(st, proven')
      BY <1>1, <2>3, <2>5 DEF Backed, Witnessed
    <2>7. QED
      BY <2>2, <2>3, <2>6, StartBacked
  <1>5. QED
    BY <1>2, <1>3, <1>4

\* Other requests of owners activate nothing: an authority is only bound to a
\* prepared record.
LEMMA OwnershipBacked ==
    ASSUME TypeInv, ProvenInv, Ownership
    PROVE  ProvenInv'
  <1>0. /\ GoodState(mem) /\ mem \in States
        /\ mem.fwd # None => mem.fwd \in ForwardRecords
        /\ mem.cand # None => mem.cand \in ForwardRecords
    BY RecordTypes DEF TypeInv, GoodState
  <1>1. ASSUME NEW o \in Owners, NEW d \in Decls, PrepareInitial(o, d)
        PROVE  ProvenInv'
    <2> DEFINE st == [mem EXCEPT !.fwd = NewRecord(o, d, "Preparing"),
                         !.token = o.token,
                         !.sysctls = IF mem.fwd = None THEN ~kern.sysctl ELSE @]
    <2>1. st.fwd.phase = "Preparing" /\ st.io = mem.io /\ st.ioEpoch = mem.ioEpoch
      BY <1>0 DEF States, NewRecord
    <2>2. Start("preparing", <<>>, st) /\ proven' = proven
      BY <1>1 DEF PrepareInitial, Quiet
    <2> HIDE DEF st
    <2>3. QED
      BY <2>1, <2>2, StartRetains DEF Retains
  <1>2. ASSUME NEW o \in Owners, NEW d \in Decls, PrepareCandidate(o, d)
        PROVE  ProvenInv'
    <2> DEFINE st == [mem EXCEPT !.cand = NewRecord(o, d, "Prepared"),
                                 !.token = o.token]
    <2>1. st.fwd = mem.fwd /\ st.io = mem.io /\ st.ioEpoch = mem.ioEpoch
      BY <1>0 DEF States
    <2>2. Start("save", <<>>, st) /\ proven' = proven
      BY <1>2 DEF PrepareCandidate, Quiet
    <2> HIDE DEF st
    <2>3. QED
      BY <2>1, <2>2, StartRetains DEF Retains
  <1>3. ASSUME NEW which \in {"fwd", "cand"}, NEW a, ForwardAuthorize(which, a)
        PROVE  ProvenInv'
    <2> DEFINE st == [mem EXCEPT ![which].authority = a]
    <2>1. /\ which = "fwd" => st.fwd.phase = "Prepared"
          /\ which = "cand" => st.fwd = mem.fwd
          /\ st.io = mem.io /\ st.ioEpoch = mem.ioEpoch
      BY <1>0, <1>3 DEF ForwardAuthorize, States, ForwardRecords
    <2>2. Start("settle", <<>>, st) /\ proven' = proven
      BY <1>3 DEF ForwardAuthorize, Quiet
    <2> HIDE DEF st
    <2>3. QED
      BY <2>1, <2>2, StartRetains DEF Retains
  <1>4. CASE ForwardGuard
    <2>1. Retains(mem, [mem EXCEPT !.fwd.phase = "Guarded"])
      BY <1>0, <1>4 DEF ForwardGuard, Retains, States, ForwardRecords
    <2>2. QED
      BY <1>4, <2>1, StartRetains DEF ForwardGuard, Quiet
  <1>5. CASE RevokeCandidate
    <2>1. Retains(mem, [mem EXCEPT !.cand = None])
      BY <1>0 DEF Retains, States
    <2>2. QED
      BY <1>5, <2>1, StartRetains DEF RevokeCandidate, Quiet
  <1>6. CASE RevokeForward
    <2>1. mem.fwd # None /\ proven' = proven
      BY <1>6 DEF RevokeForward, Quiet
    <2>2. CASE mem.fwd.pending # None
      BY <1>0, <1>6, <2>1, <2>2, PublishingRetains, StartRetains DEF RevokeForward
    <2>3. CASE mem.fwd.pending = None
      BY <1>0, <1>6, <2>1, <2>3, FencingRetains, StartRetains DEF RevokeForward
    <2>4. QED
      BY <2>2, <2>3
  <1>7. ASSUME NEW lease \in 0..MaxTime, ForwardLeaseRenew(lease)
        PROVE  ProvenInv'
    <2> DEFINE st == [mem EXCEPT !.fwd.owner.lease = lease]
    <2>1. mem.fwd \in ForwardRecords /\ mem.fwd # None /\ mem.fwd.owner \in OwnerRecords
      BY <1>0, <1>7, OwnerType DEF ForwardLeaseRenew
    <2>2. /\ st.fwd.phase = mem.fwd.phase /\ st.fwd.authority = mem.fwd.authority
          /\ st.fwd.owner.token = mem.fwd.owner.token
          /\ st.io = mem.io /\ st.ioEpoch = mem.ioEpoch
      BY <1>0, <2>1 DEF States, ForwardRecords, OwnerRecords
    <2>3. Start("settle", <<>>, st) /\ proven' = proven
      BY <1>7 DEF ForwardLeaseRenew, Quiet
    <2> HIDE DEF st
    <2>4. QED
      BY <2>1, <2>2, <2>3, StartRetains DEF Retains
  <1>8. QED
    BY <1>1, <1>2, <1>3, <1>4, <1>5, <1>6, <1>7, CommitBacked DEF Ownership

\* Publication keeps phase, owner and authority.
LEMMA PublicationBacked ==
    ASSUME TypeInv, ProvenInv, Publication
    PROVE  ProvenInv'
  <1>0. /\ mem \in States
        /\ mem.fwd # None => mem.fwd \in ForwardRecords
        /\ mem.cand # None => mem.cand \in ForwardRecords
    BY RecordTypes DEF TypeInv, GoodState
  <1>1. ASSUME NEW kind, NEW st, Start(kind, <<>>, st), kind # "commit", Quiet,
               mem.fwd # None,
               st.fwd.phase = mem.fwd.phase, st.fwd.owner = mem.fwd.owner,
               st.fwd.authority = mem.fwd.authority,
               st.io = mem.io, st.ioEpoch = mem.ioEpoch
        PROVE  ProvenInv'
    BY <1>1, StartRetains DEF Retains, Quiet
  <1>2. ASSUME NEW rev, NEW failed, FailuresUpdate(rev, failed)
        PROVE  ProvenInv'
    <2> DEFINE st == [mem EXCEPT !.fwd.pendFailed = [rev |-> rev, failed |-> failed]]
    <2>1. mem.fwd # None /\ Quiet /\ Start("failing", <<>>, st)
      BY <1>2 DEF FailuresUpdate, FailuresRequest
    <2>2. /\ st.fwd.phase = mem.fwd.phase /\ st.fwd.owner = mem.fwd.owner
          /\ st.fwd.authority = mem.fwd.authority
          /\ st.io = mem.io /\ st.ioEpoch = mem.ioEpoch
      BY <1>0, <2>1 DEF States, ForwardRecords
    <2> HIDE DEF st
    <2>3. QED
      BY <1>1, <2>1, <2>2
  <1>3. ASSUME NEW which \in {"fwd", "cand"}, NEW rev, NEW failed,
               FailuresRecord(which, rev, failed)
        PROVE  ProvenInv'
    <2> DEFINE st == [mem EXCEPT ![which].failed = failed, ![which].failRev = rev]
    <2>1. mem[which] # None /\ Quiet /\ Start("save", <<>>, st)
      BY <1>3 DEF FailuresRecord, FailuresRequest
    <2>2. CASE which = "fwd"
      <3>1. /\ st.fwd.phase = mem.fwd.phase /\ st.fwd.owner = mem.fwd.owner
            /\ st.fwd.authority = mem.fwd.authority /\ mem.fwd # None
            /\ st.io = mem.io /\ st.ioEpoch = mem.ioEpoch
        BY <1>0, <2>1, <2>2 DEF States, ForwardRecords
      <3> HIDE DEF st
      <3>2. QED
        BY <1>1, <2>1, <3>1
    <2>3. CASE which = "cand"
      <3>1. st.fwd = mem.fwd /\ st.io = mem.io /\ st.ioEpoch = mem.ioEpoch
        BY <1>0, <2>1, <2>3 DEF States
      <3> HIDE DEF st
      <3>2. QED
        BY <2>1, <3>1, StartRetains DEF Retains, Quiet
    <2>4. QED
      BY <2>2, <2>3
  <1>4. ASSUME NEW rev, NEW gen, PolicyMetadata(rev, gen)
        PROVE  ProvenInv'
    <2> DEFINE st == [mem EXCEPT !.fwd.polRev = rev, !.fwd.polGen = gen]
    <2>1. mem.fwd # None /\ Quiet /\ Start("save", <<>>, st)
      BY <1>4 DEF PolicyMetadata, PolicyRequest
    <2>2. /\ st.fwd.phase = mem.fwd.phase /\ st.fwd.owner = mem.fwd.owner
          /\ st.fwd.authority = mem.fwd.authority
          /\ st.io = mem.io /\ st.ioEpoch = mem.ioEpoch
      BY <1>0, <2>1 DEF States, ForwardRecords
    <2> HIDE DEF st
    <2>3. QED
      BY <1>1, <2>1, <2>2
  <1>5. ASSUME NEW rev, NEW gen, NEW target, PolicyUpdate(rev, gen, target)
        PROVE  ProvenInv'
    <2> DEFINE p == [cancelled |-> FALSE, rev |-> rev, gen |-> gen, decl |-> target]
               st == [mem EXCEPT !.fwd.pending = p]
    <2>1. mem.fwd # None /\ Quiet /\ Start("publish", <<>>, st)
      BY <1>5 DEF PolicyUpdate, PolicyRequest
    <2> HIDE DEF p
    <2>2. /\ st.fwd.phase = mem.fwd.phase /\ st.fwd.owner = mem.fwd.owner
          /\ st.fwd.authority = mem.fwd.authority
          /\ st.io = mem.io /\ st.ioEpoch = mem.ioEpoch
      BY <1>0, <2>1 DEF States, ForwardRecords
    <2> HIDE DEF st
    <2>3. QED
      BY <1>1, <2>1, <2>2
  <1>6. QED
    BY <1>2, <1>3, <1>4, <1>5 DEF Publication

\* A restart takes up a journal that is backed like memory.
LEMMA HostBacked ==
    ASSUME ProvenInv, Host
    PROVE  ProvenInv'
  <1>1. CASE Crash \/ Reboot
    <2>1. job' = Idle /\ mem' = disk /\ disk' = disk /\ proven' = proven
      BY <1>1 DEF Crash, Reboot, Restarted
    <2>2. QED
      BY <2>1, IdleBacked DEF ProvenInv
  <1>2. CASE UNCHANGED <<disk, mem, job, proven>>
    BY <1>2 DEF ProvenInv
  <1>3. QED
    BY <1>1, <1>2 DEF Host, Tick, ProcessExit, LoseDevice, ForeignDevice

\* An owner with a bound authority is only active, across rollbacks, failed
\* stores and restarts, after a commit in v2.rs that found the authority's I/O
\* process holding the descriptor and its business process running.
THEOREM Activation == Spec => []ActivationProven
  <1>1. Init => ProvenInv
    BY DEF Init, ProvenInv, Backed, Idle, NewState
  <1>2. TypeInv /\ ProvenInv /\ [Next]_vars => ProvenInv'
    <2> SUFFICES ASSUME TypeInv, ProvenInv, [Next]_vars
                 PROVE  ProvenInv'
      OBVIOUS
    <2>1. CASE UNCHANGED vars
      BY <2>1 DEF vars, ProvenInv
    <2>2. CASE Poll
      BY <2>2 DEF Poll, vars, ProvenInv
    <2>3. QED
      BY <2>1, <2>2, ExecutionBacked, RecoveryBacked, InfrastructureBacked,
         OwnershipBacked, PublicationBacked, HostBacked DEF Next
  <1>3. ProvenInv => ActivationProven
    BY DEF ProvenInv, Backed, Witnessed, ActivationProven
  <1>4. QED
    BY <1>1, <1>2, <1>3, TypeInvariance, PTL DEF Spec

-----------------------------------------------------------------------------
(* Adoption.  The marker is written to whatever interface bears the name, so  *)
(* it must be the one mkdev has just made: the descriptor that mkdev keeps    *)
(* open holds it, unless somebody else may delete it.                         *)

Stamping(j) == j.ops # <<>> /\ Head(j.ops).op = "stamp"

\* Only an interface of the service is marked, held open or about to be
\* marked.
DeviceInv ==
    /\ dev # None /\ dev.foreign => dev.marker = 0
    /\ lifefd # 0 => dev # None /\ ~dev.foreign /\ lifefd = dev.id
    /\ Stamping(job) => lifefd # 0

\* Only complete_creation stamps, and it does not begin with that.
LEMMA NoStamp ==
    /\ \A j \in Jobs : j.kind # "create" => ~Stamping(j)
    /\ \A st : ~Stamping(CreateJob(st))
  <1>1. ASSUME NEW j \in Jobs, j.kind # "create"
        PROVE  ~Stamping(j)
    <2>1. j.ops \in Seq(Ops)
      BY <1>1 DEF Jobs
    <2>2. \A op \in Ops : op.op # "stamp"
      BY DEF Ops
    <2>3. QED
      BY <2>1, <2>2, TailOps DEF Stamping
  <1>2. ASSUME NEW st
        PROVE  ~Stamping(CreateJob(st))
    <2>1. CreateJob(st).ops \in {MakeOps, OpenOps}
      BY CreateStarts DEF CreateJob, Job
    <2>2. QED
      BY <2>1, CreateParts DEF Stamping
  <1>3. QED
    BY <1>1, <1>2

\* A step that leaves the interface and its descriptor alone may do anything
\* but make the stamp the next operation.
LEMMA KeepsDevice ==
    ASSUME DeviceInv, UNCHANGED <<dev, lifefd>>, ~Stamping(job')
    PROVE  DeviceInv'
  BY DEF DeviceInv, Stamping

\* In particular a handler that starts any job but a creation.
LEMMA StartKeepsDevice ==
    ASSUME TypeInv', DeviceInv, NEW kind, NEW ops, NEW final,
           Start(kind, ops, final), kind # "create", lifefd' = lifefd
    PROVE  DeviceInv'
  <1>1. job' \in Jobs /\ job'.kind # "create" /\ dev' = dev
    BY DEF TypeInv, JobOK, Start, Job
  <1>2. QED
    BY <1>1, NoStamp, KeepsDevice

\* Error handling creates nothing.
LEMMA ErrorKinds == OpErrorJob.kind # "create" /\ StoreErrorJob.kind # "create"
  BY DEF OpErrorJob, StoreErrorJob, RollbackJob, UnwindJob, Job, Idle

\* Nor do the jobs that follow another intent than a creation's.
LEMMA JobKinds ==
    ASSUME NEW st
    PROVE  /\ PrepareJob(st).kind # "create" /\ FailuresJob(st).kind # "create"
           /\ PolicyJob(st).kind # "create" /\ RevokeJob(st).kind # "create"
           /\ ExpireJob(st).kind # "create"
  BY DEF PrepareJob, FailuresJob, PolicyJob, RevokeJob, ExpireJob, Job

\* An operation that succeeds.
LEMMA StepKeepsDevice ==
    ASSUME TypeInv, TypeInv', DeviceInv, Step
    PROVE  DeviceInv'
  <1> DEFINE op == Head(job.ops)
  <1>0. /\ job \in Jobs /\ job.ops # <<>> /\ dev \in Devices \cup {None}
        /\ lifefd \in Nat /\ serial \in Nat
    BY DEF TypeInv, TypeOK, JobOK, Step
  <1>1. job'.ops = Tail(job.ops) /\ job'.kind = job.kind /\ job' \in Jobs
    BY <1>0 DEF Step, KernelStep, DeviceStep, TypeInv, JobOK, Jobs
  <1>2. Stamping(job') => op.op = "mkdev"
    <2>1. CASE job.kind = "create"
      BY <1>0, <1>1, <2>1, CreateTail DEF Stamping, Jobs, Kinds, PlainKinds
    <2>2. CASE job.kind # "create"
      BY <1>1, <2>2, NoStamp
    <2>3. QED
      BY <2>1, <2>2
  <1>3. Ready(op) /\ (KernelStep(op) \/ DeviceStep(op))
    BY DEF Step
  <1> HIDE DEF op
  <1>4. CASE KernelStep(op)
    BY <1>2, <1>4, KeepsDevice DEF KernelStep, DeviceOps
  <1>5. CASE DeviceStep(op) /\ op.op = "mkdev"
    <2>1. /\ lifefd' = serial + 1
          /\ dev' = [id |-> serial + 1, marker |-> 0, pinned |-> FALSE, foreign |-> FALSE]
      BY <1>5 DEF DeviceStep
    <2>2. dev' \in Devices
      BY <1>0, <2>1 DEF Devices
    <2>3. dev' # None
      BY <2>2, DeviceAssumption
    <2>4. dev'.foreign = FALSE /\ dev'.id = lifefd'
      BY <2>1
    <2>5. lifefd' # 0
      BY <1>0, <2>1
    <2>6. QED
      BY <2>3, <2>4, <2>5 DEF DeviceInv
  <1>6. CASE DeviceStep(op) /\ op.op = "stamp"
    <2>1. dev \in Devices /\ dev' = [dev EXCEPT !.marker = mem.marker]
          /\ lifefd' = lifefd /\ lifefd # 0
      BY <1>0, <1>3, <1>6 DEF DeviceStep, DeviceInv, Stamping, op, Ready
    <2>2. dev' \in Devices /\ dev'.foreign = dev.foreign /\ dev'.id = dev.id
      BY <2>1, TypeInv' DEF Devices, TypeInv, TypeOK, States
    <2>3. QED
      BY <1>2, <1>6, <2>1, <2>2, DeviceAssumption DEF DeviceInv
  <1>7. CASE DeviceStep(op) /\ op.op = "open"
    <2>1. dev' = dev /\ lifefd' = OpenFd /\ dev # None /\ dev.marker # 0
      BY <1>3, <1>7 DEF DeviceStep, Ready, Owned
    <2>2. QED
      BY <1>2, <1>7, <2>1 DEF DeviceInv, OpenFd
  <1>8. CASE DeviceStep(op) /\ op.op = "pin"
    <2>1. dev \in Devices /\ dev' = [dev EXCEPT !.pinned = TRUE] /\ lifefd' = lifefd
      BY <1>0, <1>3, <1>8 DEF DeviceStep, Ready, Owned
    <2>2. dev' \in Devices /\ dev'.foreign = dev.foreign /\ dev'.id = dev.id
          /\ dev'.marker = dev.marker
      BY <2>1 DEF Devices
    <2>3. QED
      BY <1>2, <1>8, <2>1, <2>2, DeviceAssumption DEF DeviceInv
  <1>9. CASE DeviceStep(op) /\ op.op = "ensure"
    <2>1. dev' = dev /\ lifefd' = lifefd
      BY <1>9 DEF DeviceStep
    <2>2. QED
      BY <1>2, <1>9, <2>1, KeepsDevice
  <1>10. CASE DeviceStep(op) /\ op.op = "rmdev"
    <2>1. dev' = None /\ lifefd' = 0
      BY <1>10 DEF DeviceStep
    <2>2. QED
      BY <1>2, <1>10, <2>1 DEF DeviceInv
  <1>11. QED
    BY <1>3, <1>4, <1>5, <1>6, <1>7, <1>8, <1>9, <1>10 DEF DeviceStep, DeviceOps

\* Executing a job, errors and the next job included.
LEMMA ExecutionKeepsDevice ==
    ASSUME TypeInv, TypeInv', DeviceInv, Execution
    PROVE  DeviceInv'
  <1>0. job' \in Jobs
    BY DEF TypeInv, JobOK
  <1>1. CASE StepRefused \/ StoreFails
    <2>1. UNCHANGED <<dev, lifefd>> /\ job'.kind # "create"
      BY <1>1, ErrorKinds DEF StepRefused, StoreFails
    <2>2. QED
      BY <1>0, <2>1, NoStamp, KeepsDevice
  <1>2. CASE OpFails
    <2>1. job'.kind # "create"
      BY <1>2, ErrorKinds DEF OpFails
    <2>2. UNCHANGED <<dev, lifefd>> \/ (dev' = None /\ lifefd' = 0)
      BY <1>2 DEF OpFails
    <2>3. ~Stamping(job')
      BY <1>0, <2>1, NoStamp
    <2>4. QED
      BY <2>2, <2>3, KeepsDevice DEF DeviceInv
  <1>3. CASE Finish
    <2>1. UNCHANGED <<dev, lifefd>> /\ job' = Continue(job.kind, job.final)
      BY <1>3 DEF Finish
    <2>2. job' = CreateJob(job.final) \/ job'.kind # "create"
      BY <2>1, JobKinds DEF Continue, Job, Idle
    <2>3. ~Stamping(job')
      BY <1>0, <2>2, NoStamp
    <2>4. QED
      BY <2>1, <2>3, KeepsDevice
  <1>4. CASE UnwindDone
    <2>1. UNCHANGED <<dev, lifefd>> /\ job'.kind # "create"
      BY <1>4 DEF UnwindDone, Idle
    <2>2. QED
      BY <1>0, <2>1, NoStamp, KeepsDevice
  <1>5. QED
    BY <1>1, <1>2, <1>3, <1>4, StepKeepsDevice DEF Execution

\* Recovery resumes a creation from its first operation.
LEMMA RecoveryKeepsDevice ==
    ASSUME TypeInv', DeviceInv, Recovery
    PROVE  DeviceInv'
  <1>1. CASE RecoverCreation
    <2>1. job' = CreateJob(mem) /\ UNCHANGED <<dev, lifefd>>
      BY <1>1 DEF RecoverCreation, Start, CreateJob, Job, Quiet
    <2>2. QED
      BY <2>1, NoStamp, KeepsDevice
  <1>2. CASE RecoverDone
    BY <1>2 DEF RecoverDone, DeviceInv, Stamping
  <1>3. CASE ~RecoverCreation /\ ~RecoverDone
    <2>1. lifefd' = lifefd
      BY <1>3 DEF Recovery, RecoverCommit, RecoverCandidate, RecoverCancelled,
                  RecoverPolicy, RecoverFailures, RecoverLapsed, Quiet
    <2>2. \E kind, ops, final : Start(kind, ops, final) /\ kind # "create"
      BY <1>3 DEF Recovery, RecoverCommit, RecoverCandidate, RecoverCancelled,
                  RecoverPolicy, RecoverFailures, RecoverLapsed,
                  RollbackJob, ExpireJob, PolicyJob, FailuresJob, Job
    <2>3. QED
      BY <2>1, <2>2, StartKeepsDevice
  <1>4. QED
    BY <1>1, <1>2, <1>3

\* The descriptor is handed out, and opened for it, on a marked interface.
LEMMA InfrastructureKeepsDevice ==
    ASSUME TypeInv', DeviceInv, Infrastructure
    PROVE  DeviceInv'
  <1>1. ASSUME NEW p \in Procs, NEW e \in 1..MaxIoEpoch, InfraAcquireIoFd(p, e)
        PROVE  DeviceInv'
    <2>1. dev' = dev /\ dev # None /\ dev.marker # 0 /\ lifefd' = OpenFd
      BY <1>1 DEF InfraAcquireIoFd, Identity, Start
    <2>2. ~Stamping(job')
      BY <1>1 DEF InfraAcquireIoFd, Start, Job, Stamping
    <2>3. QED
      BY <2>1, <2>2 DEF DeviceInv, OpenFd
  <1>2. CASE InfraRepair \/ InfraReleaseIo \/ InfraRetire
             \/ \E c \in Callers : InfraEnsure(c)
    <2>1. lifefd' = lifefd
      BY <1>2 DEF InfraRepair, InfraReleaseIo, InfraRetire, InfraEnsure, DrawMarker, Quiet
    <2>2. \/ \E ops, final : Start("intend", ops, final)
          \/ \E ops, final : Start("settle", ops, final)
          \/ \E ops, final : Start("retire", ops, final)
      <3>1. CASE InfraRetire
        BY <3>1 DEF InfraRetire
      <3>2. CASE InfraRepair
        BY <3>2 DEF InfraRepair
      <3>3. CASE InfraReleaseIo
        BY <3>3 DEF InfraReleaseIo
      <3>4. CASE \E c \in Callers : InfraEnsure(c)
        BY <3>4 DEF InfraEnsure
      <3>5. QED
        BY <1>2, <3>1, <3>2, <3>3, <3>4
    <2>3. QED
      BY <2>1, <2>2, StartKeepsDevice
  <1>3. QED
    BY <1>1, <1>2 DEF Infrastructure

\* Requests about owners leave the interface alone.
LEMMA OwnershipKeepsDevice ==
    ASSUME TypeInv', DeviceInv, Ownership
    PROVE  DeviceInv'
  <1>1. ASSUME NEW o, NEW d, PrepareInitial(o, d) \/ PrepareCandidate(o, d)
        PROVE  DeviceInv'
    BY <1>1, StartKeepsDevice DEF PrepareInitial, PrepareCandidate, Quiet
  <1>2. ASSUME NEW which, NEW a, ForwardAuthorize(which, a)
        PROVE  DeviceInv'
    BY <1>2, StartKeepsDevice DEF ForwardAuthorize, Quiet
  <1>3. ASSUME NEW t, CommitHandoff(t) \/ CommitReplacement(t) \/ CommitInitial(t)
        PROVE  DeviceInv'
    <2>1. lifefd' = lifefd
      BY <1>3 DEF CommitHandoff, CommitReplacement, CommitInitial, CommitRequest
    <2>2. QED
      BY <1>3, <2>1, StartKeepsDevice DEF CommitHandoff, CommitReplacement, CommitInitial
  <1>4. CASE ForwardGuard \/ RevokeCandidate
    BY <1>4, StartKeepsDevice DEF ForwardGuard, RevokeCandidate, Quiet
  <1>5. CASE RevokeForward
    <2>1. lifefd' = lifefd
      BY <1>5 DEF RevokeForward, Quiet
    <2>2. \E kind, ops, final : Start(kind, ops, final) /\ kind # "create"
      BY <1>5, JobKinds DEF RevokeForward
    <2>3. QED
      BY <2>1, <2>2, StartKeepsDevice
  <1>6. ASSUME NEW lease, ForwardLeaseRenew(lease)
        PROVE  DeviceInv'
    BY <1>6, StartKeepsDevice DEF ForwardLeaseRenew, Quiet
  <1>7. QED
    BY <1>1, <1>2, <1>3, <1>4, <1>5, <1>6 DEF Ownership

\* So does publication.
LEMMA PublicationKeepsDevice ==
    ASSUME TypeInv', DeviceInv, Publication
    PROVE  DeviceInv'
  <1>1. ASSUME NEW rev, NEW failed, NEW which,
               FailuresUpdate(rev, failed) \/ FailuresRecord(which, rev, failed)
        PROVE  DeviceInv'
    BY <1>1, StartKeepsDevice DEF FailuresUpdate, FailuresRecord, FailuresRequest, Quiet
  <1>2. ASSUME NEW rev, NEW gen, NEW target,
               PolicyMetadata(rev, gen) \/ PolicyUpdate(rev, gen, target)
        PROVE  DeviceInv'
    BY <1>2, StartKeepsDevice DEF PolicyMetadata, PolicyUpdate, PolicyRequest, Quiet
  <1>3. QED
    BY <1>1, <1>2 DEF Publication

\* A restart closes the descriptor; somebody else's interface bears no marker.
LEMMA HostKeepsDevice ==
    ASSUME ~DeviceLoss, TypeInv, DeviceInv, Host
    PROVE  DeviceInv'
  <1>1. CASE Crash \/ Reboot
    <2>1. dev' \in {dev, None} /\ lifefd' = 0 /\ job' = Idle
      BY <1>1 DEF Crash, Reboot, Restarted
    <2>2. QED
      BY <2>1 DEF DeviceInv, Stamping, Idle
  <1>2. CASE ForeignDevice
    <2>1. /\ dev = None /\ UNCHANGED <<lifefd, job>>
          /\ dev' = [id |-> serial + 1, marker |-> 0, pinned |-> TRUE, foreign |-> TRUE]
      BY <1>2 DEF ForeignDevice
    <2>2. QED
      BY <2>1 DEF DeviceInv, Stamping
  <1>3. CASE UNCHANGED <<dev, lifefd, job>>
    BY <1>3 DEF DeviceInv, Stamping
  <1>4. QED
    BY <1>1, <1>2, <1>3 DEF Host, Tick, ProcessExit, LoseDevice

\* While nobody else deletes the interface, the service never takes one for its
\* own that it did not create (linux.rs marks it by name), across failing
\* operations, restarts and foreign interfaces of the same name, and its
\* descriptor belongs to the interface in its journal.
THEOREM Adoption ==
    ASSUME ~DeviceLoss
    PROVE  Spec => []NoForeignAdoption
  <1>1. Init => DeviceInv
    BY DEF Init, DeviceInv, Stamping, Idle
  <1>2. TypeInv /\ TypeInv' /\ DeviceInv /\ [Next]_vars => DeviceInv'
    <2> SUFFICES ASSUME TypeInv, TypeInv', DeviceInv, [Next]_vars
                 PROVE  DeviceInv'
      OBVIOUS
    <2>1. CASE UNCHANGED vars
      BY <2>1 DEF vars, DeviceInv, Stamping
    <2>2. CASE Poll
      BY <2>2 DEF Poll, vars, DeviceInv, Stamping
    <2>3. QED
      BY <2>1, <2>2, ExecutionKeepsDevice, RecoveryKeepsDevice,
         InfrastructureKeepsDevice, OwnershipKeepsDevice, PublicationKeepsDevice,
         HostKeepsDevice DEF Next
  <1>3. DeviceInv => NoForeignAdoption
    BY DEF DeviceInv, NoForeignAdoption, Identity
  <1>4. QED
    BY <1>1, <1>2, <1>3, TypeInvariance, PTL DEF Spec

=============================================================================
