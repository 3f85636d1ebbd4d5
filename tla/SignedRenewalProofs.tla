------------------------- MODULE SignedRenewalProofs -------------------------
(***************************************************************************)
(* Proofs about the handover of the packet port (SignedRenewal): every     *)
(* transaction is accounted for, the order intent - packet port - netd is  *)
(* kept, and the boot-clock guard never ends a successor's ownership.      *)
(*                                                                         *)
(* The invariant has three layers.  Port(c, m) relates the authority       *)
(* endpoint to the manager and mentions nobody else; Filed(j, r, c, m, s)  *)
(* ties both to the journal on disk; Place(a, j, c, m) says what the agent *)
(* may rely on where it stands.  They are operators of values, so a lemma  *)
(* about a request speaks of the state before and after it in the same     *)
(* words.                                                                  *)
(***************************************************************************)
EXTENDS SignedRenewal, TLAPS

-----------------------------------------------------------------------------
(* The endpoint and the manager                                            *)

Controllers ==
    [by : Int, binding : Int, owned : BOOLEAN, pending : Opt(Envelopes),
     active : Opt(Envelopes), cand : Opt(Preparations), term : Opt(Endings),
     rev : Int, epoch : Int, cancelled : Opt(Envelopes),
     isolated : Opt(Envelopes), retired : Opt(Envelopes)]

\* The transaction of a record the endpoint keeps.
Of(r) == Transaction(r.env, r.exp)

\* While the port has an owner the endpoint knows which one it is.
Agreed(c, m) ==
    m.owner # None =>
        /\ m.owner.epoch = m.epoch /\ c.owned /\ c.binding = m.epoch
        /\ IF c.active = None THEN m.owner.tx = 0
           ELSE c.active.tx = m.owner.tx /\ c.active.epoch = m.epoch

\* The manager holds a transaction only for a record of the endpoint, and a
\* record only for the staged envelope, whose epoch is still to come.
Held(c, m) ==
    /\ m.pending # None => c.cand # None /\ m.pending = Of(c.cand)
    /\ c.cand # None => c.pending = c.cand.env
    /\ c.pending # None => c.pending.epoch > m.epoch /\ c.pending.tx > 0

\* A commit is never behind the endpoint's back.
Concluded(c, m) ==
    m.last # None =>
        /\ m.last.phase = "committed" => c.term # None /\ Of(c.term) = m.last.txn
        /\ m.last.phase = "committed" /\ c.cand # None => Of(c.cand) # m.last.txn

\* Revisions the manager has seen; what it accepts replaces an older epoch.
Aged(m) ==
    /\ m.last # None => m.last.txn.rev <= m.rev /\ m.last.txn.exp # m.last.txn.epoch
    /\ m.pending # None => m.pending.rev <= m.rev /\ m.pending.exp # m.pending.epoch

Port(c, m) ==
    /\ c \in Controllers /\ m \in Managers
    /\ Agreed(c, m) /\ Held(c, m) /\ Concluded(c, m) /\ Aged(m)
    /\ c.binding <= m.epoch

-----------------------------------------------------------------------------
(* The journal                                                             *)

\* The journal by itself.
Sound(j) ==
    j # None =>
        /\ j \in Journals
        /\ j.env = None => j.co = None
        /\ j.env # None => j.env.epoch = j.owner.epoch /\ j.env.tx = j.tx
        /\ j.co # None => j.phase \in MbbPhases \cup {"committed", "committed_owner_isolated"}
        /\ j.phase \in MbbPhases /\ j.env # None => j.co # None
        /\ j.res => j.phase \in MbbPhases \cup {"committed"}
        /\ j.phase \in MbbPhases /\ ~j.res => j.env = None

\* One envelope per transaction, and the journal's is the one on disk.
Unique(e, j, s) ==
    e # None => e.tx \in 1..s /\ (j # None /\ e.tx = j.tx => e = j.env)

\* A transaction that was called off is neither staged nor the owner's.
CalledOff(e, c, m) ==
    e # None =>
        /\ m.owner # None => m.owner.tx # e.tx
        /\ c.pending # None => c.pending.tx # e.tx

\* r is the worker the owner's record names.
Intended(j, r, m) ==
    /\ m.last # None /\ m.last.phase = "committed"
    /\ m.owner # None /\ m.owner.tx = m.last.txn.tx
    => \/ j # None /\ j.tx = m.last.txn.tx /\ j.co # None /\ j.co.intent
       \/ r = m.last.txn.tx

Filed(j, r, c, m, s) ==
    /\ Unique(c.pending, j, s) /\ Unique(c.active, j, s)
    /\ c.term # None => Unique(c.term.env, j, s)
    /\ c.pending # None => j # None /\ j.env = c.pending
    /\ c.cand # None => j.co # None
    /\ m.last # None => /\ m.last.txn.tx \in 1..s
                        /\ j # None /\ j.co = None => m.last.txn.tx # j.tx
    /\ CalledOff(c.cancelled, c, m) /\ CalledOff(c.retired, c, m)
    /\ Intended(j, r, m)
    /\ j # None => /\ j.tx \in 1..s
                   /\ j.phase = "committed" => r = j.tx
                   /\ j.phase = "committed_owner_isolated" => m.owner = None

-----------------------------------------------------------------------------
(* The agent                                                               *)

Unstarted == {"lGuard", "lSpawn"}

Attaching ==
    {"lStage", "lAttach", "lProbe", "lPrepare", "lAuthorize", "lReady", "lCommit"}

Undoing == {"lUndo", "lDrop"}

Completing == {"rNetd", "rPrepare", "rAuthorize", "rReady"}

TakingBack == {"recover", "rStop", "rDrop", "rRevoke", "rRetire"}

Reserving == {"mReserve", "mSpawn"}

Replacing ==
    {"mExpired", "mStage", "mPrepare", "mLook", "mInstall", "mCommit", "mConfirm",
     "mDrain", "mFinish", "mRetire", "mIsolate", "mFence", "mStopOld", "mFinal"}

Finishing == {"fPrepare", "fAuthorize", "fReady", "proof", "commit", "records"}

Pcs ==
    {"idle", "serve", "fresh", "retire", "mbb", "close"} \cup Unstarted \cup Attaching
    \cup Undoing \cup Completing \cup TakingBack \cup Reserving \cup Replacing \cup Finishing

Agents ==
    [pc : Pcs, by : Int, act : Opt(PortStates), binding : Int, epoch : Int,
     fence : Int, live : BOOLEAN, fd : BOOLEAN, att : BOOLEAN, failed : BOOLEAN]

\* What the journal holds while the agent stands at pc.
Journaled(pc, j) ==
    /\ pc = "fresh" => j = None \/ j.phase = "committed"
    /\ pc \notin {"idle", "serve", "fresh"} => j # None
    /\ pc = "retire" => j.phase = "committed"
    /\ pc \in Unstarted \cup Attaching \cup Undoing =>
          j.co = None /\ ~j.res
          /\ j.phase \notin MbbPhases \cup {"committed", "committed_owner_isolated"}
    /\ pc \in TakingBack => j.co = None \/ j.phase = "committed_owner_isolated"
    /\ pc \in TakingBack \cup Completing => j.phase \notin MbbPhases \cup {"committed"} /\ ~j.res
    /\ pc = "rDrop" => j.env # None
    /\ pc \in {"mbb"} \cup Reserving \cup Replacing => j.phase \in MbbPhases
    /\ pc \in Unstarted \cup Reserving => j.env = None
    /\ pc = "mSpawn" => j.res
    /\ pc \in Attaching \cup Completing \cup Replacing \cup Finishing => j.env # None

\* What the agent read of the port, and what still holds of it.
Place(a, j, c, m) ==
    /\ a \in Agents
    /\ Journaled(a.pc, j)
    /\ a.pc \in {"fresh", "retire"} \cup TakingBack =>
          a.act # None /\ (c.pending # None => a.act.pending = c.pending)
    /\ a.pc \in {"rRevoke", "rRetire"} => c.pending = None
    /\ a.pc = "mStopOld" => m.owner = None
    /\ a.pc \in {"commit", "lCommit", "records"} /\ m.owner # None => m.owner.tx = j.tx
    /\ a.pc \in {"commit", "lCommit"} => j.owner.epoch <= m.epoch

-----------------------------------------------------------------------------
(* Guard, netd and the whole                                               *)

Copies == [active : Opt(Envelopes), binding : Int, revoked : BOOLEAN]

\* What the guard copied names at most the owner whose authority ended.
Guarded(g, m, ended_) ==
    g # None =>
        /\ g \in Copies /\ g.binding <= m.epoch
        /\ m.owner # None /\ m.epoch = g.binding => ~g.revoked /\ m.owner.tx \in ended_

Forwarded(f, m) ==
    f \in Forwards /\ (f.phase = "Active" => f.owner.epoch <= m.epoch)

Inv ==
    /\ serial \in Nat /\ orec \in Int
    /\ Port(ctl, mgr)
    /\ Sound(jr)
    /\ Filed(jr, orec, ctl, mgr, serial)
    /\ Place(ag, jr, ctl, mgr)
    /\ Guarded(guard, mgr, lapsed)
    /\ Forwarded(fw, mgr)

-----------------------------------------------------------------------------
(* Reconciling                                                             *)

\* What a reconciled endpoint knows of the manager.
Reconciled(c, m) ==
    /\ c.owned <=> m.owner # None
    /\ c.epoch >= m.epoch
    /\ c.cand # None => m.pending = Of(c.cand)
    /\ c.term # None => m.last # None /\ m.last.txn = Of(c.term)

\* Steps that take nothing new into the port.
Follows(c, m, c2, m2) ==
    /\ m2.owner \in {m.owner, None} /\ m2.epoch = m.epoch
    /\ m2.last # None => \/ m2.last = m.last
                         \/ m.pending # None /\ m2.last.txn = m.pending
                            /\ m2.last.phase # "committed"
    /\ c2.pending \in {c.pending, None}
    /\ c2.cand # None => c.cand # None
    /\ c2.active # None => \/ c2.active = c.active
                           \/ c.cand # None /\ c2.active = c.cand.env
    /\ c2.term # None => \/ c.term # None /\ c2.term.env = c.term.env
                         \/ c.cand # None /\ c2.term.env = c.cand.env
    /\ c2.cancelled = c.cancelled /\ c2.retired = c.retired

\* The fields of a reconciled endpoint, one by one.
LEMMA ReconcileOwnerFields ==
  ASSUME NEW c \in Controllers, NEW m \in Managers
  PROVE  LET q == ReconcileOwner(c, m)
             held == c.cand # None /\ m.pending = Of(c.cand)
             done == c.cand # None /\ ~held /\ m.last # None /\ m.last.txn = Of(c.cand)
         IN /\ q \in Controllers
            /\ q.by = c.by /\ q.binding = c.binding /\ q.owned = c.owned
            /\ q.rev = c.rev /\ q.epoch = c.epoch /\ q.cancelled = c.cancelled
            /\ q.isolated = c.isolated /\ q.retired = c.retired
            /\ held => q.cand # None /\ q.cand.env = c.cand.env /\ q.cand.exp = c.cand.exp
            /\ ~held => q.cand = None
            /\ q.pending = IF done /\ c.pending = c.cand.env THEN None ELSE c.pending
            /\ q.term # None => m.last # None /\ Of(q.term) = m.last.txn
            /\ done => /\ q.term # None /\ q.term.env = c.cand.env
                       /\ q.term.exp = c.cand.exp /\ q.term.phase = m.last.phase
            /\ ~done => q.term \in {c.term, None}
            /\ ~done /\ c.term # None /\ m.last # None /\ Of(c.term) = m.last.txn
                 => q.term = c.term
            /\ q.active \in {c.active, None} \/ (done /\ q.active = c.cand.env)
            /\ done /\ m.last.phase = "committed" /\ Epoch(m.owner) = c.cand.env.epoch
                 => q.active = c.cand.env
            /\ /\ ~(done /\ m.last.phase = "committed")
               /\ c.active # None => Epoch(m.owner) = c.active.epoch
               => q.active = c.active
PROOF
  <1> USE NoneAssumption
  <1> DEFINE q == ReconcileOwner(c, m)
             held == c.cand # None /\ m.pending = Of(c.cand)
             done == c.cand # None /\ ~held /\ m.last # None /\ m.last.txn = Of(c.cand)
             owns(e) == Epoch(m.owner) = e.epoch
             term == IF done THEN [env |-> c.cand.env, exp |-> c.cand.exp, phase |-> m.last.phase]
                     ELSE c.term
             active == IF done /\ m.last.phase = "committed"
                       THEN IF owns(c.cand.env) THEN c.cand.env ELSE None
                       ELSE c.active
             cand == IF held THEN [c.cand EXCEPT !.prepared = TRUE] ELSE None
             pending == IF done /\ c.pending = c.cand.env THEN None ELSE c.pending
             active2 == IF term # None /\ active = term.env /\ ~owns(term.env)
                        THEN None ELSE active
             term2 == IF term # None /\ (m.last = None \/ m.last.txn # Of(term))
                      THEN None ELSE term
  <1>1. q = [c EXCEPT !.cand = cand, !.pending = pending, !.active = active2,
                      !.term = term2]
    BY DEF ReconcileOwner, Of
  <1>2. /\ c.cand \in Opt(Preparations) /\ c.term \in Opt(Endings)
        /\ c.pending \in Opt(Envelopes) /\ c.active \in Opt(Envelopes)
        /\ m.last \in Opt(Outcomes)
    BY DEF Controllers, Managers
  <1>3. /\ cand \in Opt(Preparations) /\ pending \in Opt(Envelopes)
        /\ held => cand # None /\ cand.env = c.cand.env /\ cand.exp = c.cand.exp
        /\ ~held => cand = None
    BY <1>2 DEF Opt, Preparations
  <1>4. /\ term \in Opt(Endings)
        /\ done => /\ term # None /\ term.env = c.cand.env /\ term.exp = c.cand.exp
                   /\ term.phase = m.last.phase
        /\ ~done => term = c.term
    <2>1. CASE done
      <3>1. c.cand \in Preparations /\ m.last \in Outcomes
        BY <1>2, <2>1 DEF Opt
      <3>2. term = [env |-> c.cand.env, exp |-> c.cand.exp, phase |-> m.last.phase]
        BY <2>1
      <3>3. term \in Endings
        BY <3>1, <3>2 DEF Preparations, Outcomes, Endings
      <3> QED BY <2>1, <3>2, <3>3 DEF Opt
    <2>2. CASE ~done
      BY <2>2, <1>2
    <2> QED BY <2>1, <2>2
  <1>5. active \in Opt(Envelopes)
    BY <1>2 DEF Opt, Preparations
  <1>6. active2 \in Opt(Envelopes) /\ active2 \in {active, None}
    BY <1>5 DEF Opt
  <1>7. term2 \in Opt(Endings) /\ term2 \in {term, None}
    BY <1>4 DEF Opt
  <1> HIDE DEF cand, pending, active2, term2
  <1>8. /\ q \in Controllers /\ q.cand = cand /\ q.pending = pending
        /\ q.active = active2 /\ q.term = term2
        /\ q.by = c.by /\ q.binding = c.binding /\ q.owned = c.owned
        /\ q.rev = c.rev /\ q.epoch = c.epoch /\ q.cancelled = c.cancelled
        /\ q.isolated = c.isolated /\ q.retired = c.retired
    <2>1. /\ cand \in Opt(Preparations) /\ pending \in Opt(Envelopes)
          /\ active2 \in Opt(Envelopes) /\ term2 \in Opt(Endings)
      BY <1>3, <1>6, <1>7
    <2> HIDE NoneAssumption
    <2> HIDE DEF q
    <2> QED BY <1>1, <2>1 DEF Controllers
  <1> HIDE DEF q
  <1>9. term2 # None => m.last # None /\ Of(term2) = m.last.txn
    BY DEF term2
  <1>10. done => term2 # None /\ term2 = term
    BY <1>4 DEF term2, Of
  <1>11. ~done /\ c.term # None /\ m.last # None /\ Of(c.term) = m.last.txn
           => term2 = c.term
    BY <1>4 DEF term2
  <1>12. done /\ m.last.phase = "committed" /\ owns(c.cand.env) => active2 = c.cand.env
    BY <1>4 DEF active2
  <1>13. /\ ~(done /\ m.last.phase = "committed")
         /\ c.active # None => owns(c.active)
         => active2 = c.active
    BY DEF active2
  <1>14. active2 \in {c.active, None} \/ (done /\ active2 = c.cand.env)
    BY <1>6
  <1>15. pending = IF done /\ c.pending = c.cand.env THEN None ELSE c.pending
    BY DEF pending
  <1> HIDE DEF held, done, term, active, owns
  <1>16. ~done => term = c.term
    BY <1>4
  <1> QED
    BY <1>3, <1>4, <1>7, <1>8, <1>9, <1>10, <1>11, <1>12, <1>13, <1>14, <1>15, <1>16
       DEF held, done, owns, q

LEMMA ReconcileFields ==
  ASSUME NEW c \in Controllers, NEW m \in Managers
  PROVE  LET q == ReconcileOwner(c, m)
             d == Reconcile(c, m)
             attached == q.pending # None /\ q.pending.epoch = m.epoch
         IN /\ d \in Controllers
            /\ d.cand = q.cand /\ d.term = q.term /\ d.by = c.by /\ d.rev = c.rev
            /\ d.cancelled = c.cancelled /\ d.isolated = c.isolated /\ d.retired = c.retired
            /\ attached => d.pending = None /\ d.active = q.pending
            /\ ~attached => d.pending = q.pending /\ d.active = q.active
            /\ d.epoch >= c.epoch /\ d.epoch >= m.epoch
            /\ d.owned <=> m.owner # None
            /\ m.owner # None => d.binding = m.owner.epoch
            /\ m.owner = None => d.binding \in {c.binding, m.epoch}
PROOF
  <1> USE NoneAssumption
  <1> DEFINE q == ReconcileOwner(c, m)
             d == Reconcile(c, m)
             attached == q.pending # None /\ q.pending.epoch = m.epoch
             active == IF attached THEN q.pending ELSE q.active
             pending == IF attached THEN None ELSE q.pending
             epoch == Larger(q.epoch, m.epoch)
             owned == m.owner # None
             binding == IF m.owner # None THEN m.owner.epoch
                        ELSE IF active # None /\ active.epoch = m.epoch
                             THEN active.epoch ELSE q.binding
  <1>1. d = [q EXCEPT !.pending = pending, !.active = active, !.epoch = epoch,
                      !.binding = binding, !.owned = owned]
    BY DEF Reconcile
  <1>2. /\ q \in Controllers /\ q.by = c.by /\ q.rev = c.rev /\ q.epoch = c.epoch
        /\ q.cancelled = c.cancelled /\ q.isolated = c.isolated /\ q.retired = c.retired
        /\ q.binding = c.binding
    BY ReconcileOwnerFields
  <1> HIDE DEF q
  <1>3. /\ q.pending \in Opt(Envelopes) /\ q.active \in Opt(Envelopes)
        /\ q.epoch \in Int /\ q.binding \in Int /\ m.epoch \in Int
        /\ m.owner \in Opt(Owners)
    BY <1>2 DEF Controllers, Managers
  <1>4. active \in Opt(Envelopes) /\ pending \in Opt(Envelopes)
    BY <1>3 DEF Opt
  <1>5. epoch \in Int /\ epoch >= q.epoch /\ epoch >= m.epoch
    BY <1>3 DEF Larger
  <1>6. /\ binding \in Int
        /\ m.owner # None => binding = m.owner.epoch
        /\ m.owner = None => binding \in {q.binding, m.epoch}
    BY <1>3 DEF Opt, Owners
  <1>7. owned \in BOOLEAN /\ (owned <=> m.owner # None)
    OBVIOUS
  <1>8. /\ attached => pending = None /\ active = q.pending
        /\ ~attached => pending = q.pending /\ active = q.active
    OBVIOUS
  <1> HIDE NoneAssumption DEF active, pending, epoch, binding, owned, attached
  <1>9. /\ d \in Controllers /\ d.cand = q.cand /\ d.term = q.term /\ d.by = q.by
        /\ d.rev = q.rev /\ d.cancelled = q.cancelled /\ d.isolated = q.isolated
        /\ d.retired = q.retired /\ d.pending = pending /\ d.active = active
        /\ d.epoch = epoch /\ d.binding = binding /\ d.owned = owned
    BY <1>1, <1>2, <1>4, <1>5, <1>6, <1>7 DEF Controllers
  <1> HIDE DEF d
  <1>10. LET at == q.pending # None /\ q.pending.epoch = m.epoch
         IN /\ at => d.pending = None /\ d.active = q.pending
            /\ ~at => d.pending = q.pending /\ d.active = q.active
    BY <1>8, <1>9 DEF attached
  <1> QED
    BY <1>2, <1>5, <1>6, <1>7, <1>9, <1>10 DEF q, d

\* An endpoint that reconciles with a manager that changed nothing.
LEMMA ReconcileKeeps ==
  ASSUME NEW c, NEW m, Port(c, m)
  PROVE  LET d == Reconcile(c, m)
         IN Port(d, m) /\ Reconciled(d, m) /\ Follows(c, m, d, m)
PROOF
  <1> USE NoneAssumption
  <1> DEFINE q == ReconcileOwner(c, m)
             d == Reconcile(c, m)
  <1>1. /\ c \in Controllers /\ m \in Managers
        /\ Agreed(c, m) /\ Held(c, m) /\ Concluded(c, m) /\ Aged(m) /\ c.binding <= m.epoch
    BY DEF Port
  <1>2. /\ q \in Controllers
        /\ m.pending # None => q.cand # None
        /\ q.cand # None => /\ c.cand # None /\ m.pending = Of(c.cand)
                            /\ q.cand.env = c.cand.env /\ q.cand.exp = c.cand.exp
                            /\ q.pending = c.pending
        /\ q.pending \in {c.pending, None}
        /\ q.term # None => m.last # None /\ Of(q.term) = m.last.txn
    BY <1>1, ReconcileOwnerFields DEF Held
  <1>3. q.term # None => \/ c.term # None /\ q.term.env = c.term.env
                         \/ c.cand # None /\ q.term.env = c.cand.env
    BY <1>1, ReconcileOwnerFields
  <1>4. m.last # None /\ m.last.phase = "committed" => q.term # None
    BY <1>1, ReconcileOwnerFields DEF Concluded
  <1>5. q.active \in {c.active, None} \/ (c.cand # None /\ q.active = c.cand.env)
    BY <1>1, ReconcileOwnerFields
  <1>6. m.owner # None => q.active = c.active
    <2> SUFFICES ASSUME m.owner # None PROVE q.active = c.active
      OBVIOUS
    <2>1. c.active # None => Epoch(m.owner) = c.active.epoch
      BY <1>1 DEF Agreed, Epoch
    <2>2. ~(c.cand # None /\ m.last # None /\ m.last.txn = Of(c.cand) /\ m.last.phase = "committed")
      BY <1>1 DEF Concluded
    <2> QED BY <1>1, <2>1, <2>2, ReconcileOwnerFields
  <1> HIDE DEF q
  <1>7. ~(q.pending # None /\ q.pending.epoch = m.epoch)
    <2> SUFFICES ASSUME q.pending # None PROVE q.pending.epoch # m.epoch
      OBVIOUS
    <2>1. q.pending = c.pending /\ c.pending.epoch > m.epoch
      BY <1>1, <1>2 DEF Held
    <2>2. m.epoch \in Int /\ c.pending.epoch \in Int
      BY <1>1, <2>1 DEF Controllers, Managers, Opt, Envelopes
    <2> QED BY <2>1, <2>2
  <1>8. /\ d \in Controllers /\ d.cand = q.cand /\ d.term = q.term
        /\ d.pending = q.pending /\ d.active = q.active
        /\ d.epoch >= m.epoch /\ (d.owned <=> m.owner # None)
        /\ m.owner # None => d.binding = m.owner.epoch
        /\ m.owner = None => d.binding \in {c.binding, m.epoch}
        /\ d.cancelled = c.cancelled /\ d.retired = c.retired
    BY <1>1, <1>7, ReconcileFields DEF q
  <1> HIDE DEF d
  <1>9. Of(d.cand) = Of(c.cand) \/ d.cand = None
    BY <1>2, <1>8 DEF Of, Transaction
  <1>10. Agreed(d, m)
    BY <1>1, <1>6, <1>8 DEF Agreed
  <1>11. Held(d, m)
    BY <1>1, <1>2, <1>8, <1>9 DEF Held
  <1>12. Concluded(d, m)
    BY <1>1, <1>2, <1>4, <1>8, <1>9 DEF Concluded
  <1>13. d.binding <= m.epoch
    <2>1. m.epoch \in Int
      BY <1>1 DEF Managers
    <2> QED BY <1>1, <1>8, <2>1 DEF Agreed
  <1>14. Reconciled(d, m)
    BY <1>2, <1>8, <1>9 DEF Reconciled
  <1>15. Follows(c, m, d, m)
    BY <1>2, <1>3, <1>5, <1>8 DEF Follows
  <1> QED BY <1>1, <1>8, <1>10, <1>11, <1>12, <1>13, <1>14, <1>15 DEF Port, d

-----------------------------------------------------------------------------
(* What the manager does by itself, and quiet requests                     *)

\* Nothing new: the pair stays sound, nothing is acquired, and whatever the
\* journal accounted for it still does.
Keeps(c, m, c2, m2) ==
    /\ Port(c2, m2)
    /\ m2.owner \in {m.owner, None} /\ m2.epoch = m.epoch
    /\ c2.pending \in {c.pending, None}
    /\ \A j, r, s : Filed(j, r, c, m, s) => Filed(j, r, c2, m2, s)

LEMMA KeepsTransitive ==
  ASSUME NEW c, NEW m, NEW c2, NEW m2, NEW c3, NEW m3,
         Keeps(c, m, c2, m2), Keeps(c2, m2, c3, m3)
  PROVE  Keeps(c, m, c3, m3)
PROOF
  BY DEF Keeps

LEMMA FollowsFiled ==
  ASSUME NEW c, NEW m, NEW c2, NEW m2,
         Port(c, m), Port(c2, m2), Follows(c, m, c2, m2)
  PROVE  Keeps(c, m, c2, m2)
PROOF
  <1> USE NoneAssumption
  <1> SUFFICES ASSUME NEW j, NEW r, NEW s, Filed(j, r, c, m, s)
               PROVE  Filed(j, r, c2, m2, s)
    BY DEF Keeps, Follows
  <1>1. c.cand # None => c.pending = c.cand.env /\ c.pending # None
    BY DEF Port, Held, Controllers, Opt, Preparations
  <1>2. Unique(c.pending, j, s) /\ Unique(c.active, j, s)
        /\ (c.term # None => Unique(c.term.env, j, s))
        /\ (c.cand # None => j.co # None /\ j # None)
    BY <1>1 DEF Filed
  <1>3. /\ Unique(c2.pending, j, s) /\ Unique(c2.active, j, s)
        /\ c2.term # None => Unique(c2.term.env, j, s)
    <2>1. Unique(None, j, s)
      BY DEF Unique
    <2> QED BY <1>1, <1>2, <2>1 DEF Follows
  <1>4. /\ c2.pending # None => j # None /\ j.env = c2.pending
        /\ c2.cand # None => j.co # None
    BY <1>2 DEF Filed, Follows
  <1>5. m2.last # None => /\ m2.last.txn.tx \in 1..s
                          /\ j # None /\ j.co = None => m2.last.txn.tx # j.tx
    <2>1. CASE m2.last = m.last
      BY <2>1 DEF Filed
    <2>2. CASE m.pending # None /\ m2.last.txn = m.pending
      <3>1. c.cand # None /\ m.pending = Of(c.cand)
        BY <2>2 DEF Port, Held
      <3>2. m2.last.txn.tx = c.pending.tx
        BY <1>1, <2>2, <3>1 DEF Of, Transaction
      <3> QED BY <1>1, <1>2, <3>1, <3>2 DEF Unique
    <2> QED BY <2>1, <2>2 DEF Follows
  <1>6. CalledOff(c2.cancelled, c2, m2) /\ CalledOff(c2.retired, c2, m2)
    BY DEF Filed, CalledOff, Follows
  <1>7. Intended(j, r, m2)
    BY DEF Filed, Intended, Follows
  <1>8. j # None => /\ j.tx \in 1..s
                    /\ j.phase = "committed" => r = j.tx
                    /\ j.phase = "committed_owner_isolated" => m2.owner = None
    BY DEF Filed, Follows
  <1> QED BY <1>3, <1>4, <1>5, <1>6, <1>7, <1>8 DEF Filed

LEMMA ReconcileQuiet ==
  ASSUME NEW c, NEW m, Port(c, m)
  PROVE  Keeps(c, m, Reconcile(c, m), m) /\ Reconciled(Reconcile(c, m), m)
PROOF
  BY ReconcileKeeps, FollowsFiled

LEMMA ManagerLoses ==
  ASSUME NEW c, NEW m, NEW m2 \in Managers, Port(c, m),
         m2.owner \in {m.owner, None}, m2.epoch = m.epoch, m2.rev = m.rev,
         \/ m2.pending = m.pending /\ m2.last = m.last
         \/ /\ m.pending # None /\ m2.pending = None /\ m2.last # None
            /\ m2.last.txn = m.pending /\ m2.last.phase # "committed"
  PROVE  Keeps(c, m, c, m2)
PROOF
  <1> USE NoneAssumption
  <1>1. Agreed(c, m2)
    BY DEF Port, Agreed
  <1>2. Held(c, m2)
    BY DEF Port, Held
  <1>3. Concluded(c, m2)
    BY DEF Port, Concluded
  <1>4. Aged(m2)
    BY DEF Port, Aged
  <1>5. Port(c, m2)
    BY <1>1, <1>2, <1>3, <1>4 DEF Port
  <1>6. Follows(c, m, c, m2)
    BY DEF Follows
  <1> QED BY <1>5, <1>6, FollowsFiled

\* apply_owner_change after a loss.
LEMMA AppliedLoss ==
  ASSUME NEW c, NEW m2, Port(c, mgr),
         m2 # None => Keeps(c, mgr, c, m2)
  PROVE  LET r == Applied(c, m2)
         IN /\ Keeps(c, mgr, r.ctl, r.mgr) /\ Reconciled(r.ctl, r.mgr)
            /\ r.mgr = IF m2 = None THEN mgr ELSE m2
PROOF
  <1>1. CASE m2 = None
    <2>1. Applied(c, m2) = [ctl |-> Reconcile(c, mgr), mgr |-> mgr, ok |-> FALSE]
      BY <1>1 DEF Applied, Done
    <2> QED BY <1>1, <2>1, ReconcileQuiet
  <1>2. CASE m2 # None
    <2>1. Applied(c, m2) = [ctl |-> Reconcile(c, m2), mgr |-> m2, ok |-> TRUE]
      BY <1>2 DEF Applied, Done
    <2>2. Port(c, m2)
      BY <1>2 DEF Keeps
    <2>3. Keeps(c, m2, Reconcile(c, m2), m2) /\ Reconciled(Reconcile(c, m2), m2)
      BY <2>2, ReconcileQuiet
    <2> QED BY <1>2, <2>1, <2>3, KeepsTransitive
  <1> QED BY <1>1, <1>2

LEMMA Itself ==
  ASSUME NEW c, NEW m, Port(c, m)
  PROVE  Keeps(c, m, c, m)
PROOF
  BY DEF Keeps

LEMMA RevokeLoses ==
  ASSUME NEW c, NEW epoch, Port(c, mgr), ManagerRevoke(mgr, epoch) # None
  PROVE  /\ Keeps(c, mgr, c, ManagerRevoke(mgr, epoch))
         /\ ManagerRevoke(mgr, epoch).owner = None /\ epoch = mgr.epoch
PROOF
  <1> USE NoneAssumption
  <1> DEFINE base == IF mgr.retained = None THEN mgr ELSE ForceRetired(mgr)
             m2 == [base EXCEPT !.owner = None]
  <1>1. ManagerRevoke(mgr, epoch) = m2 /\ epoch = mgr.epoch
    BY DEF ManagerRevoke
  <1>2. mgr \in Managers
    BY DEF Port
  <1>3. /\ base \in Managers /\ base.epoch = mgr.epoch /\ base.rev = mgr.rev
        /\ base.pending = mgr.pending /\ base.last = mgr.last
    BY <1>2 DEF ForceRetired, Managers, Opt
  <1> HIDE DEF base
  <1>4. /\ m2 \in Managers /\ m2.owner = None /\ m2.epoch = mgr.epoch
        /\ m2.rev = mgr.rev /\ m2.pending = mgr.pending /\ m2.last = mgr.last
    BY <1>3 DEF Managers, Opt
  <1> HIDE DEF m2
  <1>5. Keeps(c, mgr, c, m2)
    BY <1>4, ManagerLoses
  <1> QED BY <1>1, <1>4, <1>5

LEMMA FinishLoses ==
  ASSUME NEW c, NEW t, NEW empty, Port(c, mgr), ManagerFinishDrain(mgr, t, empty) # None
  PROVE  Keeps(c, mgr, c, ManagerFinishDrain(mgr, t, empty))
PROOF
  <1> USE NoneAssumption
  <1> DEFINE m2 == [mgr EXCEPT !.retained = None, !.drained = TRUE]
  <1>1. ManagerFinishDrain(mgr, t, empty) = m2
    BY DEF ManagerFinishDrain
  <1>2. /\ m2 \in Managers /\ m2.owner = mgr.owner /\ m2.epoch = mgr.epoch
        /\ m2.rev = mgr.rev /\ m2.pending = mgr.pending /\ m2.last = mgr.last
    BY DEF Port, Managers, Opt
  <1> HIDE DEF m2
  <1>3. Keeps(c, mgr, c, m2)
    BY <1>2, ManagerLoses
  <1> QED BY <1>1, <1>3

LEMMA RetireLoses ==
  ASSUME NEW c, NEW t, Port(c, mgr), ManagerRetire(mgr, t) # None
  PROVE  Keeps(c, mgr, c, ManagerRetire(mgr, t))
PROOF
  <1> USE NoneAssumption
  <1> DEFINE m2 == [mgr EXCEPT !.retained = None, !.forced = TRUE, !.drained = FALSE]
  <1>1. ManagerRetire(mgr, t) = m2
    BY DEF ManagerRetire
  <1>2. /\ m2 \in Managers /\ m2.owner = mgr.owner /\ m2.epoch = mgr.epoch
        /\ m2.rev = mgr.rev /\ m2.pending = mgr.pending /\ m2.last = mgr.last
    BY DEF Port, Managers, Opt
  <1> HIDE DEF m2
  <1>3. Keeps(c, mgr, c, m2)
    BY <1>2, ManagerLoses
  <1> QED BY <1>1, <1>3

LEMMA RefusedQuiet ==
  ASSUME NEW c, NEW ok, Port(c, mgr), Reconciled(c, mgr)
  PROVE  /\ Refused(c).ctl = c /\ Refused(c).mgr = mgr /\ ~Refused(c).ok
         /\ Done(c, mgr, ok).ctl = c /\ Done(c, mgr, ok).mgr = mgr
         /\ Keeps(c, mgr, c, mgr)
PROOF
  BY Itself DEF Refused, Done

LEMMA ProbeQuiet ==
  ASSUME NEW c, NEW tx, Port(c, mgr)
  PROVE  ProbeTransaction(c, tx).ctl = c /\ ProbeTransaction(c, tx).mgr = mgr
PROOF
  BY DEF ProbeTransaction, Done

LEMMA DiscardQuiet ==
  ASSUME NEW c, NEW tx, Port(c, mgr), Reconciled(c, mgr)
  PROVE  LET r == DiscardAuthority(c, tx)
         IN /\ Keeps(c, mgr, r.ctl, r.mgr)
            /\ r.ok => r.ctl.pending = None
            /\ ~r.ok => r.ctl = c
PROOF
  <1> USE NoneAssumption
  <1>1. CASE (c.cand # None /\ c.cand.env.tx = tx) \/ ~IsTx(c.pending, tx)
    BY <1>1, RefusedQuiet DEF DiscardAuthority
  <1>2. CASE ~((c.cand # None /\ c.cand.env.tx = tx) \/ ~IsTx(c.pending, tx))
    <2> DEFINE d == [c EXCEPT !.pending = None]
    <2>1. /\ DiscardAuthority(c, tx).ctl = d /\ DiscardAuthority(c, tx).mgr = mgr
          /\ DiscardAuthority(c, tx).ok
      BY <1>2 DEF DiscardAuthority, Done
    <2>2. c \in Controllers /\ c.cand = None
      BY <1>2 DEF Port, Held, IsTx
    <2>3. /\ d \in Controllers /\ d.pending = None /\ d.cand = c.cand /\ d.term = c.term
          /\ d.active = c.active /\ d.owned = c.owned /\ d.binding = c.binding
          /\ d.cancelled = c.cancelled /\ d.retired = c.retired
      BY <2>2 DEF Controllers, Opt
    <2> HIDE DEF d
    <2>4. Port(d, mgr)
      BY <2>2, <2>3 DEF Port, Agreed, Held, Concluded
    <2>5. Follows(c, mgr, d, mgr)
      BY <2>2, <2>3 DEF Follows
    <2> QED BY <2>1, <2>3, <2>4, <2>5, FollowsFiled
  <1> QED BY <1>1, <1>2

LEMMA RevokeQuiet ==
  ASSUME NEW c, NEW tx, Port(c, mgr), Reconciled(c, mgr)
  PROVE  Keeps(c, mgr, RevokeExact(c, tx).ctl, RevokeExact(c, tx).mgr)
PROOF
  <1> DEFINE m2 == ManagerRevoke(mgr, c.active.epoch)
  <1>1. CASE RevokeExact(c, tx) = Refused(c)
    BY <1>1, RefusedQuiet
  <1>2. CASE m2 # None /\ RevokeExact(c, tx) = Applied(c, m2)
    BY <1>2, RevokeLoses, AppliedLoss
  <1> QED BY <1>1, <1>2 DEF RevokeExact

LEMMA FinishQuiet ==
  ASSUME NEW c, NEW e, NEW empty, Port(c, mgr), Reconciled(c, mgr)
  PROVE  LET r == FinishOwnerDrain(c, e, empty) IN Keeps(c, mgr, r.ctl, r.mgr)
PROOF
  <1> DEFINE t == OwnerTransaction(c, e)
             m2 == ManagerFinishDrain(mgr, t, empty)
             r == FinishOwnerDrain(c, e, empty)
  <1>1. r = Refused(c) \/ r = Applied(c, m2)
    BY DEF FinishOwnerDrain, OwnerChange
  <1>2. m2 # None => Keeps(c, mgr, c, m2)
    BY FinishLoses
  <1> HIDE DEF m2, r
  <1> QED BY <1>1, <1>2, RefusedQuiet, AppliedLoss DEF r

LEMMA RetireQuiet ==
  ASSUME NEW c, NEW e, Port(c, mgr), Reconciled(c, mgr)
  PROVE  LET r == RetireOwnerAfterFailure(c, e) IN Keeps(c, mgr, r.ctl, r.mgr)
PROOF
  <1> DEFINE t == OwnerTransaction(c, e)
             m2 == ManagerRetire(mgr, t)
             r == RetireOwnerAfterFailure(c, e)
  <1>1. r = Refused(c) \/ r = Applied(c, m2)
    BY DEF RetireOwnerAfterFailure, OwnerChange
  <1>2. m2 # None => Keeps(c, mgr, c, m2)
    BY RetireLoses
  <1> HIDE DEF m2, r
  <1> QED BY <1>1, <1>2, RefusedQuiet, AppliedLoss DEF r

\* A field nobody's account depends on.
LEMMA IsolatedField ==
  ASSUME NEW c, NEW m, Port(c, m), Reconciled(c, m), NEW e \in Envelopes
  PROVE  LET d == [c EXCEPT !.isolated = e]
         IN Keeps(c, m, d, m) /\ Reconciled(d, m)
PROOF
  <1> DEFINE d == [c EXCEPT !.isolated = e]
  <1>1. /\ d \in Controllers /\ d.pending = c.pending /\ d.cand = c.cand
        /\ d.term = c.term /\ d.active = c.active /\ d.owned = c.owned
        /\ d.binding = c.binding /\ d.cancelled = c.cancelled /\ d.retired = c.retired
        /\ d.epoch = c.epoch
    BY DEF Port, Controllers, Opt
  <1> HIDE DEF d
  <1>2. Port(d, m)
    BY <1>1 DEF Port, Agreed, Held, Concluded
  <1>3. Follows(c, m, d, m) /\ Reconciled(d, m)
    BY <1>1 DEF Follows, Reconciled
  <1> QED BY <1>2, <1>3, FollowsFiled DEF d

LEMMA IsolateQuiet ==
  ASSUME NEW c, NEW e \in Envelopes, NEW exp, Port(c, mgr), Reconciled(c, mgr)
  PROVE  LET r == IsolateCommittedOwner(c, e, exp)
         IN Keeps(c, mgr, r.ctl, r.mgr) /\ Reconciled(r.ctl, r.mgr)
PROOF
  <1> DEFINE m2 == ManagerRevoke(mgr, e.epoch)
             after == Applied(c, m2)
             r == IsolateCommittedOwner(c, e, exp)
  <1>1. CASE r = Refused(c)
    BY <1>1, RefusedQuiet
  <1>2. CASE r = [after EXCEPT !.ctl.isolated = e]
    <2>1. m2 # None => Keeps(c, mgr, c, m2)
      BY RevokeLoses
    <2>2. Keeps(c, mgr, after.ctl, after.mgr) /\ Reconciled(after.ctl, after.mgr)
      BY <2>1, AppliedLoss
    <2>3. r.ctl = [after.ctl EXCEPT !.isolated = e] /\ r.mgr = after.mgr
      BY <1>2 DEF Applied, Done
    <2> HIDE DEF after, r
    <2>4. Keeps(after.ctl, after.mgr, r.ctl, r.mgr) /\ Reconciled(r.ctl, r.mgr)
      BY <2>2, <2>3, IsolatedField DEF Keeps
    <2> QED BY <2>2, <2>4, KeepsTransitive DEF r
  <1> QED BY <1>1, <1>2 DEF IsolateCommittedOwner

-----------------------------------------------------------------------------
(* Requests that take something into the port, or call it off              *)

\* The manager never goes back to an earlier owner.
Moves(m, m2) ==
    /\ m2.epoch >= m.epoch
    /\ m2.owner # None /\ m2.epoch = m.epoch => m2.owner = m.owner

LEMMA KeepsMoves ==
  ASSUME NEW c, NEW m, NEW c2, NEW m2, Port(c, m), Keeps(c, m, c2, m2)
  PROVE  Moves(m, m2)
PROOF
  BY DEF Keeps, Moves, Port, Managers

\* A request for the journal's own transaction.
Asked(j, r, c, m, s, e) ==
    /\ Port(c, m) /\ Reconciled(c, m) /\ Filed(j, r, c, m, s)
    /\ s \in Nat /\ Sound(j) /\ j # None /\ j.env = e /\ e \in Envelopes

LEMMA StageFiled ==
  ASSUME NEW j, NEW r, NEW c, NEW s, NEW e, Asked(j, r, c, mgr, s, e)
  PROVE  LET x == StageAuthority(c, e)
         IN Port(x.ctl, x.mgr) /\ Filed(j, r, x.ctl, x.mgr, s) /\ x.mgr = mgr
PROOF
  <1> USE NoneAssumption
  <1> DEFINE d == [c EXCEPT !.rev = e.rev, !.epoch = e.epoch, !.pending = e]
             x == StageAuthority(c, e)
  <1>0. Port(c, mgr) /\ Reconciled(c, mgr) /\ Filed(j, r, c, mgr, s)
        /\ c \in Controllers /\ mgr \in Managers
    BY DEF Asked, Port
  <1>1. CASE x.ctl = c /\ x.mgr = mgr
    BY <1>0, <1>1
  <1>2. CASE /\ x.ctl = d /\ x.mgr = mgr /\ c.pending = None
             /\ ~(e.epoch <= Larger(c.binding, c.epoch))
             /\ ~IsTx(c.retired, e.tx) /\ ~IsTx(c.cancelled, e.tx)
    <2>1. c.cand = None
      BY <1>0, <1>2 DEF Port, Held, Controllers, Opt, Preparations
    <2>2. /\ d \in Controllers /\ d.pending = e /\ d.cand = c.cand /\ d.term = c.term
          /\ d.active = c.active /\ d.owned = c.owned /\ d.binding = c.binding
          /\ d.cancelled = c.cancelled /\ d.retired = c.retired
      <3>1. e \in Envelopes /\ e.rev \in Int /\ e.epoch \in Int
        BY DEF Asked, Envelopes
      <3> QED BY <1>0, <3>1 DEF Controllers, Opt
    <2>3. e.epoch > mgr.epoch
      <3>1. c.epoch \in Int /\ c.binding \in Int /\ mgr.epoch \in Int /\ e.epoch \in Int
        BY <1>0 DEF Asked, Controllers, Managers, Envelopes
      <3>2. c.epoch >= mgr.epoch
        BY <1>0 DEF Reconciled
      <3> QED BY <1>2, <3>1, <3>2 DEF Larger
    <2>4. e.tx = j.tx /\ e.tx \in 1..s /\ e.tx > 0
      BY <1>0 DEF Asked, Sound, Filed
    <2> HIDE DEF d
    <2>5. Port(d, mgr)
      BY <1>0, <2>1, <2>2, <2>3, <2>4 DEF Port, Agreed, Held, Concluded
    <2>6. Unique(e, j, s)
      BY <2>4 DEF Unique, Asked
    <2>7. CalledOff(d.cancelled, d, mgr) /\ CalledOff(d.retired, d, mgr)
      BY <1>0, <1>2, <2>2 DEF CalledOff, Filed, IsTx
    <2>8. Filed(j, r, d, mgr, s)
      BY <1>0, <2>1, <2>2, <2>6, <2>7 DEF Filed, Asked
    <2> QED BY <1>2, <2>5, <2>8
  <1>3. \/ x.ctl = c /\ x.mgr = mgr
        \/ /\ x.ctl = d /\ x.mgr = mgr /\ c.pending = None
           /\ ~(e.epoch <= Larger(c.binding, c.epoch))
           /\ ~IsTx(c.retired, e.tx) /\ ~IsTx(c.cancelled, e.tx)
    BY DEF StageAuthority, Refused, Done
  <1> QED BY <1>1, <1>2, <1>3

\* RecoverPrecommit: what the manager does not know is called off.
LEMMA CancelFiled ==
  ASSUME NEW j, NEW r, NEW c, NEW s, NEW e, NEW exp, Asked(j, r, c, mgr, s, e)
  PROVE  LET x == RecoverPrecommit(c, e, exp)
         IN Port(x.ctl, x.mgr) /\ Filed(j, r, x.ctl, x.mgr, s) /\ x.mgr = mgr
PROOF
  <1> USE NoneAssumption
  <1> DEFINE d == [c EXCEPT !.pending = None, !.cancelled = e, !.rev = e.rev,
                            !.epoch = e.epoch]
             x == RecoverPrecommit(c, e, exp)
  <1>0. Port(c, mgr) /\ Reconciled(c, mgr) /\ Filed(j, r, c, mgr, s)
        /\ c \in Controllers /\ mgr \in Managers
    BY DEF Asked, Port
  <1>1. CASE x.ctl = c /\ x.mgr = mgr
    BY <1>0, <1>1
  <1>2. CASE x.ctl = d /\ x.mgr = mgr /\ mgr.pending = None /\ c.active # e
    <2>1. c.cand = None
      <3> SUFFICES ASSUME c.cand # None PROVE FALSE
        OBVIOUS
      <3>1. c.cand \in Preparations
        BY <1>0 DEF Controllers, Opt
      <3>2. Of(c.cand) \in Transactions
        BY <3>1 DEF Of, Transaction, Preparations, Envelopes, Transactions
      <3> QED BY <1>0, <1>2, <3>2 DEF Reconciled
    <2>2. /\ d \in Controllers /\ d.pending = None /\ d.cand = c.cand /\ d.term = c.term
          /\ d.active = c.active /\ d.owned = c.owned /\ d.binding = c.binding
          /\ d.cancelled = e /\ d.retired = c.retired
      <3>1. e \in Envelopes /\ e.rev \in Int /\ e.epoch \in Int
        BY DEF Asked, Envelopes
      <3> QED BY <1>0, <3>1 DEF Controllers, Opt
    <2>3. e.tx = j.tx /\ e.tx \in 1..s
      BY <1>0 DEF Asked, Sound, Filed
    <2>4. mgr.owner # None => mgr.owner.tx # e.tx
      <3> SUFFICES ASSUME mgr.owner # None, mgr.owner.tx = e.tx PROVE FALSE
        OBVIOUS
      <3>1. c.active # None /\ c.active.tx = e.tx
        BY <1>0, <2>3 DEF Port, Agreed, Asked
      <3>2. c.active = e
        BY <1>0, <2>3, <3>1 DEF Filed, Unique, Asked
      <3> QED BY <1>2, <3>2
    <2> HIDE DEF d
    <2>5. Port(d, mgr)
      BY <1>0, <2>1, <2>2 DEF Port, Agreed, Held, Concluded
    <2>6. CalledOff(d.cancelled, d, mgr) /\ CalledOff(d.retired, d, mgr)
      BY <1>0, <2>2, <2>4 DEF CalledOff, Filed
    <2>7. Filed(j, r, d, mgr, s)
      BY <1>0, <2>1, <2>2, <2>6 DEF Filed, Asked, Unique
    <2> QED BY <1>2, <2>5, <2>7
  <1>3. \/ x.ctl = c /\ x.mgr = mgr
        \/ x.ctl = d /\ x.mgr = mgr /\ mgr.pending = None /\ c.active # e
    BY DEF RecoverPrecommit, Refused, Done
  <1> QED BY <1>1, <1>2, <1>3

\* RetireExpiredCommit: an expired preparation is called off.
LEMMA RetireExpiredFiled ==
  ASSUME NEW j, NEW r, NEW c, NEW s, NEW e, NEW exp, Asked(j, r, c, mgr, s, e)
  PROVE  LET x == RetireExpiredCommit(c, e, exp)
         IN Port(x.ctl, x.mgr) /\ Filed(j, r, x.ctl, x.mgr, s) /\ x.mgr = mgr
PROOF
  <1> USE NoneAssumption
  <1> DEFINE d == [c EXCEPT !.retired = e]
             x == RetireExpiredCommit(c, e, exp)
  <1>0. Port(c, mgr) /\ Reconciled(c, mgr) /\ Filed(j, r, c, mgr, s)
        /\ c \in Controllers /\ mgr \in Managers
    BY DEF Asked, Port
  <1>1. CASE x.ctl = c /\ x.mgr = mgr
    BY <1>0, <1>1
  <1>2. CASE /\ x.ctl = d /\ x.mgr = mgr /\ c.pending = None /\ mgr.last # None
             /\ mgr.last.txn = Transaction(e, exp) /\ Epoch(mgr.owner) = exp
    <2>1. e.tx = j.tx /\ e.tx \in 1..s
      BY <1>0 DEF Asked, Sound, Filed
    <2>2. /\ d \in Controllers /\ d.pending = c.pending /\ d.cand = c.cand
          /\ d.term = c.term /\ d.active = c.active /\ d.owned = c.owned
          /\ d.binding = c.binding /\ d.cancelled = c.cancelled /\ d.retired = e
      BY <1>0 DEF Asked, Controllers, Opt
    <2>3. mgr.owner # None => mgr.owner.tx # e.tx
      <3> SUFFICES ASSUME mgr.owner # None, mgr.owner.tx = e.tx PROVE FALSE
        OBVIOUS
      <3>1. c.active # None /\ c.active.tx = e.tx /\ c.active.epoch = mgr.epoch
        BY <1>0, <2>1 DEF Port, Agreed, Asked
      <3>2. c.active = e
        BY <1>0, <2>1, <3>1 DEF Filed, Unique, Asked
      <3>3. exp = mgr.epoch
        BY <1>0, <1>2 DEF Port, Agreed, Epoch
      <3>4. mgr.last.txn.exp # mgr.last.txn.epoch
        BY <1>0, <1>2 DEF Port, Aged
      <3> QED BY <1>2, <3>1, <3>2, <3>3, <3>4 DEF Transaction
    <2> HIDE DEF d
    <2>4. Port(d, mgr)
      BY <1>0, <2>2 DEF Port, Agreed, Held, Concluded
    <2>5. CalledOff(d.cancelled, d, mgr) /\ CalledOff(d.retired, d, mgr)
      BY <1>0, <1>2, <2>2, <2>3 DEF CalledOff, Filed
    <2>6. Filed(j, r, d, mgr, s)
      BY <1>0, <2>2, <2>5 DEF Filed
    <2> QED BY <1>2, <2>4, <2>6
  <1>3. \/ x.ctl = c /\ x.mgr = mgr
        \/ /\ x.ctl = d /\ x.mgr = mgr /\ c.pending = None /\ mgr.last # None
           /\ mgr.last.txn = Transaction(e, exp) /\ Epoch(mgr.owner) = exp
    <2>1. CASE x = Refused(c)
      BY <2>1 DEF Refused, Done
    <2>2. CASE x # Refused(c)
      BY <2>2 DEF RetireExpiredCommit, Done
    <2> QED BY <2>1, <2>2
  <1> QED BY <1>1, <1>2, <1>3

LEMMA TransactionType ==
  ASSUME NEW e \in Envelopes, NEW exp \in Int
  PROVE  /\ Transaction(e, exp) \in Transactions /\ Transaction(e, exp) # None
         /\ Transaction(e, exp).tx = e.tx /\ Transaction(e, exp).rev = e.rev
         /\ Transaction(e, exp).epoch = e.epoch /\ Transaction(e, exp).exp = exp
PROOF
  BY NoneAssumption DEF Transaction, Envelopes, Transactions

LEMMA PrepareFiled ==
  ASSUME NEW j, NEW r, NEW c, NEW s, NEW e, NEW exp \in Int,
         Asked(j, r, c, mgr, s, e), j.co # None
  PROVE  LET x == PrepareOwner(c, e, exp)
         IN Port(x.ctl, x.mgr) /\ Filed(j, r, x.ctl, x.mgr, s) /\ Moves(mgr, x.mgr)
PROOF
  <1> USE NoneAssumption
  <1> DEFINE x == PrepareOwner(c, e, exp)
             t == Transaction(e, exp)
             known == OwnerRecord(c, e.tx)
             rec == [env |-> e, exp |-> exp, prepared |-> FALSE]
             d == [c EXCEPT !.cand = rec]
             m2 == ManagerPrepare(mgr, t)
             new == [mgr EXCEPT !.pending = t, !.rev = t.rev]
  <1>0. /\ Port(c, mgr) /\ Reconciled(c, mgr) /\ Filed(j, r, c, mgr, s)
        /\ c \in Controllers /\ mgr \in Managers /\ e \in Envelopes /\ mgr.epoch \in Int
        /\ mgr.rev \in Int
    BY DEF Asked, Port, Managers
  <1>t. /\ t \in Transactions /\ t # None /\ t.tx = e.tx /\ t.rev = e.rev
        /\ t.epoch = e.epoch /\ t.exp = exp
    BY <1>0, TransactionType
  <1>k. /\ c.cand # None => Moves(mgr, mgr)
        /\ Moves(mgr, mgr)
    BY <1>0 DEF Moves
  <1>1. CASE x = Refused(c)
    BY <1>0, <1>1, <1>k, RefusedQuiet
  <1>2. CASE known # None /\ known = [env |-> e, exp |-> exp] /\ x = Applied(c, m2)
    <2>1. \/ c.cand # None /\ c.cand.env = e /\ c.cand.exp = exp
          \/ c.term # None /\ c.term.env = e /\ c.term.exp = exp
      BY <1>2 DEF OwnerRecord
    <2>2. m2 \in {mgr, None}
      <3>1. CASE c.cand # None /\ c.cand.env = e /\ c.cand.exp = exp
        BY <1>0, <3>1 DEF Reconciled, ManagerPrepare, Of
      <3>2. CASE c.term # None /\ c.term.env = e /\ c.term.exp = exp
        <4>1. mgr.last # None /\ mgr.last.txn = t
          BY <1>0, <3>2 DEF Reconciled, Of
        <4>2. ~(t.rev > mgr.rev)
          <5>1. t.rev \in Int /\ t.rev <= mgr.rev
            BY <1>0, <1>t, <4>1 DEF Port, Aged, Envelopes
          <5> QED BY <1>0, <5>1
        <4> QED BY <4>2 DEF ManagerPrepare
      <3> QED BY <2>1, <3>1, <3>2
    <2>3. m2 # None => Keeps(c, mgr, c, m2)
      BY <1>0, <2>2, Itself
    <2>4. Keeps(c, mgr, x.ctl, x.mgr)
      BY <1>0, <1>2, <2>3, AppliedLoss
    <2> QED BY <1>0, <2>4, KeepsMoves DEF Keeps
  <1>3. CASE /\ known = None /\ exp = Epoch(mgr.owner) /\ c.pending = e
             /\ x = Applied(d, m2)
    <2>0. /\ c.cand # None => [env |-> c.cand.env, exp |-> c.cand.exp] \in Records
          /\ c.term # None => [env |-> c.term.env, exp |-> c.term.exp] \in Records
      BY <1>0 DEF Controllers, Opt, Preparations, Endings, Records
    <2>1. c.cand = None
      BY <1>0, <1>3, <2>0 DEF Port, Held, OwnerRecord
    <2>2. mgr.pending = None
      BY <1>0, <2>1 DEF Port, Held
    <2>3. rec \in Preparations /\ rec # None
      <3>1. rec \in Preparations
        BY <1>0 DEF Preparations
      <3> HIDE DEF rec
      <3> QED BY <3>1
    <2>4. /\ d \in Controllers /\ d.cand = rec /\ d.pending = c.pending
          /\ d.term = c.term /\ d.active = c.active /\ d.owned = c.owned
          /\ d.binding = c.binding /\ d.cancelled = c.cancelled /\ d.retired = c.retired
      BY <1>0, <2>3 DEF Controllers, Opt
    <2>5. Of(rec) = t
      BY DEF Of
    <2>6. Concluded(d, mgr)
      <3> SUFFICES ASSUME mgr.last # None, mgr.last.phase = "committed"
                   PROVE  d.term # None /\ Of(d.term) = mgr.last.txn /\ t # mgr.last.txn
        BY <2>4, <2>5 DEF Concluded
      <3>1. c.term # None /\ Of(c.term) = mgr.last.txn
        BY <1>0 DEF Port, Concluded
      <3>2. c.term.env.tx # e.tx
        BY <1>3, <2>0, <2>1, <3>1 DEF OwnerRecord
      <3>3. Of(c.term).tx = c.term.env.tx
        BY DEF Of, Transaction
      <3> QED BY <1>t, <2>4, <3>1, <3>2, <3>3
    <2> HIDE DEF d
    <2>7. Port(d, mgr)
      <3>1. rec.env = e
        OBVIOUS
      <3> HIDE DEF rec
      <3>2. Held(d, mgr)
        BY <1>0, <1>3, <2>2, <2>4, <3>1 DEF Port, Held
      <3> QED BY <1>0, <2>4, <2>6, <3>2 DEF Port, Agreed
    <2>8. Filed(j, r, d, mgr, s)
      <3> HIDE DEF rec
      <3> QED BY <1>0, <2>4 DEF Filed, CalledOff
    <2>9. CASE m2 \in {mgr, None}
      <3>1. m2 # None => Keeps(d, mgr, d, m2)
        BY <2>7, <2>9, Itself
      <3>2. Keeps(d, mgr, x.ctl, x.mgr)
        BY <1>3, <2>7, <3>1, AppliedLoss
      <3> QED BY <2>7, <2>8, <3>2, KeepsMoves DEF Keeps
    <2>10. CASE m2 = new /\ t.epoch > mgr.epoch /\ t.rev > mgr.rev
      <3>1. /\ new \in Managers /\ new.pending = t /\ new.rev = t.rev /\ new.owner = mgr.owner
            /\ new.epoch = mgr.epoch /\ new.last = mgr.last
        <4>1. t.rev \in Int
          BY <1>t DEF Transactions
        <4> HIDE DEF t
        <4> QED BY <1>0, <1>t, <4>1 DEF Managers, Opt
      <3>2. m2 # None
        BY <1>t, <2>2, <2>10, <3>1
      <3> HIDE DEF new, rec, m2, x
      <3>3. exp = mgr.epoch
        BY <1>0, <1>3 DEF Port, Agreed, Epoch
      <3>4. Aged(new)
        <4>1. t.rev \in Int /\ t.epoch \in Int
          BY <1>t DEF Transactions
        <4>2. mgr.last # None => mgr.last.txn.rev \in Int
          BY <1>0 DEF Managers, Opt, Outcomes, Transactions
        <4> HIDE DEF t
        <4> QED BY <1>0, <1>t, <2>10, <3>1, <3>3, <4>1, <4>2 DEF Port, Aged
      <3>5. Held(d, new) /\ Agreed(d, new) /\ Concluded(d, new)
        <4> HIDE DEF t
        <4>1. Held(d, new)
          BY <2>3, <2>4, <2>5, <2>7, <3>1 DEF Port, Held
        <4>2. Agreed(d, new) /\ Concluded(d, new)
          BY <2>7, <3>1 DEF Port, Agreed, Concluded
        <4> QED BY <4>1, <4>2
      <3>6. Port(d, new)
        BY <2>7, <3>1, <3>4, <3>5 DEF Port
      <3>7. Filed(j, r, d, new, s)
        BY <2>8, <3>1 DEF Filed, CalledOff, Intended
      <3>8. x.ctl = Reconcile(d, new) /\ x.mgr = new
        BY <1>3, <2>10, <3>2 DEF Applied, Done
      <3>9. Keeps(d, new, x.ctl, x.mgr)
        BY <3>6, <3>8, ReconcileQuiet
      <3>10. Moves(mgr, new)
        BY <1>0, <3>1 DEF Moves
      <3> QED BY <3>7, <3>8, <3>9, <3>10 DEF Keeps, x
    <2> QED BY <2>9, <2>10 DEF ManagerPrepare
  <1>4. \/ x = Refused(c)
        \/ known # None /\ known = [env |-> e, exp |-> exp] /\ x = Applied(c, m2)
        \/ /\ known = None /\ exp = Epoch(mgr.owner) /\ c.pending = e
           /\ x = Applied(d, m2)
    <2> HIDE DEF known, m2
    <2> QED BY DEF PrepareOwner, known, m2
  <1> QED BY <1>1, <1>2, <1>3, <1>4

LEMMA AttachFiled ==
  ASSUME NEW j, NEW r, NEW c, NEW s, NEW e, Asked(j, r, c, mgr, s, e),
         j.co = None, j.phase # "committed_owner_isolated"
  PROVE  LET x == AttachAuthorized(c, e)
         IN Port(x.ctl, x.mgr) /\ Filed(j, r, x.ctl, x.mgr, s) /\ Moves(mgr, x.mgr)
PROOF
  <1> USE NoneAssumption
  <1> DEFINE x == AttachAuthorized(c, e)
             new == [mgr EXCEPT !.owner = Owner(e), !.epoch = e.epoch]
             q == ReconcileOwner(c, new)
             d == Reconcile(c, new)
  <1>0. /\ Port(c, mgr) /\ Reconciled(c, mgr) /\ Filed(j, r, c, mgr, s)
        /\ c \in Controllers /\ mgr \in Managers /\ e \in Envelopes /\ mgr.epoch \in Int
    BY DEF Asked, Port, Managers
  <1>1. CASE x = Refused(c)
    <2>1. Moves(mgr, mgr)
      BY <1>0 DEF Moves
    <2> QED BY <1>0, <1>1, <2>1, RefusedQuiet
  <1>2. CASE x.ctl = d /\ x.mgr = new /\ c.cand = None /\ c.pending = e /\ e.epoch > mgr.epoch
    <2>1. Owner(e) \in Owners /\ Owner(e) # None /\ Owner(e).tx = e.tx /\ Owner(e).epoch = e.epoch
          /\ e.epoch \in Int
      BY <1>0 DEF Owner, Owners, Envelopes
    <2>2. /\ new \in Managers /\ new.owner = Owner(e) /\ new.epoch = e.epoch
          /\ new.pending = mgr.pending /\ new.last = mgr.last /\ new.rev = mgr.rev
      BY <1>0, <2>1 DEF Managers, Opt
    <2> HIDE DEF new
    <2>3. mgr.pending = None
      BY <1>0, <1>2 DEF Port, Held
    <2>4. /\ q.cand = None /\ q.pending = e
          /\ q.term # None => c.term # None /\ q.term.env = c.term.env
          /\ c.term # None /\ new.last # None /\ Of(c.term) = new.last.txn => q.term = c.term
          /\ q \in Controllers
      <3> HIDE NoneAssumption
      <3>1. c.cand = None /\ c.pending = e /\ c \in Controllers /\ new \in Managers
        BY <1>0, <1>2, <2>2
      <3>2. q \in Controllers /\ q.cand = None /\ q.pending = e
        BY <3>1, ReconcileOwnerFields
      <3>3. q.term \in {c.term, None}
        BY <3>1, ReconcileOwnerFields
      <3>4. c.term # None /\ new.last # None /\ Of(c.term) = new.last.txn => q.term = c.term
        BY <3>1, ReconcileOwnerFields
      <3> HIDE DEF q
      <3> QED BY <3>2, <3>3, <3>4
    <2> HIDE DEF q
    <2>e. e # None
      BY <1>0
    <2>5. /\ d \in Controllers /\ d.cand = None /\ d.term = q.term /\ d.pending = None
          /\ d.active = e /\ d.owned /\ d.binding = e.epoch
          /\ d.cancelled = c.cancelled /\ d.retired = c.retired
      <3>1. q.pending # None /\ q.pending.epoch = new.epoch /\ new.owner # None
            /\ new.owner.epoch = e.epoch
        BY <2>1, <2>2, <2>4, <2>e
      <3> QED BY <1>0, <2>2, <2>4, <3>1, ReconcileFields DEF q
    <2> HIDE DEF d
    <2>6. Agreed(d, new) /\ Held(d, new)
      BY <2>1, <2>2, <2>3, <2>5, <2>e DEF Agreed, Held
    <2>7. Concluded(d, new)
      BY <1>0, <2>2, <2>4, <2>5 DEF Port, Concluded
    <2>8. Aged(new)
      BY <1>0, <2>2 DEF Port, Aged
    <2>9. Port(d, new)
      BY <2>1, <2>2, <2>5, <2>6, <2>7, <2>8 DEF Port
    <2>10. e.tx = j.tx /\ j # None /\ j.env = e
      BY <1>0 DEF Asked, Sound
    <2>11. CalledOff(d.cancelled, d, new) /\ CalledOff(d.retired, d, new)
      BY <1>0, <1>2, <2>1, <2>2, <2>5, <2>e DEF Filed, CalledOff
    <2>12. Intended(j, r, new)
      BY <1>0, <2>1, <2>2, <2>10 DEF Filed, Intended
    <2>13. /\ Unique(d.pending, j, s) /\ Unique(d.active, j, s)
           /\ d.term # None => Unique(d.term.env, j, s)
      BY <1>0, <1>2, <2>4, <2>5 DEF Filed, Unique
    <2>14. Filed(j, r, d, new, s)
      BY <1>0, <2>2, <2>5, <2>11, <2>12, <2>13 DEF Filed
    <2>15. Moves(mgr, new)
      BY <1>0, <1>2, <2>1, <2>2 DEF Moves
    <2> QED BY <1>2, <2>9, <2>14, <2>15
  <1>3. \/ x = Refused(c)
        \/ x.ctl = d /\ x.mgr = new /\ c.cand = None /\ c.pending = e /\ e.epoch > mgr.epoch
    <2>1. CASE c.cand # None \/ c.pending # e \/ ~Valid(c, e) \/ ManagerAttach(mgr, e) = None
      BY <2>1 DEF AttachAuthorized
    <2>2. CASE ~(c.cand # None \/ c.pending # e \/ ~Valid(c, e) \/ ManagerAttach(mgr, e) = None)
      <3>1. ManagerAttach(mgr, e) = new /\ e.epoch > mgr.epoch /\ new # None
        BY <2>2 DEF ManagerAttach
      <3>2. x = Applied(c, new)
        BY <2>2, <3>1 DEF AttachAuthorized
      <3> QED BY <2>2, <3>1, <3>2 DEF Applied, Done
    <2> QED BY <2>1, <2>2
  <1> QED BY <1>1, <1>2, <1>3

\* CommitOwner, once the intent is on disk.
LEMMA CommitFiled ==
  ASSUME NEW j, NEW r, NEW c, NEW s, NEW e, Asked(j, r, c, mgr, s, e),
         j.co # None, j.co.intent, j.phase # "committed_owner_isolated"
  PROVE  LET x == CommitOwner(c, e)
         IN Port(x.ctl, x.mgr) /\ Filed(j, r, x.ctl, x.mgr, s) /\ Moves(mgr, x.mgr)
PROOF
  <1> USE NoneAssumption
  <1> DEFINE x == CommitOwner(c, e)
             t == OwnerTransaction(c, e)
             m2 == ManagerCommit(mgr, t)
             out == [txn |-> t, phase |-> "committed"]
             new == [mgr EXCEPT !.owner = Owner(t), !.retained = mgr.owner,
                                !.drained = mgr.owner = None, !.forced = FALSE,
                                !.pending = None, !.epoch = t.epoch, !.last = out]
             q == ReconcileOwner(c, new)
             d == Reconcile(c, new)
  <1>0. /\ Port(c, mgr) /\ Reconciled(c, mgr) /\ Filed(j, r, c, mgr, s)
        /\ c \in Controllers /\ mgr \in Managers /\ e \in Envelopes /\ mgr.epoch \in Int
    BY DEF Asked, Port, Managers
  <1>1. CASE x = Refused(c)
    <2>1. Moves(mgr, mgr)
      BY <1>0 DEF Moves
    <2> QED BY <1>0, <1>1, <2>1, RefusedQuiet
  <1>2. CASE x = Applied(c, m2) /\ m2 \in {mgr, None}
    <2>1. m2 # None => Keeps(c, mgr, c, m2)
      BY <1>0, <1>2, Itself
    <2>2. Keeps(c, mgr, x.ctl, x.mgr)
      BY <1>0, <1>2, <2>1, AppliedLoss
    <2> QED BY <1>0, <2>2, KeepsMoves DEF Keeps
  <1>3. CASE x = Applied(c, m2) /\ m2 = new /\ mgr.pending = t /\ t # None
    <2>1. c.cand # None /\ t = Of(c.cand) /\ c.pending = c.cand.env
      BY <1>0, <1>3 DEF Port, Held
    <2>2. c.cand \in Preparations
      BY <1>0, <2>1 DEF Controllers, Opt
    <2>3. c.cand.env \in Envelopes /\ c.cand.env # None /\ c.cand.exp \in Int
      <3>1. c.cand.env \in Envelopes /\ c.cand.exp \in Int
        BY <2>2 DEF Preparations
      <3> QED BY <3>1
    <2>4. c.cand.env = e /\ c.pending = e
      BY <1>0, <2>1, <2>3 DEF Filed, Asked
    <2> DEFINE exp == c.cand.exp
    <2>5. t = Transaction(e, exp)
      BY <2>1, <2>4 DEF Of
    <2> HIDE DEF t
    <2>6. /\ t \in Transactions /\ t.tx = e.tx /\ t.rev = e.rev
          /\ t.epoch = e.epoch /\ t.exp = exp /\ e.epoch \in Int
      <3>1. e.epoch \in Int
        BY <1>0 DEF Envelopes
      <3> QED BY <1>0, <2>3, <2>5, <3>1, TransactionType
    <2>7. e.epoch > mgr.epoch /\ t.rev <= mgr.rev /\ t.exp # t.epoch
      BY <1>0, <1>3, <2>3, <2>4 DEF Port, Held, Aged
    <2>8. /\ Owner(t) \in Owners /\ Owner(t).tx = e.tx /\ Owner(t).epoch = e.epoch
      BY <2>6 DEF Owner, Owners, Transactions
    <2>9. out \in Outcomes /\ out.txn = t /\ out.phase = "committed"
      BY <2>6 DEF Outcomes
    <2> HIDE DEF out
    <2>n. Owner(t) # None /\ out # None
      BY <2>8, <2>9
    <2>10. /\ new \in Managers /\ new.owner = Owner(t) /\ new.epoch = t.epoch
           /\ new.pending = None /\ new.last = out /\ new.rev = mgr.rev
      <3> HIDE NoneAssumption
      <3> QED BY <1>0, <2>6, <2>8, <2>9 DEF Managers, Opt
    <2> HIDE DEF new
    <2>11. m2 # None /\ x.ctl = d /\ x.mgr = new
      <3>1. new # None
        BY <2>10
      <3> QED BY <1>3, <3>1 DEF Applied, Done
    <2>12. /\ q \in Controllers /\ q.cand = None /\ q.pending = None
           /\ q.term # None /\ q.term.env = e /\ Of(q.term) = t /\ q.active = e
      <3>1. Epoch(new.owner) = c.cand.env.epoch
        BY <2>4, <2>6, <2>8, <2>10, <2>n DEF Epoch
      <3>2. new.pending # Of(c.cand) /\ new.last # None /\ new.last.txn = Of(c.cand)
            /\ new.last.phase = "committed"
        BY <1>3, <2>1, <2>9, <2>10, <2>n
      <3> QED BY <1>0, <2>1, <2>4, <2>10, <3>1, <3>2, ReconcileOwnerFields
    <2> HIDE DEF q
    <2>13. /\ d \in Controllers /\ d.cand = None /\ d.pending = None /\ d.term = q.term
           /\ d.active = e /\ d.owned /\ d.binding = e.epoch
           /\ d.cancelled = c.cancelled /\ d.retired = c.retired
      <3>1. new.owner # None /\ new.owner.epoch = e.epoch
        BY <2>8, <2>10, <2>n
      <3> QED BY <1>0, <2>10, <2>12, <3>1, ReconcileFields DEF q
    <2> HIDE DEF d, x, m2
    <2>14. Agreed(d, new) /\ Held(d, new)
      BY <1>0, <2>6, <2>8, <2>10, <2>13 DEF Agreed, Held
    <2>15. Concluded(d, new) /\ Aged(new)
      BY <2>7, <2>9, <2>10, <2>12, <2>13 DEF Concluded, Aged
    <2>16. Port(d, new)
      BY <2>6, <2>10, <2>13, <2>14, <2>15 DEF Port
    <2>17. j # None /\ e.tx = j.tx /\ j.env = e /\ e.tx \in 1..s
      BY <1>0 DEF Asked, Sound, Filed
    <2>18. Unique(e, j, s)
      BY <2>17 DEF Unique
    <2>19. CalledOff(d.cancelled, d, new) /\ CalledOff(d.retired, d, new)
      BY <1>0, <2>4, <2>8, <2>10, <2>13 DEF Filed, CalledOff
    <2>20. Intended(j, r, new)
      BY <2>6, <2>9, <2>10, <2>17 DEF Intended
    <2>21. Filed(j, r, d, new, s)
      BY <1>0, <2>6, <2>9, <2>10, <2>12, <2>13, <2>17, <2>18, <2>19, <2>20
         DEF Filed, Unique
    <2>22. Moves(mgr, new)
      BY <1>0, <2>6, <2>7, <2>10 DEF Moves
    <2> QED BY <2>11, <2>16, <2>21, <2>22 DEF x
  <1>4. \/ x = Refused(c)
        \/ x = Applied(c, m2) /\ m2 \in {mgr, None}
        \/ x = Applied(c, m2) /\ m2 = new /\ mgr.pending = t /\ t # None
    <2>1. x = Refused(c) \/ (x = Applied(c, m2) /\ t # None)
      BY DEF CommitOwner, OwnerChange
    <2>2. m2 \in {mgr, None} \/ (m2 = new /\ mgr.pending = t)
      BY DEF ManagerCommit
    <2> QED BY <2>1, <2>2
  <1> QED BY <1>1, <1>2, <1>3, <1>4

-----------------------------------------------------------------------------
(* Steps of the agent: what they have in common                            *)

LEMMA GuardedMoves ==
  ASSUME NEW g, NEW l, NEW m \in Managers, NEW m2 \in Managers,
         Guarded(g, m, l), Moves(m, m2)
  PROVE  Guarded(g, m2, l)
PROOF
  <1>1. m.epoch \in Int /\ m2.epoch \in Int
    BY DEF Managers
  <1> QED BY <1>1 DEF Guarded, Moves, Copies

LEMMA ForwardedMoves ==
  ASSUME NEW f, NEW m \in Managers, NEW m2 \in Managers,
         Forwarded(f, m), m2.epoch >= m.epoch
  PROVE  Forwarded(f, m2)
PROOF
  <1>1. m.epoch \in Int /\ m2.epoch \in Int /\ f.owner.epoch \in Int
    BY DEF Managers, Forwarded, Forwards, ForwardOwners
  <1> QED BY <1>1 DEF Forwarded

LEMMA PlaceKeeps ==
  ASSUME NEW a, NEW j, NEW c, NEW m, NEW c2, NEW m2,
         Place(a, j, c, m), Keeps(c, m, c2, m2)
  PROVE  Place(a, j, c2, m2)
PROOF
  BY DEF Place, Keeps

\* Every step below ends with this: netd and the guard's copy untouched.
LEMMA PortStep ==
  ASSUME Inv, UNCHANGED <<guard, lapsed, fw, serial>>, orec' \in Int,
         Port(ctl', mgr'), Moves(mgr, mgr'), Sound(jr'),
         Filed(jr', orec', ctl', mgr', serial), Place(ag', jr', ctl', mgr')
  PROVE  Inv'
PROOF
  <1>1. mgr \in Managers /\ mgr' \in Managers
    BY DEF Inv, Port
  <1>2. Guarded(guard', mgr', lapsed')
    BY <1>1, GuardedMoves DEF Inv
  <1>3. Forwarded(fw', mgr')
    BY <1>1, ForwardedMoves DEF Inv, Moves
  <1> QED BY <1>2, <1>3 DEF Inv

\* A step that leaves the port alone.
LEMMA StillMoves ==
  ASSUME Inv
  PROVE  Moves(mgr, mgr) /\ mgr \in Managers /\ ctl \in Controllers
PROOF
  BY DEF Inv, Port, Managers, Moves

LEMMA NowKnown ==
  ASSUME Inv
  PROVE  /\ Port(Now, mgr) /\ Reconciled(Now, mgr) /\ Keeps(ctl, mgr, Now, mgr)
         /\ Filed(jr, orec, Now, mgr, serial)
PROOF
  BY ReconcileQuiet DEF Inv, Now, Keeps

LEMMA AskedNow ==
  ASSUME Inv, jr # None, jr.env # None
  PROVE  Asked(jr, orec, Now, mgr, serial, Env) /\ Env \in Envelopes /\ Env = jr.env
PROOF
  <1>1. Env \in Envelopes /\ Env = jr.env
    BY DEF Inv, Sound, Journals, Opt, Env
  <1> QED BY <1>1, NowKnown DEF Asked, Inv

\* The journal moves on: the transaction, its envelope and a durable intent
\* stay.
LEMMA FiledJournal ==
  ASSUME NEW j, NEW r, NEW c, NEW m, NEW s, NEW j2, Filed(j, r, c, m, s),
         j # None, j2 # None, j2.tx = j.tx, j2.env = j.env,
         j2.co = None <=> j.co = None,
         j.co # None /\ j.co.intent => j2.co.intent,
         j2.phase = "committed" => r = j.tx,
         j2.phase = "committed_owner_isolated" => m.owner = None
  PROVE  Filed(j2, r, c, m, s)
PROOF
  <1>1. \A e : Unique(e, j, s) => Unique(e, j2, s)
    BY DEF Unique
  <1>2. Intended(j2, r, m)
    BY DEF Filed, Intended
  <1> QED BY <1>1, <1>2 DEF Filed

LEMMA FiledSpawn ==
  ASSUME NEW j, NEW r, NEW c, NEW m, NEW s, NEW j2, Filed(j, r, c, m, s), Port(c, m),
         j # None, j.env = None, j.co = None, j2 # None, j2.tx = j.tx,
         j2.phase \notin {"committed", "committed_owner_isolated"}
  PROVE  Filed(j2, r, c, m, s)
PROOF
  <1> USE NoneAssumption
  <1>1. \A e \in Opt(Envelopes) : Unique(e, j, s) => Unique(e, j2, s)
    BY DEF Unique, Opt
  <1>2. /\ c.pending = None /\ c.cand = None
        /\ c.active \in Opt(Envelopes) /\ c.pending \in Opt(Envelopes)
        /\ c.term # None => c.term.env \in Opt(Envelopes)
    BY DEF Filed, Port, Controllers, Opt, Endings
  <1>3. Intended(j2, r, m)
    BY DEF Filed, Intended
  <1> QED BY <1>1, <1>2, <1>3 DEF Filed

LEMMA AtType ==
  ASSUME NEW by \in Int, NEW pc \in Pcs
  PROVE  At(by, pc) \in Agents /\ At(by, pc).pc = pc
PROOF
  BY DEF At, Agents, Opt

LEMMA AtFlags ==
  ASSUME NEW by \in Int, NEW pc \in Pcs
  PROVE  /\ [At(by, pc) EXCEPT !.fd = TRUE] \in Agents
         /\ [At(by, pc) EXCEPT !.fd = TRUE].pc = pc
         /\ [At(by, pc) EXCEPT !.att = TRUE] \in Agents
         /\ [At(by, pc) EXCEPT !.att = TRUE].pc = pc
PROOF
  <1> DEFINE b == At(by, pc)
  <1>1. b \in Agents /\ b.pc = pc
    BY AtType
  <1> HIDE DEF b
  <1>2. /\ [b EXCEPT !.fd = TRUE] \in Agents /\ [b EXCEPT !.fd = TRUE].pc = b.pc
        /\ [b EXCEPT !.att = TRUE] \in Agents /\ [b EXCEPT !.att = TRUE].pc = b.pc
    BY <1>1 DEF Agents
  <1> QED BY <1>1, <1>2 DEF b

LEMMA AgentGoes ==
  ASSUME Inv, NEW pc \in Pcs
  PROVE  /\ ag \in Agents /\ ag.by \in Int
         /\ Go(pc) \in Agents /\ Go(pc).pc = pc /\ Go(pc).act = ag.act
         /\ Idle \in Agents /\ Idle.pc = "idle"
         /\ Serve \in Agents /\ Serve.pc = "serve"
PROOF
  <1>1. ag \in Agents /\ ag.by \in Int
    BY DEF Inv, Place, Agents
  <1>2. Go(pc) \in Agents /\ Go(pc).pc = pc /\ Go(pc).act = ag.act
    BY <1>1 DEF Go, Agents
  <1>s. "idle" \in Pcs /\ "serve" \in Pcs
    BY DEF Pcs
  <1>3. At(ag.by, "idle") \in Agents /\ At(ag.by, "idle").pc = "idle"
    BY <1>1, <1>s, AtType
  <1>4. At(ag.by, "serve") \in Agents /\ At(ag.by, "serve").pc = "serve"
    BY <1>1, <1>s, AtType
  <1> QED BY <1>1, <1>2, <1>3, <1>4 DEF Idle, Serve

LEMMA PlaceIdle ==
  ASSUME NEW a \in Agents, a.pc \in {"idle", "serve"}, NEW j, NEW c, NEW m
  PROVE  Place(a, j, c, m)
PROOF
  BY DEF Place, Journaled, Unstarted, Attaching, Undoing, Completing, TakingBack,
         Reserving, Replacing, Finishing

\* Places that rely on the journal only.
LEMMA PlacePlain ==
  ASSUME NEW a \in Agents, NEW j, NEW c, NEW m, j # None,
         \/ /\ a.pc \in Unstarted /\ j.co = None /\ ~j.res /\ j.env = None
            /\ j.phase \notin MbbPhases \cup {"committed", "committed_owner_isolated"}
         \/ /\ a.pc \in Attaching \ {"lCommit"} /\ j.co = None /\ ~j.res /\ j.env # None
            /\ j.phase \notin MbbPhases \cup {"committed", "committed_owner_isolated"}
         \/ /\ a.pc \in Undoing /\ j.co = None /\ ~j.res
            /\ j.phase \notin MbbPhases \cup {"committed", "committed_owner_isolated"}
         \/ /\ a.pc \in Completing /\ ~j.res /\ j.env # None
            /\ j.phase \notin MbbPhases \cup {"committed"}
         \/ a.pc = "mbb" /\ j.phase \in MbbPhases
         \/ a.pc \in Reserving /\ j.phase \in MbbPhases /\ j.env = None /\ (a.pc = "mSpawn" => j.res)
         \/ a.pc \in Replacing \ {"mStopOld"} /\ j.phase \in MbbPhases /\ j.env # None
         \/ a.pc \in Finishing \ {"commit", "records"} /\ j.env # None
         \/ a.pc = "close"
  PROVE  Place(a, j, c, m)
PROOF
  BY DEF Place, Journaled, Unstarted, Attaching, Undoing, Completing, TakingBack,
         Reserving, Replacing, Finishing

\* Quiet requests: nothing new in the port, the journal moves on.
LEMMA QuietStep ==
  ASSUME Inv, UNCHANGED <<guard, lapsed, fw, serial, orec>>,
         Keeps(ctl, mgr, ctl', mgr'), Sound(jr'),
         \A c, m : Keeps(ctl, mgr, c, m) /\ Filed(jr, orec, c, m, serial)
                     => Filed(jr', orec, c, m, serial),
         Place(ag', jr', ctl', mgr')
  PROVE  Inv'
PROOF
  <1>1. Port(ctl', mgr') /\ Moves(mgr, mgr')
    BY KeepsMoves DEF Inv, Keeps
  <1>2. Filed(jr, orec, ctl', mgr', serial)
    BY DEF Inv, Keeps
  <1>3. Filed(jr', orec', ctl', mgr', serial)
    BY <1>2
  <1>4. orec' \in Int
    BY DEF Inv
  <1> QED BY <1>1, <1>3, <1>4, PortStep

LEMMA QuietAsk ==
  ASSUME Inv, NEW r, Keeps(Now, mgr, r.ctl, r.mgr),
         (mgr' = r.mgr /\ ctl' = r.ctl) \/ UNCHANGED <<mgr, ctl>>
  PROVE  Keeps(ctl, mgr, ctl', mgr')
PROOF
  <1>1. Port(ctl, mgr) /\ Keeps(ctl, mgr, Now, mgr)
    BY NowKnown DEF Inv
  <1>2. CASE mgr' = r.mgr /\ ctl' = r.ctl
    BY <1>1, <1>2, KeepsTransitive
  <1>3. CASE UNCHANGED <<mgr, ctl>>
    BY <1>1, <1>3, Itself
  <1> QED BY <1>2, <1>3

LEMMA PhaseFields ==
  ASSUME NEW j \in Journals, NEW p \in Phases
  PROVE  LET k == [j EXCEPT !.phase = p]
         IN /\ k \in Journals /\ k # None /\ k.phase = p /\ k.tx = j.tx /\ k.rev = j.rev
            /\ k.env = j.env /\ k.old = j.old /\ k.owner = j.owner /\ k.co = j.co
            /\ k.res = j.res /\ k.fret = j.fret /\ k.outcome = j.outcome
PROOF
  <1> DEFINE k == [j EXCEPT !.phase = p]
  <1>1. /\ k \in Journals /\ k.phase = p /\ k.tx = j.tx /\ k.rev = j.rev
        /\ k.env = j.env /\ k.old = j.old /\ k.owner = j.owner /\ k.co = j.co
        /\ k.res = j.res /\ k.fret = j.fret /\ k.outcome = j.outcome
    BY DEF Journals
  <1> HIDE DEF k
  <1>2. k # None
    BY <1>1, NoneRenewalAssumption
  <1> QED BY <1>1, <1>2 DEF k

LEMMA PhaseSets ==
  /\ MbbPhases \subseteq Phases
  /\ "committed" \notin MbbPhases /\ "committed_owner_isolated" \notin MbbPhases
PROOF
  BY DEF Phases, MbbPhases

\* Two journals of the same transaction.
Continues(j, k) ==
    /\ k # None /\ Sound(k) /\ k.tx = j.tx /\ k.env = j.env
    /\ \A c, m : Filed(j, orec, c, m, serial) => Filed(k, orec, c, m, serial)

LEMMA ContinuesItself ==
  ASSUME Inv, jr # None
  PROVE  Continues(jr, jr)
PROOF
  BY DEF Continues, Inv

\* A journal of the make-before-break moves within its phases.
LEMMA MbbContinues ==
  ASSUME Inv, jr # None, NEW k \in Journals, k.phase \in MbbPhases,
         k.tx = jr.tx, k.env = jr.env, k.owner.epoch = jr.owner.epoch,
         jr.phase \in MbbPhases, k.co = None <=> jr.co = None, jr.res => k.res,
         jr.co # None /\ jr.co.intent => k.co.intent
  PROVE  Continues(jr, k)
PROOF
  <1>1. k # None
    BY NoneRenewalAssumption
  <1>2. Sound(k)
    BY PhaseSets DEF Inv, Sound
  <1>3. k.phase # "committed" /\ k.phase # "committed_owner_isolated"
    BY PhaseSets
  <1>4. \A c, m : Filed(jr, orec, c, m, serial) => Filed(k, orec, c, m, serial)
    BY <1>1, <1>3, FiledJournal
  <1> QED BY <1>1, <1>2, <1>4 DEF Continues

\* And one of a renewal that attaches within the others.
LEMMA LegacyContinues ==
  ASSUME Inv, jr # None, NEW k \in Journals,
         k.phase \notin MbbPhases \cup {"committed", "committed_owner_isolated"},
         k.tx = jr.tx, k.env = jr.env, k.owner.epoch = jr.owner.epoch,
         jr.co = None, k.co = None, ~k.res
  PROVE  Continues(jr, k)
PROOF
  <1>1. k # None
    BY NoneRenewalAssumption
  <1>2. Sound(k)
    BY DEF Inv, Sound
  <1>4. \A c, m : Filed(jr, orec, c, m, serial) => Filed(k, orec, c, m, serial)
    BY <1>1, FiledJournal
  <1> QED BY <1>1, <1>2, <1>4 DEF Continues

LEMMA MbbPhase ==
  ASSUME Inv, jr # None, jr.phase \in MbbPhases, NEW p \in MbbPhases
  PROVE  /\ Continues(jr, Phase(p)) /\ Phase(p) \in Journals /\ Phase(p).phase = p
         /\ Phase(p).co = jr.co /\ Phase(p).env = jr.env /\ Phase(p).owner = jr.owner
         /\ Phase(p).tx = jr.tx /\ Phase(p).res = jr.res
PROOF
  <1>1. jr \in Journals
    BY DEF Inv, Sound
  <1>2. p \in Phases
    BY PhaseSets
  <1>3. /\ Phase(p) \in Journals /\ Phase(p).phase = p /\ Phase(p).tx = jr.tx
        /\ Phase(p).env = jr.env /\ Phase(p).owner = jr.owner /\ Phase(p).co = jr.co
        /\ Phase(p).res = jr.res
    BY <1>1, <1>2, PhaseFields DEF Phase
  <1>4. Continues(jr, Phase(p))
    BY <1>3, MbbContinues
  <1> QED BY <1>3, <1>4

LEMMA LegacyPhase ==
  ASSUME Inv, jr # None, jr.co = None, ~jr.res,
         NEW p \in Phases \ (MbbPhases \cup {"committed", "committed_owner_isolated"})
  PROVE  /\ Continues(jr, Phase(p)) /\ Phase(p) \in Journals /\ Phase(p).phase = p
         /\ Phase(p).co = None /\ ~Phase(p).res /\ Phase(p).env = jr.env
         /\ Phase(p).owner = jr.owner /\ Phase(p).tx = jr.tx
PROOF
  <1>1. jr \in Journals
    BY DEF Inv, Sound
  <1>3. /\ Phase(p) \in Journals /\ Phase(p).phase = p /\ Phase(p).tx = jr.tx
        /\ Phase(p).env = jr.env /\ Phase(p).owner = jr.owner /\ Phase(p).co = None
        /\ ~Phase(p).res
    BY <1>1, PhaseFields DEF Phase
  <1>4. Continues(jr, Phase(p))
    BY <1>3, LegacyContinues
  <1> QED BY <1>3, <1>4

\* Where the agent stands.
LEMMA Standing ==
  ASSUME Inv
  PROVE  Place(ag, jr, ctl, mgr) /\ Journaled(ag.pc, jr) /\ ag \in Agents
         /\ (jr # None => jr \in Journals /\ jr.owner \in ForwardOwners /\ jr.tx \in Nat)
         /\ Sound(jr) /\ fw \in Forwards
PROOF
  BY DEF Inv, Place, Sound, Journals, Forwarded

-----------------------------------------------------------------------------
(* netd's answers                                                          *)

LEMMA SettledForwarded ==
  ASSUME Inv
  PROVE  /\ Forwarded(Settled, mgr) /\ Settled \in Forwards
         /\ Settled.owner = fw.owner
PROOF
  <1>1. fw \in Forwards /\ Forwarded(fw, mgr)
    BY DEF Inv, Forwarded
  <1> DEFINE cand == IF fw.cand # None /\ Ended(fw.cand) THEN None ELSE fw.cand
             auth == IF fw.cand # None /\ Ended(fw.cand) THEN FALSE ELSE fw.auth
             phase == IF Ended(fw.owner) THEN "Revoked" ELSE fw.phase
  <1>2. Settled = [fw EXCEPT !.cand = cand, !.auth = auth, !.phase = phase]
    BY DEF Settled
  <1>3. /\ cand \in Opt(ForwardOwners) /\ auth \in BOOLEAN
        /\ phase \in {"Active", "Guarded", "Revoked"} /\ phase \in {fw.phase, "Revoked"}
    BY <1>1 DEF Forwards, Opt
  <1> HIDE DEF cand, auth, phase
  <1>4. Settled \in Forwards /\ Settled.owner = fw.owner /\ Settled.phase = phase
    BY <1>1, <1>2, <1>3 DEF Forwards
  <1> QED BY <1>1, <1>3, <1>4 DEF Forwarded

\* netd's state after a request, if it is not refused.
LEMMA NetdAnswers ==
  ASSUME Inv, NEW o \in ForwardOwners
  PROVE  /\ NetdPrepare(o) # None => Forwarded(NetdPrepare(o), mgr)
         /\ NetdAuthorize(o) # None => Forwarded(NetdAuthorize(o), mgr)
         /\ NetdGuard(o) # None => Forwarded(NetdGuard(o), mgr)
         /\ NetdRevoke(o) # None => Forwarded(NetdRevoke(o), mgr)
         /\ o.epoch <= mgr.epoch /\ NetdCommit(o) # None => Forwarded(NetdCommit(o), mgr)
PROOF
  <1> DEFINE f == Settled
  <1>1. Forwarded(f, mgr) /\ f \in Forwards
    BY SettledForwarded
  <1>2. o.fence \in Int
    BY DEF ForwardOwners
  <1> HIDE DEF f
  <1>3. LET g == [f EXCEPT !.cand = o, !.auth = FALSE, !.last = o.fence]
        IN Forwarded(g, mgr)
    BY <1>1, <1>2 DEF Forwarded, Forwards, Opt
  <1>4. Forwarded([f EXCEPT !.auth = TRUE], mgr)
    BY <1>1 DEF Forwarded, Forwards
  <1>5. Forwarded([f EXCEPT !.phase = "Guarded"], mgr)
    BY <1>1 DEF Forwarded, Forwards
  <1>6. Forwarded([f EXCEPT !.cand = None, !.auth = FALSE], mgr)
    BY <1>1 DEF Forwarded, Forwards, Opt
  <1>7. Forwarded([f EXCEPT !.phase = "Revoked", !.cand = None, !.auth = FALSE], mgr)
    BY <1>1 DEF Forwarded, Forwards, Opt
  <1>8. o.epoch <= mgr.epoch =>
        Forwarded([f EXCEPT !.owner = o, !.phase = "Active", !.cand = None, !.auth = FALSE], mgr)
    BY <1>1 DEF Forwarded, Forwards, Opt
  <1>9. NetdPrepare(o) # None => Forwarded(NetdPrepare(o), mgr)
    BY <1>1, <1>3 DEF NetdPrepare, f
  <1>10. NetdAuthorize(o) # None => Forwarded(NetdAuthorize(o), mgr)
    BY <1>4 DEF NetdAuthorize, f
  <1>11. NetdGuard(o) # None => Forwarded(NetdGuard(o), mgr)
    BY <1>5 DEF NetdGuard, f
  <1>12. NetdRevoke(o) # None => Forwarded(NetdRevoke(o), mgr)
    BY <1>6, <1>7 DEF NetdRevoke, f
  <1>13. o.epoch <= mgr.epoch /\ NetdCommit(o) # None => Forwarded(NetdCommit(o), mgr)
    BY <1>1, <1>8 DEF NetdCommit, f
  <1> QED BY <1>9, <1>10, <1>11, <1>12, <1>13

LEMMA CutOwner ==
  ASSUME Inv, jr # None
  PROVE  Cut \in ForwardOwners /\ Cut.epoch = jr.owner.epoch
PROOF
  BY Standing DEF Cut, ForwardOwners

\* A step that asks netd.
LEMMA NetdStep ==
  ASSUME Inv, UNCHANGED <<guard, lapsed, mgr, ctl, orec, serial>>,
         NEW f, f # None => Forwarded(f, mgr), fw' \in {fw, f}, fw' # None, Sound(jr'),
         Filed(jr', orec, ctl, mgr, serial), Place(ag', jr', ctl, mgr)
  PROVE  Inv'
PROOF
  <1>1. Forwarded(fw, mgr) /\ Port(ctl, mgr)
    BY DEF Inv
  <1>2. Forwarded(fw', mgr)
    BY <1>1
  <1> QED BY <1>2 DEF Inv

-----------------------------------------------------------------------------
(* run_with_plan                                                           *)

LEMMA RenewOK ==
  ASSUME Inv, Renew
  PROVE  Inv'
PROOF
  <1>0. "idle" \in Pcs
    BY DEF Pcs
  <1>1. Place(ag', jr, ctl, mgr)
    BY <1>0, AgentGoes, PlaceIdle DEF Renew
  <1> QED BY <1>1 DEF Renew, Local, Keep, files, Inv

\* Takeover changes the controller epoch only.
LEMMA TakeoverQuiet ==
  ASSUME NEW c, NEW m, Port(c, m), NEW b \in Int
  PROVE  Keeps(c, m, [c EXCEPT !.by = b], m)
PROOF
  <1> DEFINE d == [c EXCEPT !.by = b]
  <1>1. /\ d \in Controllers /\ d.pending = c.pending /\ d.cand = c.cand
        /\ d.term = c.term /\ d.active = c.active /\ d.owned = c.owned
        /\ d.binding = c.binding /\ d.cancelled = c.cancelled /\ d.retired = c.retired
        /\ d.epoch = c.epoch
    BY DEF Port, Controllers
  <1> HIDE DEF d
  <1>2. Port(d, m)
    BY <1>1 DEF Port, Agreed, Held, Concluded
  <1>3. Follows(c, m, d, m)
    BY <1>1 DEF Follows
  <1> QED BY <1>2, <1>3, FollowsFiled DEF d

LEMMA DiscoverOK ==
  ASSUME Inv, Discover
  PROVE  Inv'
PROOF
  <1>0. ag \in Agents /\ ag.by \in Int /\ Idle \in Agents /\ Idle.pc = "idle"
        /\ "idle" \in Pcs
    BY AgentGoes DEF Pcs
  <1> DEFINE b == [ctl EXCEPT !.by = ag.by]
             c == Reconcile(b, mgr)
             act == [active |-> c.active, pending |-> c.pending, owned |-> c.owned,
                     rev |-> c.rev]
             mbb == [At(ag.by, "mbb") EXCEPT
                       !.binding = IF jr.env = None THEN ctl.binding ELSE 0]
             other == [At(ag.by, Route) EXCEPT
                         !.act = act, !.binding = ctl.binding,
                         !.epoch = IF jr = None THEN 0 ELSE jr.owner.epoch,
                         !.fence = IF jr = None THEN 0 ELSE jr.owner.fence]
  <1>1. Keeps(ctl, mgr, c, mgr)
    <2>1. Keeps(ctl, mgr, b, mgr)
      BY <1>0, TakeoverQuiet DEF Inv
    <2>2. Keeps(b, mgr, c, mgr)
      BY <2>1, ReconcileQuiet DEF Keeps
    <2> QED BY <2>1, <2>2, KeepsTransitive
  <1>2. c \in Controllers /\ ctl.binding \in Int
    BY <1>1 DEF Keeps, Port, Inv, Controllers
  <1>3. /\ jr' = jr /\ UNCHANGED <<guard, lapsed, fw, serial, orec>>
        /\ \/ /\ mgr' = mgr /\ ctl' = c
              /\ ag' = IF Route = "mbb" THEN mbb ELSE other
           \/ /\ (mgr' = mgr /\ ctl' = c) \/ UNCHANGED <<mgr, ctl>>
              /\ ag' = Idle
    BY DEF Discover, Ask, Done, PortOnly, Keep, Same
  <1>4. Keeps(ctl, mgr, ctl', mgr')
    BY <1>1, <1>3, Itself DEF Inv
  <1> HIDE DEF c
  <1>5. act \in PortStates /\ act # None
    <2>1. act \in PortStates
      BY <1>2 DEF Controllers, PortStates
    <2> HIDE DEF act
    <2> QED BY <2>1, NoneRenewalAssumption
  <1>6. Place(ag', jr, ctl', mgr')
    <2>1. CASE ag' = Idle
      BY <1>0, <2>1, PlaceIdle
    <2>2. CASE Route = "mbb" /\ ag' = mbb
      <3>1. jr # None /\ jr.phase \in MbbPhases
        BY <2>2, Standing DEF Route, Sound
      <3>2. mbb \in Agents /\ mbb.pc = "mbb"
        <4>1. "mbb" \in Pcs
          BY DEF Pcs
        <4>2. At(ag.by, "mbb") \in Agents /\ At(ag.by, "mbb").pc = "mbb"
          BY <1>0, <4>1, AtType
        <4> QED BY <1>2, <4>2 DEF Agents
      <3> QED BY <2>2, <3>1, <3>2, PlacePlain
    <2>3. CASE Route # "mbb" /\ ag' = other /\ ctl' = c
      <3>1. Route \in {"fresh", "retire", "recover"}
        BY <2>3 DEF Route
      <3>2. other \in Agents /\ other.pc = Route /\ other.act = act
        <4>1. Route \in Pcs
          BY <3>1 DEF Pcs, TakingBack
        <4>2. At(ag.by, Route) \in Agents /\ At(ag.by, Route).pc = Route
          BY <1>0, <4>1, AtType
        <4>3. jr # None => jr.owner.epoch \in Int /\ jr.owner.fence \in Int
          BY Standing DEF ForwardOwners
        <4> DEFINE start == At(ag.by, Route)
                   epoch == IF jr = None THEN 0 ELSE jr.owner.epoch
                   fence == IF jr = None THEN 0 ELSE jr.owner.fence
        <4>4. epoch \in Int /\ fence \in Int
          BY <4>3
        <4>5. act \in Opt(PortStates)
          BY <1>5 DEF Opt
        <4>6. other = [start EXCEPT !.act = act, !.binding = ctl.binding,
                                    !.epoch = epoch, !.fence = fence]
          OBVIOUS
        <4> HIDE DEF act, start, epoch, fence, other
        <4> QED BY <1>2, <4>2, <4>4, <4>5, <4>6 DEF Agents, start
      <3>3. act.pending = c.pending
        OBVIOUS
      <3>4. Journaled(Route, jr)
        <4>1. CASE jr = None
          <5>1. Route = "fresh"
            BY <4>1 DEF Route
          <5> QED BY <4>1, <5>1 DEF Journaled, Unstarted, Attaching, Undoing, Completing,
                                TakingBack, Reserving, Replacing, Finishing
        <4>2. CASE jr # None /\ jr.phase = "committed"
          <5>1. Route = "retire"
            BY <4>2 DEF Route
          <5> QED BY <4>2, <5>1 DEF Journaled, Unstarted, Attaching, Undoing, Completing,
                                TakingBack, Reserving, Replacing, Finishing
        <4>3. CASE jr # None /\ jr.phase # "committed"
          <5>1. Route = "recover" /\ ~jr.res /\ jr.phase \notin MbbPhases
            BY <2>3, <4>3 DEF Route
          <5>2. jr.co = None \/ jr.phase = "committed_owner_isolated"
            BY <4>3, <5>1, Standing DEF Sound
          <5> QED BY <4>3, <5>1, <5>2 DEF Journaled, Unstarted, Attaching, Undoing,
                                Completing, TakingBack, Reserving, Replacing, Finishing
        <4> QED BY <4>1, <4>2, <4>3
      <3> HIDE DEF other, act
      <3> QED BY <1>5, <2>3, <3>1, <3>2, <3>3, <3>4 DEF Place, TakingBack
    <2> QED BY <1>3, <2>1, <2>2, <2>3
  <1>7. Sound(jr')
    BY <1>3, Standing
  <1> QED BY <1>3, <1>4, <1>6, <1>7, QuietStep

LEMMA RetireCommittedOK ==
  ASSUME Inv, RetireCommitted
  PROVE  Inv'
PROOF
  <1>1. /\ ag.pc = "retire" /\ UNCHANGED <<guard, lapsed, mgr, ctl, fw, jr, orec, serial>>
        /\ ag' \in {Serve, Go("fresh"), Idle}
    BY DEF RetireCommitted, Stop, Local, Keep
  <1>2. "fresh" \in Pcs
    BY DEF Pcs
  <1>3. Place(ag', jr, ctl, mgr)
    <2>1. CASE ag' \in {Serve, Idle}
      BY <1>2, <2>1, AgentGoes, PlaceIdle
    <2>2. CASE ag' = Go("fresh")
      <3>1. ag' \in Agents /\ ag'.pc = "fresh" /\ ag'.act = ag.act
        BY <1>2, <2>2, AgentGoes
      <3>2. jr # None /\ jr.phase = "committed"
            /\ ag.act # None /\ (ctl.pending # None => ag.act.pending = ctl.pending)
        BY <1>1, Standing DEF Place, Journaled
      <3> QED BY <3>1, <3>2 DEF Place, Journaled, Unstarted, Attaching, Undoing,
                 Completing, TakingBack, Reserving, Replacing, Finishing
    <2> QED BY <1>1, <2>1, <2>2
  <1> QED BY <1>1, <1>3 DEF Inv

LEMMA NewJournalSound ==
  ASSUME Inv, ag.pc = "fresh", NEW mbb \in BOOLEAN
  PROVE  LET k == NewJournal(mbb)
         IN /\ k \in Journals /\ k # None /\ Sound(k)
            /\ k.tx = serial + 1 /\ k.env = None /\ k.co = None /\ ~k.res
            /\ k.phase = IF mbb THEN "mbb_reserving" ELSE "verified"
PROOF
  <1> DEFINE k == NewJournal(mbb)
             epoch == 1 + Larger(ag.binding, Larger(ag.epoch, Settled.owner.epoch))
             fence == 1 + Larger(ag.fence, Settled.last)
             owner == ForwardOwner(serial + 1, epoch, fence, FALSE)
             phase == IF mbb THEN "mbb_reserving" ELSE "verified"
             rev == ag.act.rev + 1
  <1>1. /\ ag \in Agents /\ ag.act # None /\ ag.act \in PortStates
        /\ serial \in Nat /\ orec \in Int
    BY DEF Inv, Place, Agents, Opt
  <1>2. Settled.owner.epoch \in Int /\ Settled.last \in Int
    BY SettledForwarded DEF Forwards, ForwardOwners
  <1>3. /\ ag.binding \in Int /\ ag.epoch \in Int /\ ag.fence \in Int /\ ag.act.rev \in Int
    BY <1>1 DEF Agents, PortStates
  <1>4. epoch \in Int /\ fence \in Int /\ rev \in Int /\ serial + 1 \in Nat
    BY <1>1, <1>2, <1>3 DEF Larger
  <1> HIDE DEF epoch, fence, rev
  <1>5. owner \in ForwardOwners
    BY <1>4 DEF ForwardOwner, ForwardOwners
  <1>6. phase \in Phases
    BY DEF Phases, MbbPhases
  <1>7. k = [phase |-> phase, tx |-> serial + 1, rev |-> rev, env |-> None, old |-> orec,
             owner |-> owner, co |-> None, res |-> FALSE, fret |-> FALSE, outcome |-> None]
    BY DEF NewJournal, epoch, fence, rev
  <1>8. /\ k \in Journals /\ k.tx = serial + 1 /\ k.env = None /\ k.co = None /\ ~k.res
        /\ k.phase = phase
    <2> HIDE DEF k, owner, phase
    <2> QED BY <1>1, <1>4, <1>5, <1>6, <1>7 DEF Journals, Opt
  <1> HIDE DEF k
  <1>9. k # None
    BY <1>8, NoneRenewalAssumption
  <1>10. Sound(k)
    BY <1>8 DEF Sound
  <1> QED BY <1>8, <1>9, <1>10 DEF k

LEMMA FreshOK ==
  ASSUME Inv, Fresh
  PROVE  Inv'
PROOF
  <1> DEFINE mbb == ag.act.owned /\ Runs(orec)
             k == NewJournal(mbb)
  <1>1. /\ ag.pc = "fresh" /\ UNCHANGED <<guard, lapsed, mgr, ctl, fw, orec>>
        /\ \/ /\ ag.act.pending = None /\ jr' = k /\ serial' = serial + 1
              /\ ag' = IF mbb THEN [At(ag.by, "mReserve") EXCEPT !.binding = ag.binding]
                       ELSE [At(ag.by, "lGuard") EXCEPT
                               !.live = Settled.phase \in {"Active", "Guarded"}]
           \/ ag' = Idle /\ UNCHANGED <<jr, serial>>
    BY DEF Fresh, Local, Keep
  <1>2. CASE ag' = Idle /\ UNCHANGED <<jr, serial>>
    <2>0. "idle" \in Pcs
      BY DEF Pcs
    <2>1. Place(ag', jr, ctl, mgr)
      BY <1>2, <2>0, AgentGoes, PlaceIdle
    <2> QED BY <1>1, <1>2, <2>1 DEF Inv
  <1>3. CASE /\ ag.act.pending = None /\ jr' = k /\ serial' = serial + 1
             /\ ag' = IF mbb THEN [At(ag.by, "mReserve") EXCEPT !.binding = ag.binding]
                      ELSE [At(ag.by, "lGuard") EXCEPT
                              !.live = Settled.phase \in {"Active", "Guarded"}]
    <2>0. /\ ag \in Agents /\ ag.by \in Int /\ ag.binding \in Int
          /\ serial \in Nat
          /\ jr = None \/ jr.phase = "committed"
          /\ ctl.pending = None /\ Filed(jr, orec, ctl, mgr, serial) /\ Port(ctl, mgr)
      BY <1>1, <1>3 DEF Inv, Place, Agents, Journaled
    <2>1. mbb \in BOOLEAN
      OBVIOUS
    <2>2. /\ k \in Journals /\ k # None /\ Sound(k)
          /\ k.tx = serial + 1 /\ k.env = None /\ k.co = None /\ ~k.res
          /\ k.phase = IF mbb THEN "mbb_reserving" ELSE "verified"
      BY <1>1, <2>1, NewJournalSound
    <2> HIDE DEF k, mbb
    <2>3. Filed(k, orec, ctl, mgr, serial + 1)
      <3>1. ctl.cand = None
        BY <2>0, NoneAssumption DEF Port, Held, Controllers, Opt, Preparations
      <3>2. \A e : Unique(e, jr, serial) => Unique(e, k, serial + 1)
        BY <2>0, <2>2 DEF Unique
      <3>3. Intended(k, orec, mgr)
        BY <2>0 DEF Filed, Intended
      <3>4. mgr.last # None => /\ mgr.last.txn.tx \in 1..(serial + 1)
                               /\ mgr.last.txn.tx # k.tx
        BY <2>0, <2>2 DEF Filed
      <3>5. k.tx \in 1..(serial + 1)
        BY <2>0, <2>2
      <3> QED BY <2>0, <2>2, <3>1, <3>2, <3>3, <3>4, <3>5 DEF Filed
    <2>4. Place(ag', k, ctl, mgr)
      <3>1. CASE mbb
        <4>1. "mReserve" \in Pcs
          BY DEF Pcs, Reserving
        <4>2. At(ag.by, "mReserve") \in Agents /\ At(ag.by, "mReserve").pc = "mReserve"
          BY <2>0, <4>1, AtType
        <4>3. ag' \in Agents /\ ag'.pc = "mReserve"
          BY <1>3, <2>0, <3>1, <4>2 DEF Agents
        <4>4. k.phase \in MbbPhases /\ ag'.pc \in Reserving
          BY <2>2, <3>1, <4>3 DEF MbbPhases, Reserving
        <4>5. ag'.pc # "mSpawn"
          BY <4>3
        <4> QED BY <2>2, <4>3, <4>4, <4>5, PlacePlain
      <3>2. CASE ~mbb
        <4>1. "lGuard" \in Pcs
          BY DEF Pcs, Unstarted
        <4>2. At(ag.by, "lGuard") \in Agents /\ At(ag.by, "lGuard").pc = "lGuard"
          BY <2>0, <4>1, AtType
        <4> DEFINE live == Settled.phase \in {"Active", "Guarded"}
                   start == At(ag.by, "lGuard")
        <4>3. ag' \in Agents /\ ag'.pc = "lGuard"
          <5>1. ag' = [start EXCEPT !.live = live] /\ live \in BOOLEAN
            BY <1>3, <3>2
          <5> HIDE DEF live, start
          <5> QED BY <4>2, <5>1 DEF Agents, start
        <4>4. /\ k.phase \notin MbbPhases \cup {"committed", "committed_owner_isolated"}
              /\ ag'.pc \in Unstarted
          BY <2>2, <3>2, <4>3 DEF MbbPhases, Unstarted
        <4> QED BY <2>2, <4>3, <4>4, PlacePlain
      <3> QED BY <3>1, <3>2
    <2>5. serial' \in Nat /\ serial' = serial + 1
      BY <1>3, <2>0
    <2> QED BY <1>1, <1>3, <2>2, <2>3, <2>4, <2>5 DEF Inv
  <1> QED BY <1>1, <1>2, <1>3

LEMMA NetdMove ==
  ASSUME Inv, UNCHANGED <<guard, lapsed, mgr, ctl, orec, serial>>, jr # None,
         NEW f, f # None => Forwarded(f, mgr), fw' = fw \/ (fw' = f /\ f # None),
         Continues(jr, jr'), Place(ag', jr', ctl, mgr)
  PROVE  Inv'
PROOF
  <1>1. fw # None
    BY Standing, NoneRenewalAssumption
  <1>2. Sound(jr') /\ Filed(jr', orec, ctl, mgr, serial)
    BY DEF Continues, Inv
  <1> QED BY <1>1, <1>2, NetdStep

LEMMA QuietMove ==
  ASSUME Inv, UNCHANGED <<guard, lapsed, fw, serial, orec>>, jr # None,
         Keeps(ctl, mgr, ctl', mgr'), Continues(jr, jr'), Place(ag', jr', ctl', mgr')
  PROVE  Inv'
PROOF
  BY QuietStep DEF Continues

LEMMA LegacyGuardOK ==
  ASSUME Inv, LegacyGuard
  PROVE  Inv'
PROOF
  <1> DEFINE f == NetdGuard(fw.owner)
  <1>1. /\ ag.pc = "lGuard" /\ UNCHANGED <<guard, lapsed, mgr, ctl, orec, serial>>
        /\ fw' = fw \/ (fw' = f /\ f # None)
        /\ \/ jr' = Phase("old_worker_guarded") /\ ag' = Go("lSpawn")
           \/ ag' = Idle /\ jr' = jr
           \/ jr' = jr /\ ag' = Go("lSpawn")
    BY DEF LegacyGuard, AskNetd, NetdOnly, Keep, Fail, Same
  <1>2. /\ jr # None /\ jr.co = None /\ ~jr.res /\ jr.env = None
        /\ jr.phase \notin MbbPhases \cup {"committed", "committed_owner_isolated"}
    BY <1>1, Standing DEF Journaled, Unstarted
  <1>3. "old_worker_guarded" \in Phases \ (MbbPhases \cup {"committed", "committed_owner_isolated"})
    BY DEF Phases, MbbPhases
  <1>4. "lSpawn" \in Pcs /\ "lSpawn" \in Unstarted
    BY DEF Pcs, Unstarted
  <1>5. /\ jr' # None /\ jr'.co = None /\ ~jr'.res /\ jr'.env = None
        /\ jr'.phase \notin MbbPhases \cup {"committed", "committed_owner_isolated"}
        /\ Continues(jr, jr')
    BY <1>1, <1>2, <1>3, LegacyPhase, ContinuesItself DEF Continues
  <1>6. Place(ag', jr', ctl, mgr)
    <2>1. CASE ag' = Idle
      BY <1>4, <2>1, AgentGoes, PlaceIdle
    <2>2. CASE ag' = Go("lSpawn")
      BY <1>4, <1>5, <2>2, AgentGoes, PlacePlain
    <2> QED BY <1>1, <2>1, <2>2
  <1>7. f # None => Forwarded(f, mgr)
    BY Standing, NetdAnswers DEF Forwards
  <1> HIDE DEF f
  <1> QED BY <1>1, <1>2, <1>5, <1>6, <1>7, NetdMove

LEMMA SpawnedEnvelope ==
  ASSUME Inv, jr # None
  PROVE  /\ Envelope \in Envelopes /\ Envelope # None
         /\ Envelope.tx = jr.tx /\ Envelope.epoch = jr.owner.epoch
PROOF
  <1>1. /\ jr.tx \in Nat /\ jr.rev \in Int /\ jr.owner.epoch \in Int /\ ag.by \in Int
    BY Standing DEF Journals, ForwardOwners, Agents
  <1>2. /\ Envelope \in Envelopes /\ Envelope.tx = jr.tx /\ Envelope.epoch = jr.owner.epoch
    BY <1>1 DEF Envelope, Envelopes
  <1> QED BY <1>2, NoneAssumption

\* Two ways out of a spawn: the envelope is on disk, or the agent died.
LEMMA SpawnOK ==
  ASSUME Inv, UNCHANGED <<guard, lapsed, mgr, ctl, fw, orec, serial>>,
         NEW k, NEW pc \in Pcs, jr # None, jr.env = None,
         Sound(k), k # None, k.tx = jr.tx,
         k.phase \notin {"committed", "committed_owner_isolated"},
         \/ jr' = k /\ ag' = [At(ag.by, pc) EXCEPT !.fd = TRUE]
         \/ jr' = jr /\ ag' = At(ag.by + 1, "idle"),
         \A a \in Agents : a.pc = pc => Place(a, k, ctl, mgr)
  PROVE  Inv'
PROOF
  <1>1. ag \in Agents /\ ag.by \in Int /\ ag.by + 1 \in Int
    BY Standing DEF Agents
  <1>2. Port(ctl, mgr) /\ Filed(jr, orec, ctl, mgr, serial) /\ jr.co = None
    BY DEF Inv, Sound
  <1>3. CASE jr' = k /\ ag' = [At(ag.by, pc) EXCEPT !.fd = TRUE]
    <2>1. ag' \in Agents /\ ag'.pc = pc
      BY <1>1, <1>3, AtFlags
    <2>2. Filed(k, orec, ctl, mgr, serial)
      BY <1>2, FiledSpawn
    <2> QED BY <1>3, <2>1, <2>2 DEF Inv
  <1>4. CASE jr' = jr /\ ag' = At(ag.by + 1, "idle")
    <2>1. "idle" \in Pcs
      BY DEF Pcs
    <2>2. ag' \in Agents /\ ag'.pc = "idle"
      BY <1>1, <1>4, <2>1, AtType
    <2>3. Place(ag', jr, ctl, mgr)
      BY <2>2, PlaceIdle
    <2> QED BY <1>4, <2>3 DEF Inv
  <1> QED BY <1>3, <1>4

LEMMA LegacySpawnOK ==
  ASSUME Inv, LegacySpawn
  PROVE  Inv'
PROOF
  <1> DEFINE k == [Phase("registered") EXCEPT !.env = Envelope]
  <1>1. /\ ag.pc = "lSpawn" /\ UNCHANGED <<guard, lapsed, mgr, ctl, fw, orec, serial>>
        /\ \/ jr' = k /\ ag' = [At(ag.by, "lStage") EXCEPT !.fd = TRUE]
           \/ jr' = jr /\ ag' = At(ag.by + 1, "idle")
    BY DEF LegacySpawn, Spawn, Local, Keep
  <1>2. /\ jr # None /\ jr.co = None /\ ~jr.res /\ jr.env = None
        /\ jr.phase \notin MbbPhases \cup {"committed", "committed_owner_isolated"}
    BY <1>1, Standing DEF Journaled, Unstarted
  <1>3. "registered" \in Phases \ (MbbPhases \cup {"committed", "committed_owner_isolated"})
    BY DEF Phases, MbbPhases
  <1>4. /\ Phase("registered") \in Journals /\ Phase("registered").phase = "registered"
        /\ Phase("registered").co = None /\ ~Phase("registered").res
        /\ Phase("registered").owner = jr.owner /\ Phase("registered").tx = jr.tx
    BY <1>2, <1>3, LegacyPhase
  <1>5. Envelope \in Envelopes /\ Envelope # None
        /\ Envelope.tx = jr.tx /\ Envelope.epoch = jr.owner.epoch
    BY <1>2, SpawnedEnvelope
  <1>6. /\ k \in Journals /\ k.phase = "registered" /\ k.co = None /\ ~k.res
        /\ k.env = Envelope /\ k.tx = jr.tx /\ k.owner = jr.owner
    BY <1>4, <1>5 DEF Journals, Opt
  <1> HIDE DEF k
  <1>7. k # None
    BY <1>6, NoneRenewalAssumption
  <1>8. Sound(k)
    BY <1>3, <1>5, <1>6 DEF Sound
  <1>9. "lStage" \in Pcs /\ "lStage" \in Attaching \ {"lCommit"}
    BY DEF Pcs, Attaching
  <1>10. \A a \in Agents : a.pc = "lStage" => Place(a, k, ctl, mgr)
    BY <1>3, <1>5, <1>6, <1>7, <1>9, PlacePlain
  <1>11. k.phase \notin {"committed", "committed_owner_isolated"}
    BY <1>6
  <1> QED BY <1>1, <1>2, <1>6, <1>7, <1>8, <1>9, <1>10, <1>11, SpawnOK

\* What the journal is while an attach runs.
LegacyJournal(j) ==
    /\ j # None /\ j.co = None /\ ~j.res
    /\ j.phase \notin MbbPhases \cup {"committed", "committed_owner_isolated"}

LEMMA LegacyMoves ==
  ASSUME Inv, LegacyJournal(jr),
         NEW p \in {"old_worker_guarded", "barrier", "attached", "commit_pending", "retry_wait"}
  PROVE  /\ LegacyJournal(Phase(p)) /\ Continues(jr, Phase(p)) /\ Phase(p) \in Journals
         /\ Phase(p).env = jr.env /\ Phase(p).owner = jr.owner /\ Phase(p).tx = jr.tx
         /\ Phase(p).phase = p
PROOF
  <1>1. p \in Phases \ (MbbPhases \cup {"committed", "committed_owner_isolated"})
    BY DEF Phases, MbbPhases
  <1> QED BY <1>1, LegacyPhase DEF LegacyJournal, Continues

LEMMA LegacyCut ==
  ASSUME Inv, LegacyJournal(jr), NEW p \in {"attached", "retry_wait"}
  PROVE  LET k == [Phase(p) EXCEPT !.owner = Cut]
         IN LegacyJournal(k) /\ Continues(jr, k) /\ k.env = jr.env
PROOF
  <1> DEFINE b == Phase(p)
             k == [b EXCEPT !.owner = Cut]
  <1>1. /\ LegacyJournal(b) /\ b \in Journals /\ b.env = jr.env /\ b.tx = jr.tx
        /\ b.owner = jr.owner
    BY LegacyMoves
  <1>2. Cut \in ForwardOwners /\ Cut.epoch = jr.owner.epoch
    BY CutOwner DEF LegacyJournal
  <1> HIDE DEF b
  <1>3. /\ k \in Journals /\ k.env = jr.env /\ k.tx = jr.tx /\ k.co = b.co /\ k.res = b.res
        /\ k.phase = b.phase /\ k.owner = Cut
    BY <1>1, <1>2 DEF Journals
  <1> HIDE DEF k
  <1>4. k # None
    BY <1>3, NoneRenewalAssumption
  <1>5. LegacyJournal(k)
    BY <1>1, <1>3, <1>4 DEF LegacyJournal
  <1>6. Continues(jr, k)
    BY <1>2, <1>3, <1>5, LegacyContinues DEF LegacyJournal
  <1> QED BY <1>3, <1>5, <1>6 DEF k, b

LEMMA PlaceLegacy ==
  ASSUME NEW a \in Agents, NEW j, NEW c, NEW m, LegacyJournal(j),
         a.pc \in {"idle", "serve", "lUndo", "lDrop"} \/ (j.env # None /\ a.pc \in Attaching \ {"lCommit"})
  PROVE  Place(a, j, c, m)
PROOF
  <1>1. CASE a.pc \in {"idle", "serve"}
    BY <1>1, PlaceIdle
  <1>2. CASE a.pc \in {"lUndo", "lDrop"}
    BY <1>2, PlacePlain DEF Undoing, LegacyJournal
  <1>3. CASE j.env # None /\ a.pc \in Attaching \ {"lCommit"}
    BY <1>3, PlacePlain DEF LegacyJournal
  <1> QED BY <1>1, <1>2, <1>3

LEMMA AtLegacy ==
  ASSUME Inv, ag.pc \in Attaching
  PROVE  LegacyJournal(jr) /\ jr.env # None
PROOF
  BY Standing DEF Journaled, LegacyJournal, Attaching

LEMMA LegacyStageOK ==
  ASSUME Inv, LegacyStage
  PROVE  Inv'
PROOF
  <1> DEFINE r == StageAuthority(Now, Env)
  <1>1. /\ ag.pc = "lStage" /\ UNCHANGED <<guard, lapsed, fw, orec, serial>>
        /\ (mgr' = r.mgr /\ ctl' = r.ctl) \/ UNCHANGED <<mgr, ctl>>
        /\ \/ jr' = Phase("barrier") /\ ag' = Go("lAttach")
           \/ jr' = jr /\ ag' = Go("lUndo")
    BY DEF LegacyStage, Ask, PortOnly, Keep, Same
  <1>2. LegacyJournal(jr) /\ jr.env # None
    BY <1>1, AtLegacy DEF Attaching
  <1>3. Asked(jr, orec, Now, mgr, serial, Env)
    BY <1>2, AskedNow DEF LegacyJournal
  <1>4. Port(r.ctl, r.mgr) /\ Filed(jr, orec, r.ctl, r.mgr, serial) /\ r.mgr = mgr
    BY <1>3, StageFiled
  <1> HIDE DEF r
  <1>5. Port(ctl', mgr') /\ Filed(jr, orec, ctl', mgr', serial) /\ Moves(mgr, mgr')
    BY <1>1, <1>4, StillMoves DEF Inv
  <1>6. LegacyJournal(jr') /\ Continues(jr, jr') /\ jr'.env # None
    BY <1>1, <1>2, LegacyMoves, ContinuesItself DEF LegacyJournal
  <1>7. {"lAttach", "lUndo"} \subseteq Pcs /\ "lAttach" \in Attaching \ {"lCommit"}
    BY DEF Pcs, Attaching, Undoing
  <1>8. ag' \in Agents /\ ag'.pc \in {"lAttach", "lUndo"}
    BY <1>1, <1>7, AgentGoes
  <1>9. Place(ag', jr', ctl', mgr')
    BY <1>6, <1>7, <1>8, PlaceLegacy
  <1>10. Sound(jr') /\ Filed(jr', orec', ctl', mgr', serial) /\ orec' \in Int
    BY <1>1, <1>5, <1>6 DEF Continues, Inv
  <1> QED BY <1>1, <1>5, <1>9, <1>10, PortStep

LEMMA LegacyAttachOK ==
  ASSUME Inv, LegacyAttach
  PROVE  Inv'
PROOF
  <1> DEFINE r == AttachAuthorized(Now, Env)
  <1>1. /\ ag.pc = "lAttach" /\ UNCHANGED <<guard, lapsed, fw, orec, serial, jr>>
        /\ (mgr' = r.mgr /\ ctl' = r.ctl) \/ UNCHANGED <<mgr, ctl>>
        /\ \/ ag' = [At(ag.by, "lPrepare") EXCEPT !.att = TRUE]
           \/ ag' = Go("lProbe")
    BY DEF LegacyAttach, Ask, PortOnly, Keep, Same
  <1>2. LegacyJournal(jr) /\ jr.env # None
    BY <1>1, AtLegacy DEF Attaching
  <1>3. Asked(jr, orec, Now, mgr, serial, Env)
    BY <1>2, AskedNow DEF LegacyJournal
  <1>4. Port(r.ctl, r.mgr) /\ Filed(jr, orec, r.ctl, r.mgr, serial) /\ Moves(mgr, r.mgr)
    BY <1>2, <1>3, AttachFiled DEF LegacyJournal
  <1> HIDE DEF r
  <1>5. Port(ctl', mgr') /\ Filed(jr, orec, ctl', mgr', serial) /\ Moves(mgr, mgr')
    BY <1>1, <1>4, StillMoves DEF Inv
  <1>7. {"lPrepare", "lProbe"} \subseteq Pcs /\ {"lPrepare", "lProbe"} \subseteq Attaching \ {"lCommit"}
    BY DEF Pcs, Attaching
  <1>8. ag' \in Agents /\ ag'.pc \in {"lPrepare", "lProbe"}
    <2>1. CASE ag' = Go("lProbe")
      BY <1>7, <2>1, AgentGoes
    <2>2. CASE ag' = [At(ag.by, "lPrepare") EXCEPT !.att = TRUE]
      <3>1. ag.by \in Int
        BY Standing DEF Agents
      <3> QED BY <1>7, <2>2, <3>1, AtFlags
    <2> QED BY <1>1, <2>1, <2>2
  <1>9. Place(ag', jr, ctl', mgr')
    BY <1>2, <1>7, <1>8, PlaceLegacy
  <1>10. Sound(jr) /\ orec \in Int
    BY DEF Inv
  <1> QED BY <1>1, <1>5, <1>9, <1>10, PortStep

LEMMA AskedQuiet ==
  ASSUME Inv, NEW ok
  PROVE  LET r == Done(Now, mgr, ok)
         IN Keeps(Now, mgr, r.ctl, r.mgr) /\ r.ctl = Now /\ r.mgr = mgr /\ (r.ok <=> ok)
PROOF
  BY NowKnown, Itself DEF Done

LEMMA LegacyProbeOK ==
  ASSUME Inv, LegacyProbe
  PROVE  Inv'
PROOF
  <1> DEFINE r == Done(Now, mgr, Applies(Now))
  <1>1. /\ ag.pc = "lProbe" /\ UNCHANGED <<guard, lapsed, fw, orec, serial, jr>>
        /\ (mgr' = r.mgr /\ ctl' = r.ctl) \/ UNCHANGED <<mgr, ctl>>
        /\ \/ ag' = [At(ag.by, "lPrepare") EXCEPT !.att = TRUE]
           \/ ag' = Go("lUndo")
    BY DEF LegacyProbe, Ask, PortOnly, Keep, Same
  <1>2. LegacyJournal(jr) /\ jr.env # None
    BY <1>1, AtLegacy DEF Attaching
  <1>3. Keeps(Now, mgr, r.ctl, r.mgr)
    BY AskedQuiet
  <1> HIDE DEF r
  <1>4. Keeps(ctl, mgr, ctl', mgr')
    BY <1>1, <1>3, QuietAsk
  <1>5. {"lPrepare", "lUndo"} \subseteq Pcs /\ "lPrepare" \in Attaching \ {"lCommit"}
    BY DEF Pcs, Attaching, Undoing
  <1>6. ag' \in Agents /\ ag'.pc \in {"lPrepare", "lUndo"}
    <2>1. CASE ag' = Go("lUndo")
      BY <1>5, <2>1, AgentGoes
    <2>2. CASE ag' = [At(ag.by, "lPrepare") EXCEPT !.att = TRUE]
      <3>1. ag.by \in Int
        BY Standing DEF Agents
      <3> QED BY <1>5, <2>2, <3>1, AtFlags
    <2> QED BY <1>1, <2>1, <2>2
  <1>7. Place(ag', jr', ctl', mgr') /\ jr # None
    BY <1>1, <1>2, <1>5, <1>6, PlaceLegacy DEF LegacyJournal
  <1>8. Continues(jr, jr')
    BY <1>1, <1>7, ContinuesItself
  <1> QED BY <1>1, <1>4, <1>7, <1>8, QuietMove

LEMMA LegacyPrepareOK ==
  ASSUME Inv, LegacyPrepare
  PROVE  Inv'
PROOF
  <1> DEFINE f == NetdPrepare(Cut)
  <1>1. /\ ag.pc = "lPrepare" /\ UNCHANGED <<guard, lapsed, mgr, ctl, orec, serial, jr>>
        /\ fw' = fw \/ (fw' = f /\ f # None)
        /\ ag' = Go("lAuthorize") \/ ag' = Go("lUndo")
    BY DEF LegacyPrepare, AskNetd, NetdOnly, Keep, Same
  <1>2. LegacyJournal(jr) /\ jr.env # None /\ jr # None
    BY <1>1, AtLegacy DEF Attaching, LegacyJournal
  <1>3. f # None => Forwarded(f, mgr)
    BY <1>2, CutOwner, NetdAnswers
  <1> HIDE DEF f
  <1>4. {"lAuthorize", "lUndo"} \subseteq Pcs /\ "lAuthorize" \in Attaching \ {"lCommit"}
    BY DEF Pcs, Attaching, Undoing
  <1>5. ag' \in Agents /\ ag'.pc \in {"lAuthorize", "lUndo"}
    BY <1>1, <1>4, AgentGoes
  <1>6. Place(ag', jr', ctl, mgr)
    BY <1>1, <1>2, <1>4, <1>5, PlaceLegacy
  <1>7. Continues(jr, jr')
    BY <1>1, <1>2, ContinuesItself
  <1> QED BY <1>1, <1>2, <1>3, <1>6, <1>7, NetdMove

LEMMA LegacyAuthorizeOK ==
  ASSUME Inv, LegacyAuthorize
  PROVE  Inv'
PROOF
  <1> DEFINE f == NetdAuthorize(Cut)
  <1>1. /\ ag.pc = "lAuthorize" /\ UNCHANGED <<guard, lapsed, mgr, ctl, orec, serial>>
        /\ fw' = fw \/ (fw' = f /\ f # None)
        /\ \/ jr' = [Phase("attached") EXCEPT !.owner = Cut] /\ ag' = Go("lReady")
           \/ jr' = jr /\ ag' = Go("lUndo")
    BY DEF LegacyAuthorize, AskNetd, NetdOnly, Keep, Same
  <1>2. LegacyJournal(jr) /\ jr.env # None /\ jr # None
    BY <1>1, AtLegacy DEF Attaching, LegacyJournal
  <1>3. f # None => Forwarded(f, mgr)
    BY <1>2, CutOwner, NetdAnswers
  <1> HIDE DEF f
  <1>4. {"lReady", "lUndo"} \subseteq Pcs /\ "lReady" \in Attaching \ {"lCommit"}
    BY DEF Pcs, Attaching, Undoing
  <1>5. ag' \in Agents /\ ag'.pc \in {"lReady", "lUndo"}
    BY <1>1, <1>4, AgentGoes
  <1>6. LegacyJournal(jr') /\ Continues(jr, jr') /\ jr'.env = jr.env
    BY <1>1, <1>2, LegacyCut, ContinuesItself
  <1>7. Place(ag', jr', ctl, mgr)
    BY <1>2, <1>4, <1>5, <1>6, PlaceLegacy
  <1> QED BY <1>1, <1>2, <1>3, <1>6, <1>7, NetdMove

\* The probe that precedes netd's commit: the port has reached the owner's
\* epoch, and no other transaction owns it.
LEMMA AppliesProves ==
  ASSUME Inv, jr # None, jr.env # None, Applies(Now)
  PROVE  /\ jr.owner.epoch <= mgr.epoch
         /\ mgr.owner # None => mgr.owner.tx = jr.tx
PROOF
  <1>1. Port(Now, mgr)
    BY NowKnown
  <1>2. Now.active = jr.env /\ Now.binding = jr.env.epoch
    BY DEF Applies, Env
  <1>3. jr.env.epoch = jr.owner.epoch /\ jr.env.tx = jr.tx
    BY Standing DEF Sound
  <1> QED BY <1>1, <1>2, <1>3 DEF Port, Agreed

LEMMA LegacyReadyOK ==
  ASSUME Inv, LegacyReady
  PROVE  Inv'
PROOF
  <1> DEFINE r == Done(Now, mgr, Applies(Now) /\ Now.owned /\ Runs(jr.tx))
  <1>1. /\ ag.pc = "lReady" /\ UNCHANGED <<guard, lapsed, fw, orec, serial>>
        /\ (mgr' = r.mgr /\ ctl' = r.ctl) \/ UNCHANGED <<mgr, ctl>>
        /\ \/ r.ok /\ jr' = Phase("commit_pending") /\ ag' = Go("lCommit")
           \/ jr' = jr /\ ag' = Go("lUndo")
    BY DEF LegacyReady, Ask, PortOnly, Keep, Same
  <1>2. LegacyJournal(jr) /\ jr.env # None /\ jr # None
    BY <1>1, AtLegacy DEF Attaching, LegacyJournal
  <1>3. Keeps(Now, mgr, r.ctl, r.mgr) /\ r.mgr = mgr /\ (r.ok => Applies(Now))
    BY AskedQuiet
  <1> HIDE DEF r
  <1>4. Keeps(ctl, mgr, ctl', mgr') /\ mgr' = mgr
    BY <1>1, <1>3, QuietAsk
  <1>5. {"lCommit", "lUndo"} \subseteq Pcs
    BY DEF Pcs, Attaching, Undoing
  <1>6. /\ LegacyJournal(jr') /\ Continues(jr, jr') /\ jr'.env # None /\ jr'.tx = jr.tx
        /\ jr'.owner = jr.owner
    BY <1>1, <1>2, LegacyMoves, ContinuesItself
  <1>7. Place(ag', jr', ctl', mgr')
    <2>1. CASE ag' = Go("lUndo")
      BY <1>5, <1>6, <2>1, AgentGoes, PlaceLegacy
    <2>2. CASE r.ok /\ ag' = Go("lCommit")
      <3>1. ag' \in Agents /\ ag'.pc = "lCommit"
        BY <1>5, <2>2, AgentGoes
      <3>2. jr.owner.epoch <= mgr.epoch /\ (mgr.owner # None => mgr.owner.tx = jr.tx)
        BY <1>2, <1>3, <2>2, AppliesProves
      <3> QED BY <1>4, <1>6, <3>1, <3>2 DEF Place, Journaled, LegacyJournal, Unstarted,
                 Attaching, Undoing, Completing, TakingBack, Reserving, Replacing, Finishing
    <2> QED BY <1>1, <2>1, <2>2
  <1> QED BY <1>1, <1>2, <1>4, <1>6, <1>7, QuietMove

LEMMA PlaceRecords ==
  ASSUME NEW a \in Agents, NEW j, NEW c, NEW m, j # None, j.env # None,
         a.pc \in {"commit", "records"}, m.owner # None => m.owner.tx = j.tx,
         a.pc = "commit" => j.owner.epoch <= m.epoch
  PROVE  Place(a, j, c, m)
PROOF
  BY DEF Place, Journaled, Unstarted, Attaching, Undoing, Completing, TakingBack,
         Reserving, Replacing, Finishing

LEMMA LegacyCommitOK ==
  ASSUME Inv, LegacyCommit
  PROVE  Inv'
PROOF
  <1> DEFINE f == NetdCommit(jr.owner)
  <1>1. /\ ag.pc = "lCommit" /\ UNCHANGED <<guard, lapsed, mgr, ctl, orec, serial, jr>>
        /\ fw' = fw \/ (fw' = f /\ f # None)
        /\ ag' = At(ag.by, "records") \/ ag' = Idle
    BY DEF LegacyCommit, AskNetd, NetdOnly, Keep, Same
  <1>2. LegacyJournal(jr) /\ jr.env # None /\ jr # None
    BY <1>1, AtLegacy DEF Attaching, LegacyJournal
  <1>3. jr.owner.epoch <= mgr.epoch /\ (mgr.owner # None => mgr.owner.tx = jr.tx)
    BY <1>1, Standing DEF Place
  <1>4. f # None => Forwarded(f, mgr)
    BY <1>2, <1>3, Standing, NetdAnswers
  <1> HIDE DEF f
  <1>5. "records" \in Pcs
    BY DEF Pcs, Finishing
  <1>6. Place(ag', jr', ctl, mgr)
    <2>1. CASE ag' = Idle
      BY <1>5, <2>1, AgentGoes, PlaceIdle
    <2>2. CASE ag' = At(ag.by, "records")
      <3>1. ag.by \in Int
        BY Standing DEF Agents
      <3>2. ag' \in Agents /\ ag'.pc = "records"
        BY <1>5, <2>2, <3>1, AtType
      <3> QED BY <1>1, <1>2, <1>3, <3>2, PlaceRecords
    <2> QED BY <1>1, <2>1, <2>2
  <1>7. Continues(jr, jr')
    BY <1>1, <1>2, ContinuesItself
  <1> QED BY <1>1, <1>2, <1>4, <1>6, <1>7, NetdMove

LEMMA LegacyUndoOK ==
  ASSUME Inv, LegacyUndo
  PROVE  Inv'
PROOF
  <1> DEFINE o == IF ag.att THEN Cut ELSE jr.owner
             f == NetdRevoke(o)
  <1>1. /\ ag.pc = "lUndo" /\ UNCHANGED <<guard, lapsed, mgr, ctl, orec, serial, jr>>
        /\ fw' = fw \/ (fw' = f /\ f # None)
        /\ ag' = Go("lDrop")
    BY DEF LegacyUndo, AskNetd, Keep, files
  <1>2. LegacyJournal(jr) /\ jr # None
    BY <1>1, Standing DEF Journaled, LegacyJournal, Undoing
  <1>3. f # None => Forwarded(f, mgr)
    <2>1. o \in ForwardOwners
      BY <1>2, Standing, CutOwner
    <2> HIDE DEF o
    <2> QED BY <2>1, NetdAnswers
  <1> HIDE DEF f
  <1>4. "lDrop" \in Pcs
    BY DEF Pcs, Undoing
  <1>5. ag' \in Agents /\ ag'.pc = "lDrop"
    BY <1>1, <1>4, AgentGoes
  <1>6. Place(ag', jr', ctl, mgr) /\ Continues(jr, jr')
    BY <1>1, <1>2, <1>5, PlaceLegacy, ContinuesItself
  <1> QED BY <1>1, <1>2, <1>3, <1>6, NetdMove

LEMMA LegacyDropOK ==
  ASSUME Inv, LegacyDrop
  PROVE  Inv'
PROOF
  <1> DEFINE r == IF ag.att THEN RevokeExact(Now, jr.tx) ELSE DiscardAuthority(Now, jr.tx)
  <1>1. /\ ag.pc = "lDrop" /\ UNCHANGED <<guard, lapsed, fw, orec, serial>>
        /\ (mgr' = r.mgr /\ ctl' = r.ctl) \/ UNCHANGED <<mgr, ctl>>
        /\ ag' = Idle
        /\ jr' = [Phase("retry_wait") EXCEPT !.owner = IF ag.att THEN Cut ELSE @]
    BY DEF LegacyDrop, Ask, PortOnly, Keep
  <1>2. LegacyJournal(jr) /\ jr # None
    BY <1>1, Standing DEF Journaled, LegacyJournal, Undoing
  <1>3. Keeps(Now, mgr, r.ctl, r.mgr)
    BY NowKnown, RevokeQuiet, DiscardQuiet
  <1> HIDE DEF r
  <1>4. Keeps(ctl, mgr, ctl', mgr')
    BY <1>1, <1>3, QuietAsk
  <1>5. Continues(jr, jr')
    <2>1. CASE ag.att
      BY <1>1, <1>2, <2>1, LegacyCut
    <2>2. CASE ~ag.att
      <3>1. Phase("retry_wait") \in Journals /\ Continues(jr, Phase("retry_wait"))
        BY <1>2, LegacyMoves
      <3>2. jr' = [Phase("retry_wait") EXCEPT !.owner = Phase("retry_wait").owner]
        BY <1>1, <2>2
      <3>3. jr' = Phase("retry_wait")
        BY <3>1, <3>2 DEF Journals
      <3> QED BY <3>1, <3>3
    <2> QED BY <2>1, <2>2
  <1>6. "idle" \in Pcs
    BY DEF Pcs
  <1>7. Place(ag', jr', ctl', mgr')
    BY <1>1, <1>6, AgentGoes, PlaceIdle
  <1> QED BY <1>1, <1>2, <1>4, <1>5, <1>7, QuietMove

-----------------------------------------------------------------------------
(* A journal that is neither committed nor make-before-break               *)

LEMMA TakingBackPlace ==
  ASSUME Inv, ag.pc \in TakingBack
  PROVE  /\ jr # None /\ ag.act # None /\ ag.act \in PortStates
         /\ ctl.pending # None => ag.act.pending = ctl.pending
         /\ jr.co = None \/ jr.phase = "committed_owner_isolated"
         /\ jr.phase \notin MbbPhases \cup {"committed"} /\ ~jr.res
PROOF
  BY Standing DEF Place, Journaled, TakingBack, Agents, Opt

LEMMA PlaceTakingBack ==
  ASSUME NEW a \in Agents, NEW j, NEW c, NEW m, j # None, a.pc \in TakingBack,
         a.act # None, c.pending # None => a.act.pending = c.pending,
         a.pc \in {"rRevoke", "rRetire"} => c.pending = None,
         j.co = None \/ j.phase = "committed_owner_isolated",
         j.phase \notin MbbPhases \cup {"committed"}, ~j.res,
         a.pc = "rDrop" => j.env # None
  PROVE  Place(a, j, c, m)
PROOF
  BY DEF Place, Journaled, Unstarted, Attaching, Undoing, Completing, TakingBack,
         Reserving, Replacing, Finishing

LEMMA RecoverOK ==
  ASSUME Inv, Recover
  PROVE  Inv'
PROOF
  <1>1. /\ ag.pc = "recover" /\ ag.pc \in TakingBack
        /\ UNCHANGED <<guard, lapsed, mgr, ctl, fw, jr, orec, serial>>
        /\ \/ ag' = Idle
           \/ ag' = Go("rStop")
           \/ ag' = Go("rNetd") /\ jr.env # None
    BY DEF Recover, Local, Keep, files, TakingBack
  <1>2. /\ jr # None /\ ag.act # None
        /\ ctl.pending # None => ag.act.pending = ctl.pending
        /\ jr.co = None \/ jr.phase = "committed_owner_isolated"
        /\ jr.phase \notin MbbPhases \cup {"committed"} /\ ~jr.res
    BY <1>1, TakingBackPlace
  <1>3. {"rStop", "rNetd"} \subseteq Pcs /\ "rStop" \in TakingBack /\ "rNetd" \in Completing
    BY DEF Pcs, TakingBack, Completing
  <1>4. Place(ag', jr, ctl, mgr)
    <2>1. CASE ag' = Idle
      BY <1>3, <2>1, AgentGoes, PlaceIdle
    <2>2. CASE ag' = Go("rStop")
      <3>1. ag' \in Agents /\ ag'.pc = "rStop" /\ ag'.act = ag.act
        BY <1>3, <2>2, AgentGoes
      <3> QED BY <1>2, <1>3, <3>1, PlaceTakingBack
    <2>3. CASE ag' = Go("rNetd") /\ jr.env # None
      BY <1>2, <1>3, <2>3, AgentGoes, PlacePlain
    <2> QED BY <1>1, <2>1, <2>2, <2>3
  <1> QED BY <1>1, <1>4 DEF Inv

LEMMA AtCompleting ==
  ASSUME Inv, ag.pc \in Completing
  PROVE  jr # None /\ jr.env # None /\ ~jr.res /\ jr.phase \notin MbbPhases \cup {"committed"}
PROOF
  BY Standing DEF Journaled, Completing

LEMMA PlaceCompleting ==
  ASSUME Inv, ag.pc \in Completing, NEW a \in Agents, NEW k,
         a.pc \in {"idle", "proof"} \cup Completing,
         k # None, k.env # None, ~k.res, k.phase = jr.phase
  PROVE  Place(a, k, ctl, mgr)
PROOF
  <1>1. jr.phase \notin MbbPhases \cup {"committed"}
    BY AtCompleting
  <1>2. CASE a.pc = "idle"
    BY <1>2, PlaceIdle
  <1>3. CASE a.pc = "proof"
    <2>1. "proof" \in Finishing \ {"commit", "records"}
      BY DEF Finishing
    <2> QED BY <1>3, <2>1, PlacePlain
  <1>4. CASE a.pc \in Completing
    BY <1>1, <1>4, PlacePlain
  <1> QED BY <1>2, <1>3, <1>4

LEMMA RecoverNetdOK ==
  ASSUME Inv, RecoverNetd
  PROVE  Inv'
PROOF
  <1> DEFINE f == IF Settled.cand # None THEN Settled
                  ELSE IF Settled.phase = "Revoked" THEN NetdRevoke(fw.owner)
                  ELSE NetdGuard(fw.owner)
             g == IF jr.owner \in {Settled.owner, Settled.cand} THEN Settled ELSE f
  <1>1. /\ ag.pc = "rNetd" /\ UNCHANGED <<guard, lapsed, mgr, ctl, orec, serial, jr>>
        /\ fw' = fw \/ (fw' = g /\ g # None)
        /\ ag' \in {At(ag.by, "rReady"), At(ag.by, "rPrepare"), Idle}
    BY DEF RecoverNetd, AskNetd, NetdOnly, Keep, Same
  <1>2. g # None => Forwarded(g, mgr)
    <2>1. fw.owner \in ForwardOwners
      BY Standing DEF Forwards
    <2> QED BY <2>1, SettledForwarded, NetdAnswers
  <1> HIDE DEF g
  <1>3. {"idle", "rReady", "rPrepare"} \subseteq Pcs /\ {"rReady", "rPrepare", "rNetd"} \subseteq Completing
    BY DEF Pcs, Completing
  <1>4. ag.by \in Int
    BY Standing DEF Agents
  <1>5. ag' \in Agents /\ ag'.pc \in {"idle"} \cup Completing
    <2>1. CASE ag' = Idle
      BY <1>3, <2>1, AgentGoes
    <2>2. CASE ag' = At(ag.by, "rReady")
      BY <1>3, <1>4, <2>2, AtType
    <2>3. CASE ag' = At(ag.by, "rPrepare")
      BY <1>3, <1>4, <2>3, AtType
    <2> QED BY <1>1, <2>1, <2>2, <2>3
  <1>6. jr # None /\ jr.env # None /\ ~jr.res
    BY <1>1, <1>3, AtCompleting
  <1>7. Place(ag', jr', ctl, mgr)
    BY <1>1, <1>3, <1>5, <1>6, PlaceCompleting
  <1>8. Continues(jr, jr')
    BY <1>1, <1>6, ContinuesItself
  <1> QED BY <1>1, <1>2, <1>6, <1>7, <1>8, NetdMove

LEMMA RecoverPrepareOK ==
  ASSUME Inv, RecoverPrepare
  PROVE  Inv'
PROOF
  <1> DEFINE f == NetdPrepare(Cut)
  <1>1. /\ ag.pc = "rPrepare" /\ UNCHANGED <<guard, lapsed, mgr, ctl, orec, serial, jr>>
        /\ fw' = fw \/ (fw' = f /\ f # None)
        /\ ag' \in {Go("rAuthorize"), Idle}
    BY DEF RecoverPrepare, AskNetd, NetdOnly, Keep, Same
  <1>2. {"idle", "rAuthorize"} \subseteq Pcs /\ {"rAuthorize", "rPrepare"} \subseteq Completing
    BY DEF Pcs, Completing
  <1>3. jr # None /\ jr.env # None /\ ~jr.res
    BY <1>1, <1>2, AtCompleting
  <1>4. f # None => Forwarded(f, mgr)
    BY <1>3, CutOwner, NetdAnswers
  <1> HIDE DEF f
  <1>5. ag' \in Agents /\ ag'.pc \in {"idle"} \cup Completing
    BY <1>1, <1>2, AgentGoes
  <1>6. Place(ag', jr', ctl, mgr)
    BY <1>1, <1>2, <1>3, <1>5, PlaceCompleting
  <1>7. Continues(jr, jr')
    BY <1>1, <1>3, ContinuesItself
  <1> QED BY <1>1, <1>3, <1>4, <1>6, <1>7, NetdMove

\* The owner's deadlines are cut or its fence is repaired; epoch and
\* transaction stay.
LEMMA OwnerContinues ==
  ASSUME Inv, jr # None, NEW k \in Journals, k.phase = jr.phase, k.tx = jr.tx,
         k.env = jr.env, k.co = jr.co, k.res = jr.res, k.owner.epoch = jr.owner.epoch
  PROVE  Continues(jr, k)
PROOF
  <1>1. k # None
    BY NoneRenewalAssumption
  <1>2. Sound(k)
    BY Standing DEF Sound
  <1>3. \A c, m : Filed(jr, orec, c, m, serial) => Filed(k, orec, c, m, serial)
    <2> SUFFICES ASSUME NEW c, NEW m, Filed(jr, orec, c, m, serial)
                 PROVE  Filed(k, orec, c, m, serial)
      OBVIOUS
    <2>1. /\ k.phase = "committed" => orec = jr.tx
          /\ k.phase = "committed_owner_isolated" => m.owner = None
      BY DEF Filed
    <2> QED BY <1>1, <2>1, FiledJournal
  <1> QED BY <1>1, <1>2, <1>3 DEF Continues

LEMMA CutContinues ==
  ASSUME Inv, jr # None, NEW o \in ForwardOwners, o.epoch = jr.owner.epoch,
         NEW out \in Opt({"failed", "drained", "local_expired"})
  PROVE  LET k == [jr EXCEPT !.outcome = out, !.owner = o]
         IN /\ Continues(jr, k) /\ k.env = jr.env /\ k.res = jr.res
            /\ k.phase = jr.phase /\ k.tx = jr.tx /\ k \in Journals
PROOF
  <1> DEFINE k == [jr EXCEPT !.outcome = out, !.owner = o]
  <1>1. jr \in Journals
    BY Standing
  <1>2. /\ k \in Journals /\ k.env = jr.env /\ k.res = jr.res /\ k.phase = jr.phase
        /\ k.tx = jr.tx /\ k.co = jr.co /\ k.owner = o
    BY <1>1 DEF Journals
  <1> HIDE DEF k
  <1>3. Continues(jr, k)
    BY <1>2, OwnerContinues
  <1> QED BY <1>2, <1>3 DEF k

LEMMA RecoverAuthorizeOK ==
  ASSUME Inv, RecoverAuthorize
  PROVE  Inv'
PROOF
  <1> DEFINE f == NetdAuthorize(Cut)
             k == [jr EXCEPT !.outcome = jr.outcome, !.owner = Cut]
  <1>2. {"idle", "rReady"} \subseteq Pcs /\ {"rReady", "rAuthorize"} \subseteq Completing
    BY DEF Pcs, Completing
  <1>3. jr # None /\ jr.env # None /\ ~jr.res /\ jr \in Journals
    BY <1>2, AtCompleting, Standing DEF RecoverAuthorize
  <1>0. [jr EXCEPT !.owner = Cut] = k
    BY <1>3 DEF Journals
  <1>1. /\ ag.pc = "rAuthorize" /\ UNCHANGED <<guard, lapsed, mgr, ctl, orec, serial>>
        /\ fw' = fw \/ (fw' = f /\ f # None)
        /\ (jr' = k /\ ag' = Go("rReady")) \/ (jr' = jr /\ ag' = Idle)
    BY <1>0 DEF RecoverAuthorize, AskNetd, NetdOnly, Keep, Same, Fail
  <1>4. f # None => Forwarded(f, mgr)
    BY <1>3, CutOwner, NetdAnswers
  <1>5. Continues(jr, k) /\ k.env = jr.env /\ k.res = jr.res /\ k.phase = jr.phase
    BY <1>3, CutOwner, CutContinues DEF Journals
  <1> HIDE DEF f, k
  <1>6. ag' \in Agents /\ ag'.pc \in {"idle"} \cup Completing
    BY <1>1, <1>2, AgentGoes
  <1>7. Continues(jr, jr') /\ jr' # None /\ jr'.env # None /\ ~jr'.res /\ jr'.phase = jr.phase
    BY <1>1, <1>3, <1>5, ContinuesItself DEF Continues
  <1>8. Place(ag', jr', ctl, mgr)
    BY <1>1, <1>2, <1>6, <1>7, PlaceCompleting
  <1> QED BY <1>1, <1>3, <1>4, <1>7, <1>8, NetdMove

LEMMA RecoverReadyOK ==
  ASSUME Inv, RecoverReady
  PROVE  Inv'
PROOF
  <1>1. /\ ag.pc = "rReady" /\ UNCHANGED <<guard, lapsed, mgr, ctl, fw, jr, orec, serial>>
        /\ ag' \in {Go("proof"), Idle}
    BY DEF RecoverReady, Works, Local, Keep, files
  <1>2. {"idle", "proof"} \subseteq Pcs /\ "rReady" \in Completing
    BY DEF Pcs, Completing, Finishing
  <1>3. jr # None /\ jr.env # None /\ ~jr.res
    BY <1>1, <1>2, AtCompleting
  <1>4. ag' \in Agents /\ ag'.pc \in {"idle", "proof"}
    BY <1>1, <1>2, AgentGoes
  <1>5. Place(ag', jr, ctl, mgr)
    BY <1>1, <1>2, <1>3, <1>4, PlaceCompleting
  <1> QED BY <1>1, <1>5 DEF Inv

LEMMA RecoverStopOK ==
  ASSUME Inv, RecoverStop
  PROVE  Inv'
PROOF
  <1>1. /\ ag.pc = "rStop" /\ ag.pc \in TakingBack
        /\ UNCHANGED <<guard, lapsed, mgr, ctl, fw, jr, orec, serial>>
        /\ \/ ag' = Idle
           \/ ag' = Go("rRetire") /\ jr.env = None
           \/ ag' = Go("rDrop") /\ jr.env # None
    BY DEF RecoverStop, Stop, Local, Keep, files, TakingBack
  <1>2. /\ jr # None /\ ag.act # None
        /\ ctl.pending # None => ag.act.pending = ctl.pending
        /\ jr.co = None \/ jr.phase = "committed_owner_isolated"
        /\ jr.phase \notin MbbPhases \cup {"committed"} /\ ~jr.res
    BY <1>1, TakingBackPlace
  <1>3. jr.env = None => ctl.pending = None
    BY DEF Inv, Filed
  <1>4. {"idle", "rRetire", "rDrop"} \subseteq Pcs /\ {"rRetire", "rDrop"} \subseteq TakingBack
    BY DEF Pcs, TakingBack
  <1>5. Place(ag', jr, ctl, mgr)
    <2>1. CASE ag' = Idle
      BY <1>4, <2>1, AgentGoes, PlaceIdle
    <2>2. CASE ag' = Go("rRetire") /\ jr.env = None
      <3>1. ag' \in Agents /\ ag'.pc = "rRetire" /\ ag'.act = ag.act
        BY <1>4, <2>2, AgentGoes
      <3> QED BY <1>2, <1>3, <1>4, <2>2, <3>1, PlaceTakingBack
    <2>3. CASE ag' = Go("rDrop") /\ jr.env # None
      <3>1. ag' \in Agents /\ ag'.pc = "rDrop" /\ ag'.act = ag.act
        BY <1>4, <2>3, AgentGoes
      <3> QED BY <1>2, <1>4, <2>3, <3>1, PlaceTakingBack
    <2> QED BY <1>1, <2>1, <2>2, <2>3
  <1> QED BY <1>1, <1>5 DEF Inv

LEMMA RecoverDropOK ==
  ASSUME Inv, RecoverDrop
  PROVE  Inv'
PROOF
  <1> DEFINE r == IF ag.act.pending = Env THEN DiscardAuthority(Now, jr.tx)
                  ELSE IF ag.act.active = Env THEN RevokeExact(Now, jr.tx)
                  ELSE Done(ctl, mgr, TRUE)
             act == [ag.act EXCEPT !.active = r.ctl.active, !.pending = r.ctl.pending,
                                   !.owned = r.ctl.owned, !.rev = r.ctl.rev]
             act2 == IF r.ctl = ctl THEN ag.act ELSE act
  <1>1. /\ ag.pc = "rDrop" /\ ag.pc \in TakingBack
        /\ UNCHANGED <<guard, lapsed, fw, orec, serial, jr>>
        /\ (mgr' = r.mgr /\ ctl' = r.ctl) \/ UNCHANGED <<mgr, ctl>>
        /\ \/ /\ r.ok /\ mgr' = r.mgr /\ ctl' = r.ctl
              /\ ag' = [ag EXCEPT !.pc = "rRevoke", !.act = act2]
           \/ ag' = Idle
    BY DEF RecoverDrop, Ask, PortOnly, Keep, Same, TakingBack
  <1>2. /\ jr # None /\ ag.act # None /\ ag.act \in PortStates
        /\ ctl.pending # None => ag.act.pending = ctl.pending
        /\ jr.co = None \/ jr.phase = "committed_owner_isolated"
        /\ jr.phase \notin MbbPhases \cup {"committed"} /\ ~jr.res
    BY <1>1, TakingBackPlace
  <1>3. ag.act.pending # Env => ctl.pending = None
    BY <1>2 DEF Inv, Filed, Env
  <1>4. Keeps(ctl, mgr, r.ctl, r.mgr) /\ (r.ok => r.ctl.pending = None)
    <2>1. CASE ag.act.pending = Env
      <3>1. r = DiscardAuthority(Now, jr.tx)
        BY <2>1
      <3> HIDE DEF r
      <3> QED BY <3>1, NowKnown, DiscardQuiet, KeepsTransitive
    <2>2. CASE ag.act.pending # Env /\ ag.act.active = Env
      <3>1. r = RevokeExact(Now, jr.tx)
        BY <2>2
      <3> HIDE DEF r
      <3>2. Keeps(ctl, mgr, r.ctl, r.mgr)
        BY <3>1, NowKnown, RevokeQuiet, KeepsTransitive
      <3> QED BY <1>3, <2>2, <3>2 DEF Keeps
    <2>3. CASE ag.act.pending # Env /\ ag.act.active # Env
      <3>1. r.ctl = ctl /\ r.mgr = mgr
        BY <2>3 DEF Done
      <3> QED BY <1>3, <2>3, <3>1, Itself DEF Inv
    <2> QED BY <2>1, <2>2, <2>3
  <1>5. r.ctl \in Controllers
    BY <1>4 DEF Keeps, Port
  <1> HIDE DEF r
  <1>6. act \in PortStates
    BY <1>2, <1>5 DEF PortStates, Controllers
  <1> HIDE DEF act
  <1>7. act2 \in PortStates /\ act2 # None
    BY <1>2, <1>6, NoneRenewalAssumption
  <1> HIDE DEF act2
  <1>8. Keeps(ctl, mgr, ctl', mgr')
    BY <1>1, <1>4, Itself DEF Inv
  <1>9. {"idle", "rRevoke"} \subseteq Pcs /\ "rRevoke" \in TakingBack
    BY DEF Pcs, TakingBack
  <1>10. Place(ag', jr, ctl', mgr')
    <2>1. CASE ag' = Idle
      BY <1>9, <2>1, AgentGoes, PlaceIdle
    <2>2. CASE r.ok /\ ctl' = r.ctl /\ ag' = [ag EXCEPT !.pc = "rRevoke", !.act = act2]
      <3>1. ag \in Agents
        BY Standing
      <3>2. ag' \in Agents /\ ag'.pc = "rRevoke" /\ ag'.act = act2
        BY <1>7, <1>9, <2>2, <3>1 DEF Agents, Opt
      <3>3. ctl'.pending = None
        BY <1>4, <2>2
      <3> QED BY <1>2, <1>7, <1>9, <3>2, <3>3, PlaceTakingBack
    <2> QED BY <1>1, <2>1, <2>2
  <1>11. Continues(jr, jr')
    BY <1>1, <1>2, ContinuesItself
  <1> QED BY <1>1, <1>2, <1>8, <1>10, <1>11, QuietMove

LEMMA RecoverRevokeOK ==
  ASSUME Inv, RecoverRevoke
  PROVE  Inv'
PROOF
  <1> DEFINE f == IF jr.owner \in {Settled.owner, Settled.cand}
                  THEN NetdRevoke(jr.owner) ELSE Settled
  <1>1. /\ ag.pc = "rRevoke" /\ ag.pc \in TakingBack
        /\ UNCHANGED <<guard, lapsed, mgr, ctl, orec, serial, jr>>
        /\ fw' = fw \/ (fw' = f /\ f # None)
        /\ ag' \in {Go("rRetire"), Idle}
    BY DEF RecoverRevoke, AskNetd, NetdOnly, Keep, Same, TakingBack
  <1>2. /\ jr # None /\ ag.act # None
        /\ jr.co = None \/ jr.phase = "committed_owner_isolated"
        /\ jr.phase \notin MbbPhases \cup {"committed"} /\ ~jr.res
    BY <1>1, TakingBackPlace
  <1>3. ctl.pending = None
    BY <1>1, Standing DEF Place
  <1>4. f # None => Forwarded(f, mgr)
    BY <1>2, Standing, SettledForwarded, NetdAnswers
  <1> HIDE DEF f
  <1>5. {"idle", "rRetire"} \subseteq Pcs /\ "rRetire" \in TakingBack
    BY DEF Pcs, TakingBack
  <1>6. Place(ag', jr', ctl, mgr)
    <2>1. CASE ag' = Idle
      BY <1>5, <2>1, AgentGoes, PlaceIdle
    <2>2. CASE ag' = Go("rRetire")
      <3>1. ag' \in Agents /\ ag'.pc = "rRetire" /\ ag'.act = ag.act
        BY <1>5, <2>2, AgentGoes
      <3> QED BY <1>1, <1>2, <1>3, <1>5, <3>1, PlaceTakingBack
    <2> QED BY <1>1, <2>1, <2>2
  <1>7. Continues(jr, jr')
    BY <1>1, <1>2, ContinuesItself
  <1> QED BY <1>1, <1>2, <1>4, <1>6, <1>7, NetdMove

\* The journal goes when nothing of its transaction is left in the port.
LEMMA RecoverRetireOK ==
  ASSUME Inv, RecoverRetire
  PROVE  Inv'
PROOF
  <1>1. /\ ag.pc = "rRetire" /\ ag.pc \in TakingBack
        /\ UNCHANGED <<guard, lapsed, mgr, ctl, fw, orec, serial>>
        /\ jr' = None /\ ag' = Go("fresh")
    BY DEF RecoverRetire, Local, Keep, TakingBack
  <1>2. /\ jr # None /\ ag.act # None
        /\ jr.co = None \/ jr.phase = "committed_owner_isolated"
    BY <1>1, TakingBackPlace
  <1>3. ctl.pending = None
    BY <1>1, Standing DEF Place
  <1>4. ctl.cand = None
    <2>1. ctl.cand \in Opt(Preparations) /\ (ctl.cand # None => ctl.pending = ctl.cand.env)
      BY DEF Inv, Port, Held, Controllers
    <2>2. ctl.cand # None => ctl.cand.env \in Envelopes
      BY <2>1 DEF Opt, Preparations
    <2> QED BY <1>3, <2>1, <2>2, NoneAssumption
  <1>5. Filed(jr, orec, ctl, mgr, serial)
    BY DEF Inv
  <1>6. Intended(None, orec, mgr)
    BY <1>2, <1>5 DEF Filed, Intended
  <1>7. Filed(None, orec, ctl, mgr, serial)
    BY <1>3, <1>4, <1>5, <1>6 DEF Filed, Unique
  <1>8. "fresh" \in Pcs
    BY DEF Pcs
  <1>9. ag' \in Agents /\ ag'.pc = "fresh" /\ ag'.act = ag.act
    BY <1>1, <1>8, AgentGoes
  <1>10. Place(ag', None, ctl, mgr)
    BY <1>2, <1>3, <1>9 DEF Place, Journaled, Unstarted, Attaching, Undoing, Completing,
       TakingBack, Reserving, Replacing, Finishing
  <1>11. Sound(None)
    BY DEF Sound
  <1> QED BY <1>1, <1>7, <1>10, <1>11 DEF Inv

-----------------------------------------------------------------------------
(* run_mbb_transaction                                                     *)

LEMMA PcSets ==
  /\ Replacing \subseteq Pcs /\ Reserving \subseteq Pcs /\ Finishing \subseteq Pcs
  /\ {"idle", "serve", "close"} \subseteq Pcs
PROOF
  BY DEF Pcs

LEMMA AtReplacing ==
  ASSUME Inv, ag.pc \in Replacing
  PROVE  /\ jr # None /\ jr.env # None /\ jr.phase \in MbbPhases /\ jr \in Journals
         /\ jr.co # None /\ jr.co \in Candidates /\ jr.res
PROOF
  <1>1. jr # None /\ jr.env # None /\ jr.phase \in MbbPhases /\ jr \in Journals
    BY Standing DEF Journaled, Replacing
  <1>2. jr.co # None /\ jr.res
    BY <1>1, Standing DEF Sound
  <1> QED BY <1>1, <1>2 DEF Journals, Opt

LEMMA PlaceReplacing ==
  ASSUME NEW a \in Agents, NEW j, NEW c, NEW m, j # None, j.env # None,
         j.phase \in MbbPhases, a.pc \in {"idle"} \cup (Replacing \ {"mStopOld"})
  PROVE  Place(a, j, c, m)
PROOF
  BY PlaceIdle, PlacePlain

\* Every step of the transaction ends with one of these two.
LEMMA MbbMove ==
  ASSUME Inv, UNCHANGED <<guard, lapsed, fw, serial, orec>>,
         Port(ctl', mgr'), Moves(mgr, mgr'), Sound(jr'),
         Filed(jr', orec, ctl', mgr', serial),
         jr' # None, jr'.env # None, jr'.phase \in MbbPhases,
         ag' \in Agents, ag'.pc \in {"idle"} \cup (Replacing \ {"mStopOld"})
  PROVE  Inv'
PROOF
  <1>1. Place(ag', jr', ctl', mgr')
    BY PlaceReplacing
  <1>2. orec' \in Int
    BY DEF Inv
  <1> QED BY <1>1, <1>2, PortStep

LEMMA MbbQuiet ==
  ASSUME Inv, ag.pc \in Replacing, UNCHANGED <<guard, lapsed, fw, serial, orec>>,
         Keeps(ctl, mgr, ctl', mgr'), Continues(jr, jr'), jr'.phase \in MbbPhases,
         ag' \in Agents, ag'.pc \in {"idle"} \cup (Replacing \ {"mStopOld"})
  PROVE  Inv'
PROOF
  <1>1. jr # None /\ jr'.env # None /\ jr' # None
    BY AtReplacing DEF Continues
  <1>2. Place(ag', jr', ctl', mgr')
    BY <1>1, PlaceReplacing
  <1> QED BY <1>1, <1>2, QuietMove

LEMMA CandidateFlags ==
  ASSUME NEW co \in Candidates
  PROVE  /\ [co EXCEPT !.intent = TRUE] \in Candidates /\ [co EXCEPT !.intent = TRUE].intent
         /\ [co EXCEPT !.cancelled = TRUE] \in Candidates
         /\ [co EXCEPT !.cancelled = TRUE].intent = co.intent
         /\ [co EXCEPT !.failure = TRUE] \in Candidates
         /\ [co EXCEPT !.failure = TRUE].intent = co.intent
         /\ [co EXCEPT !.isolated = TRUE] \in Candidates
         /\ [co EXCEPT !.isolated = TRUE].intent = co.intent
         /\ [co EXCEPT !.retired = TRUE] \in Candidates
         /\ [co EXCEPT !.retired = TRUE].intent = co.intent
PROOF
  BY DEF Candidates

\* The journal with a new phase and another state of its owner candidate.
LEMMA MbbJournal ==
  ASSUME Inv, ag.pc \in Replacing, NEW k \in Journals, k.phase \in MbbPhases,
         k.co \in Candidates, jr.co.intent => k.co.intent,
         k.tx = jr.tx, k.env = jr.env, k.owner = jr.owner, k.res = jr.res
  PROVE  Continues(jr, k)
PROOF
  <1>1. jr # None /\ jr.phase \in MbbPhases /\ jr.co # None /\ jr.res
    BY AtReplacing
  <1>2. k.co # None
    BY NoneRenewalAssumption
  <1> QED BY <1>1, <1>2, MbbContinues

LEMMA MbbEnterOK ==
  ASSUME Inv, MbbEnter
  PROVE  Inv'
PROOF
  <1> DEFINE r == ProbeTransaction(Now, jr.tx)
             intent == jr.co # None /\ jr.co.intent
  <1>1. /\ ag.pc = "mbb" /\ UNCHANGED <<guard, lapsed, fw, orec, serial, jr>>
        /\ (mgr' = r.mgr /\ ctl' = r.ctl) \/ UNCHANGED <<mgr, ctl>>
        /\ \/ intent /\ ag' \in {Go("mExpired"), Go("mLook"), Go("mIsolate"), Go("mFinal"),
                                 Go("mRetire"), Idle}
           \/ ~intent /\ ~jr.res /\ ag' = Go("mReserve")
           \/ ~intent /\ jr.res /\ jr.env = None /\ ag' = Go("mSpawn")
           \/ ~intent /\ jr.res /\ jr.env # None /\ ag' = Go("mLook")
    BY DEF MbbEnter, Ask, PortOnly, Keep, Same
  <1>2. /\ jr # None /\ jr.phase \in MbbPhases
        /\ intent => jr.env # None
        /\ ~jr.res => jr.env = None
    BY <1>1, Standing DEF Journaled, Sound
  <1>3. Keeps(Now, mgr, r.ctl, r.mgr)
    BY NowKnown, ProbeQuiet, Itself
  <1> HIDE DEF r, intent
  <1>4. Keeps(ctl, mgr, ctl', mgr')
    BY <1>1, <1>3, QuietAsk
  <1>5. /\ {"mExpired", "mLook", "mIsolate", "mFinal", "mRetire"} \subseteq Replacing \ {"mStopOld"}
        /\ {"mReserve", "mSpawn"} \subseteq Reserving
    BY DEF Replacing, Reserving
  <1>6. CASE jr.env # None /\ \/ ag' = Idle
                              \/ \E pc \in Replacing \ {"mStopOld"} : ag' = Go(pc)
    <2>1. ag' \in Agents /\ ag'.pc \in {"idle"} \cup (Replacing \ {"mStopOld"})
      BY <1>6, PcSets, AgentGoes
    <2>2. Place(ag', jr', ctl', mgr')
      BY <1>1, <1>2, <1>6, <2>1, PlaceReplacing
    <2> QED BY <1>1, <1>2, <1>4, <2>2, ContinuesItself, QuietMove
  <1>7. CASE ag' = Go("mReserve") /\ ~jr.res
    <2>1. ag' \in Agents /\ ag'.pc = "mReserve"
      BY <1>5, <1>7, PcSets, AgentGoes
    <2>2. Place(ag', jr', ctl', mgr')
      BY <1>1, <1>2, <1>5, <1>7, <2>1, PlacePlain
    <2> QED BY <1>1, <1>2, <1>4, <2>2, ContinuesItself, QuietMove
  <1>8. CASE ag' = Go("mSpawn") /\ jr.res /\ jr.env = None
    <2>1. ag' \in Agents /\ ag'.pc = "mSpawn"
      BY <1>5, <1>8, PcSets, AgentGoes
    <2>2. Place(ag', jr', ctl', mgr')
      BY <1>1, <1>2, <1>5, <1>8, <2>1, PlacePlain
    <2> QED BY <1>1, <1>2, <1>4, <2>2, ContinuesItself, QuietMove
  <1> QED BY <1>1, <1>2, <1>5, <1>6, <1>7, <1>8

LEMMA MbbExpiredOK ==
  ASSUME Inv, MbbExpired
  PROVE  Inv'
PROOF
  <1> DEFINE r == RetireExpiredCommit(Now, Env, jr.co.exp)
             k == [Phase("mbb_peer_reconciliation_pending") EXCEPT
                     !.co.retired = TRUE, !.outcome = "local_expired"]
             y == [r EXCEPT !.ok = @ /\ Observe(r.ctl, r.mgr) = "expired"
                                     /\ r.ctl.owned /\ r.ctl.binding = jr.co.exp]
  <1>1. /\ ag.pc = "mExpired" /\ UNCHANGED <<guard, lapsed, fw, orec, serial>>
        /\ (mgr' = y.mgr /\ ctl' = y.ctl) \/ UNCHANGED <<mgr, ctl>>
        /\ jr' \in {k, jr} /\ ag' = Idle
    <2>1. Ask(y, jr' = k /\ ag' = Idle, Fail) /\ PortOnly /\ ag.pc = "mExpired"
      BY DEF MbbExpired
    <2> HIDE DEF y, k
    <2> QED BY <2>1 DEF Ask, PortOnly, Keep, Same, Fail
  <1>2. "mExpired" \in Replacing /\ "mbb_peer_reconciliation_pending" \in MbbPhases
    BY DEF Replacing, MbbPhases
  <1>3. /\ jr # None /\ jr.env # None /\ jr.phase \in MbbPhases /\ jr \in Journals
        /\ jr.co \in Candidates
    BY <1>1, <1>2, AtReplacing
  <1>4. Port(r.ctl, r.mgr) /\ Filed(jr, orec, r.ctl, r.mgr, serial) /\ r.mgr = mgr
    BY <1>3, AskedNow, RetireExpiredFiled
  <1>5. y.ctl = r.ctl /\ y.mgr = r.mgr
    BY DEF RetireExpiredCommit, Refused, Done
  <1> HIDE DEF r, y
  <1>6. Port(ctl', mgr') /\ Filed(jr, orec, ctl', mgr', serial) /\ Moves(mgr, mgr')
    BY <1>1, <1>4, <1>5, StillMoves DEF Inv
  <1>7. Continues(jr, k) /\ k.phase \in MbbPhases
    <2> DEFINE co == [jr.co EXCEPT !.retired = TRUE]
    <2>1. co \in Candidates /\ co.intent = jr.co.intent
      BY <1>3, CandidateFlags
    <2>2. k = [[jr EXCEPT !.phase = "mbb_peer_reconciliation_pending"]
                 EXCEPT !.co = co, !.outcome = "local_expired"]
      BY <1>3 DEF Phase, Journals
    <2> HIDE DEF co, k
    <2>3. /\ k \in Journals /\ k.phase = "mbb_peer_reconciliation_pending" /\ k.co = co
          /\ k.tx = jr.tx /\ k.env = jr.env /\ k.owner = jr.owner /\ k.res = jr.res
      BY <1>2, <1>3, <2>1, <2>2, PhaseSets DEF Journals, Opt
    <2>4. ag.pc \in Replacing
      BY <1>1, <1>2
    <2> QED BY <1>2, <2>1, <2>3, <2>4, MbbJournal
  <1> HIDE DEF k
  <1>8. Continues(jr, jr') /\ jr'.phase \in MbbPhases
    BY <1>1, <1>3, <1>7, ContinuesItself
  <1>9. ag' \in Agents /\ ag'.pc = "idle"
    BY <1>1, PcSets, AgentGoes
  <1> QED BY <1>1, <1>3, <1>6, <1>8, <1>9, MbbMove DEF Continues

LEMMA MbbReserveOK ==
  ASSUME Inv, MbbReserve
  PROVE  Inv'
PROOF
  <1> DEFINE k == [Phase("mbb_reserved") EXCEPT !.res = TRUE]
  <1>1. /\ ag.pc = "mReserve" /\ UNCHANGED <<guard, lapsed, mgr, ctl, fw, orec, serial>>
        /\ (jr' = k /\ ag' = Go("mSpawn")) \/ (jr' = jr /\ ag' = Idle)
    BY DEF MbbReserve, Works, Local, Keep, Fail, Same
  <1>2. jr # None /\ jr.phase \in MbbPhases /\ jr.env = None /\ jr \in Journals
    BY <1>1, Standing DEF Journaled, Reserving
  <1>3. "mbb_reserved" \in MbbPhases /\ "mbb_reserved" \in Phases
    BY DEF MbbPhases, Phases
  <1>4. /\ k \in Journals /\ k.phase = "mbb_reserved" /\ k.tx = jr.tx /\ k.env = jr.env
        /\ k.owner = jr.owner /\ k.co = jr.co /\ k.res
    BY <1>2, <1>3 DEF Phase, Journals
  <1> HIDE DEF k
  <1>5. k # None
    BY <1>4, NoneRenewalAssumption
  <1>6. Continues(jr, k)
    BY <1>2, <1>3, <1>4, MbbContinues
  <1>7. "mSpawn" \in Reserving
    BY DEF Reserving
  <1>8. Place(ag', jr', ctl', mgr') /\ Continues(jr, jr')
    <2>1. CASE jr' = k /\ ag' = Go("mSpawn")
      <3>1. ag' \in Agents /\ ag'.pc = "mSpawn"
        BY <1>7, <2>1, PcSets, AgentGoes
      <3>2. Place(ag', jr', ctl', mgr')
        BY <1>2, <1>3, <1>4, <1>5, <1>7, <2>1, <3>1, PlacePlain
      <3> QED BY <1>6, <2>1, <3>2
    <2>2. CASE jr' = jr /\ ag' = Idle
      BY <1>2, <2>2, PcSets, AgentGoes, PlaceIdle, ContinuesItself
    <2> QED BY <1>1, <2>1, <2>2
  <1>9. Keeps(ctl, mgr, ctl', mgr')
    BY <1>1, Itself DEF Inv
  <1> QED BY <1>1, <1>2, <1>8, <1>9, QuietMove

LEMMA MbbSpawnOK ==
  ASSUME Inv, MbbSpawn
  PROVE  Inv'
PROOF
  <1> DEFINE p == "mbb_peer_reconciliation_pending"
             k == [Phase("mbb_registered") EXCEPT
                     !.env = Envelope, !.co = NewCandidate(ag.binding)]
  <1>1. /\ ag.pc = "mSpawn" /\ UNCHANGED <<guard, lapsed, mgr, ctl, fw, orec, serial>>
        /\ \/ jr' = jr /\ ag' \in {ag, Idle}
           \/ jr' = Phase(p) /\ ag' = Idle
           \/ jr' = k /\ ag' = [At(ag.by, "mStage") EXCEPT !.fd = TRUE]
           \/ jr' = jr /\ ag' = At(ag.by + 1, "idle")
    BY DEF MbbSpawn, Stop, Spawn, Local, Keep, Fail, Same, PeerPending
  <1>2. /\ jr # None /\ jr.phase \in MbbPhases /\ jr.env = None /\ jr \in Journals /\ jr.res
        /\ ag \in Agents /\ Place(ag, jr, ctl, mgr)
    BY <1>1, Standing DEF Journaled, Reserving
  <1>3. {p, "mbb_registered"} \subseteq MbbPhases
    BY DEF MbbPhases
  <1>4. Keeps(ctl, mgr, ctl', mgr')
    BY <1>1, Itself DEF Inv
  <1>5. CASE jr' \in {jr, Phase(p)} /\ ag' = Idle
    <2>1. Continues(jr, jr')
      BY <1>2, <1>3, <1>5, MbbPhase, ContinuesItself
    <2>2. Place(ag', jr', ctl', mgr')
      BY <1>5, PcSets, AgentGoes, PlaceIdle
    <2> QED BY <1>1, <1>2, <1>4, <2>1, <2>2, QuietMove
  <1>6. CASE jr' = jr /\ ag' = ag
    BY <1>1, <1>6 DEF Inv
  <1>7. CASE \/ jr' = k /\ ag' = [At(ag.by, "mStage") EXCEPT !.fd = TRUE]
             \/ jr' = jr /\ ag' = At(ag.by + 1, "idle")
    <2>1. Envelope \in Envelopes /\ Envelope # None
          /\ Envelope.tx = jr.tx /\ Envelope.epoch = jr.owner.epoch
      BY <1>2, SpawnedEnvelope
    <2>2. NewCandidate(ag.binding) \in Candidates
      BY <1>2 DEF NewCandidate, Candidates, Agents
    <2>3. /\ Phase("mbb_registered") \in Journals
          /\ Phase("mbb_registered").phase = "mbb_registered"
          /\ Phase("mbb_registered").owner = jr.owner /\ Phase("mbb_registered").tx = jr.tx
          /\ Phase("mbb_registered").res = jr.res
      BY <1>2, <1>3, MbbPhase
    <2>4. /\ k \in Journals /\ k.phase = "mbb_registered" /\ k.co = NewCandidate(ag.binding)
          /\ k.env = Envelope /\ k.tx = jr.tx /\ k.owner = jr.owner /\ k.res = jr.res
      BY <2>1, <2>2, <2>3 DEF Journals, Opt
    <2> HIDE DEF k
    <2>5. k # None /\ k.co # None
      BY <2>2, <2>4, NoneRenewalAssumption
    <2>6. Sound(k)
      BY <1>2, <1>3, <2>1, <2>4, <2>5, PhaseSets DEF Sound
    <2>7. "mStage" \in Pcs /\ "mStage" \in Replacing \ {"mStopOld"}
      BY PcSets DEF Replacing
    <2>8. \A a \in Agents : a.pc = "mStage" => Place(a, k, ctl, mgr)
      BY <1>3, <2>1, <2>4, <2>5, <2>7, PlaceReplacing
    <2>9. k.phase \notin {"committed", "committed_owner_isolated"}
      BY <2>4
    <2> QED BY <1>1, <1>2, <1>7, <2>4, <2>5, <2>6, <2>7, <2>8, <2>9, SpawnOK
  <1> QED BY <1>1, <1>5, <1>6, <1>7

LEMMA MbbStageOK ==
  ASSUME Inv, MbbStage
  PROVE  Inv'
PROOF
  <1> DEFINE r == StageAuthority(Now, Env)
  <1>1. /\ ag.pc = "mStage" /\ UNCHANGED <<guard, lapsed, fw, orec, serial>>
        /\ (mgr' = r.mgr /\ ctl' = r.ctl) \/ UNCHANGED <<mgr, ctl>>
        /\ \/ jr' = Phase("mbb_prepare_pending") /\ ag' = Go("mPrepare")
           \/ jr' = jr /\ ag' = Idle
    BY DEF MbbStage, Ask, PortOnly, Keep, Same, Fail
  <1>2. /\ "mStage" \in Replacing /\ "mPrepare" \in Replacing \ {"mStopOld"}
        /\ "mbb_prepare_pending" \in MbbPhases
    BY DEF Replacing, MbbPhases
  <1>3. jr # None /\ jr.env # None /\ jr.phase \in MbbPhases
    BY <1>1, <1>2, AtReplacing
  <1>4. Port(r.ctl, r.mgr) /\ Filed(jr, orec, r.ctl, r.mgr, serial) /\ r.mgr = mgr
    BY <1>3, AskedNow, StageFiled
  <1> HIDE DEF r
  <1>5. Port(ctl', mgr') /\ Filed(jr, orec, ctl', mgr', serial) /\ Moves(mgr, mgr')
    BY <1>1, <1>4, StillMoves DEF Inv
  <1>6. Continues(jr, jr') /\ jr'.phase \in MbbPhases
    BY <1>1, <1>2, <1>3, MbbPhase, ContinuesItself
  <1>7. ag' \in Agents /\ ag'.pc \in {"idle", "mPrepare"}
    BY <1>1, <1>2, PcSets, AgentGoes
  <1> QED BY <1>1, <1>2, <1>3, <1>5, <1>6, <1>7, MbbMove DEF Continues

LEMMA MbbPrepareOK ==
  ASSUME Inv, MbbPrepare
  PROVE  Inv'
PROOF
  <1> DEFINE r == PrepareOwner(Now, Env, jr.co.exp)
  <1>1. /\ ag.pc = "mPrepare" /\ UNCHANGED <<guard, lapsed, fw, orec, serial, jr>>
        /\ (mgr' = r.mgr /\ ctl' = r.ctl) \/ UNCHANGED <<mgr, ctl>>
        /\ ag' \in {Go("mLook"), Idle}
    BY DEF MbbPrepare, Ask, PortOnly, Keep, Same
  <1>2. "mPrepare" \in Replacing /\ "mLook" \in Replacing \ {"mStopOld"}
    BY DEF Replacing
  <1>3. /\ jr # None /\ jr.env # None /\ jr.phase \in MbbPhases
        /\ jr.co # None /\ jr.co \in Candidates
    BY <1>1, <1>2, AtReplacing
  <1>4. jr.co.exp \in Int
    BY <1>3 DEF Candidates
  <1>5. Port(r.ctl, r.mgr) /\ Filed(jr, orec, r.ctl, r.mgr, serial) /\ Moves(mgr, r.mgr)
    BY <1>3, <1>4, AskedNow, PrepareFiled
  <1> HIDE DEF r
  <1>6. Port(ctl', mgr') /\ Filed(jr, orec, ctl', mgr', serial) /\ Moves(mgr, mgr')
    BY <1>1, <1>5, StillMoves DEF Inv
  <1>7. ag' \in Agents /\ ag'.pc \in {"idle", "mLook"}
    BY <1>1, <1>2, PcSets, AgentGoes
  <1>8. Sound(jr)
    BY Standing
  <1> QED BY <1>1, <1>2, <1>3, <1>6, <1>7, <1>8, MbbMove

LEMMA ObservedMoves ==
  ASSUME NEW s, NEW c, NEW m, Observed(s, c, m)
  PROVE  /\ jr' \in {jr, Phase("mbb_peer_reconciliation_pending")}
         /\ ag' \in {Idle, Go("mIsolate"), At(ag.by, "mInstall"), At(ag.by, "mConfirm")}
PROOF
  BY DEF Observed, Fail, PeerPending, Same

LEMMA MbbLookOK ==
  ASSUME Inv, MbbLook
  PROVE  Inv'
PROOF
  <1> DEFINE p == "mbb_peer_reconciliation_pending"
             r == ProbeTransaction(Now, jr.tx)
             x == RecoverPrecommit(Now, Env, jr.co.exp)
             k == [Phase(p) EXCEPT !.co.cancelled = TRUE]
  <1>1. ag.pc = "mLook" /\ UNCHANGED <<guard, lapsed, fw, orec, serial>>
    BY DEF MbbLook, PortOnly, Keep
  <1>2. /\ \/ mgr' = r.mgr /\ ctl' = r.ctl
           \/ mgr' = x.mgr /\ ctl' = x.ctl
           \/ UNCHANGED <<mgr, ctl>>
        /\ \/ jr' = jr /\ ag' = Idle
           \/ Observed(Observe(Now, mgr), Now, mgr)
           \/ Observed(Observe(x.ctl, x.mgr), x.ctl, x.mgr)
           \/ jr' = k /\ ag' = Idle
    BY DEF MbbLook, Ask, Fail, Same
  <1>3. /\ jr' \in {jr, Phase(p), k}
        /\ ag' \in {Idle, Go("mIsolate"), At(ag.by, "mInstall"), At(ag.by, "mConfirm")}
    BY <1>2, ObservedMoves
  <1>4. /\ "mLook" \in Replacing /\ p \in MbbPhases
        /\ {"mIsolate", "mInstall", "mConfirm"} \subseteq Replacing \ {"mStopOld"}
    BY DEF Replacing, MbbPhases
  <1>5. /\ jr # None /\ jr.env # None /\ jr.phase \in MbbPhases /\ jr \in Journals
        /\ jr.co \in Candidates
    BY <1>1, <1>4, AtReplacing
  <1>6. Port(x.ctl, x.mgr) /\ Filed(jr, orec, x.ctl, x.mgr, serial) /\ x.mgr = mgr
    BY <1>5, AskedNow, CancelFiled
  <1>7. Port(r.ctl, r.mgr) /\ Filed(jr, orec, r.ctl, r.mgr, serial) /\ r.mgr = mgr
    BY NowKnown, ProbeQuiet
  <1> HIDE DEF r, x
  <1>8. Port(ctl', mgr') /\ Filed(jr, orec, ctl', mgr', serial) /\ Moves(mgr, mgr')
    BY <1>2, <1>6, <1>7, StillMoves DEF Inv
  <1>9. Continues(jr, k) /\ k.phase \in MbbPhases
    <2> DEFINE co == [jr.co EXCEPT !.cancelled = TRUE]
    <2>1. co \in Candidates /\ co.intent = jr.co.intent
      BY <1>5, CandidateFlags
    <2>2. k = [[jr EXCEPT !.phase = p] EXCEPT !.co = co]
      BY <1>5 DEF Phase, Journals
    <2> HIDE DEF co, k
    <2>3. /\ k \in Journals /\ k.phase = p /\ k.co = co
          /\ k.tx = jr.tx /\ k.env = jr.env /\ k.owner = jr.owner /\ k.res = jr.res
      BY <1>4, <1>5, <2>1, <2>2, PhaseSets DEF Journals, Opt
    <2>4. ag.pc \in Replacing
      BY <1>1, <1>4
    <2> QED BY <1>4, <2>1, <2>3, <2>4, MbbJournal
  <1> HIDE DEF k
  <1>10. Continues(jr, jr') /\ jr'.phase \in MbbPhases
    BY <1>3, <1>4, <1>5, <1>9, MbbPhase, ContinuesItself
  <1>11. ag' \in Agents /\ ag'.pc \in {"idle", "mIsolate", "mInstall", "mConfirm"}
    <2>1. ag.by \in Int
      BY Standing DEF Agents
    <2>2. CASE ag' = Idle
      BY <2>2, PcSets, AgentGoes
    <2>3. CASE ag' = Go("mIsolate")
      BY <1>4, <2>3, PcSets, AgentGoes
    <2>4. CASE ag' = At(ag.by, "mInstall")
      BY <1>4, <2>1, <2>4, PcSets, AtType
    <2>5. CASE ag' = At(ag.by, "mConfirm")
      BY <1>4, <2>1, <2>5, PcSets, AtType
    <2> QED BY <1>3, <2>2, <2>3, <2>4, <2>5
  <1> QED BY <1>1, <1>4, <1>5, <1>8, <1>10, <1>11, MbbMove DEF Continues

LEMMA MbbInstallOK ==
  ASSUME Inv, MbbInstall
  PROVE  Inv'
PROOF
  <1> DEFINE p == "mbb_peer_install_pending"
  <1>1. /\ ag.pc = "mInstall" /\ UNCHANGED <<guard, lapsed, mgr, ctl, fw, orec, serial>>
        /\ jr' = Phase(p) /\ ag' \in {Go("mCommit"), Idle}
    BY DEF MbbInstall, Works, Local, Keep
  <1>2. /\ "mInstall" \in Replacing /\ "mCommit" \in Replacing \ {"mStopOld"}
        /\ p \in MbbPhases
    BY DEF Replacing, MbbPhases
  <1>3. jr # None /\ jr.phase \in MbbPhases /\ ag.pc \in Replacing
    BY <1>1, <1>2, AtReplacing
  <1>4. Continues(jr, jr') /\ jr'.phase \in MbbPhases
    BY <1>1, <1>2, <1>3, MbbPhase
  <1>5. Keeps(ctl, mgr, ctl', mgr')
    BY <1>1, Itself DEF Inv
  <1>6. ag' \in Agents /\ ag'.pc \in {"idle", "mCommit"}
    BY <1>1, <1>2, PcSets, AgentGoes
  <1> QED BY <1>1, <1>2, <1>3, <1>4, <1>5, <1>6, MbbQuiet

\* The intent is on disk before the port is asked, so whatever the port
\* answers, and whether the answer arrives, the disk names the new owner.
LEMMA MbbCommitOK ==
  ASSUME Inv, MbbCommit
  PROVE  Inv'
PROOF
  <1> DEFINE r == CommitOwner(Now, Env)
             k == [Phase("mbb_commit_pending") EXCEPT !.co.intent = TRUE]
  <1>1. /\ ag.pc = "mCommit" /\ UNCHANGED <<guard, lapsed, fw, orec, serial>>
        /\ (mgr' = r.mgr /\ ctl' = r.ctl) \/ UNCHANGED <<mgr, ctl>>
        /\ jr' = k /\ ag' = Go("mConfirm")
    BY DEF MbbCommit, Ask, PortOnly, Keep
  <1>2. /\ "mCommit" \in Replacing /\ "mConfirm" \in Replacing \ {"mStopOld"}
        /\ "mbb_commit_pending" \in MbbPhases
    BY DEF Replacing, MbbPhases
  <1>3. /\ jr # None /\ jr.env # None /\ jr.phase \in MbbPhases /\ jr \in Journals
        /\ jr.co \in Candidates /\ ag.pc \in Replacing
    BY <1>1, <1>2, AtReplacing
  <1>4. Continues(jr, k) /\ k.phase = "mbb_commit_pending" /\ k.co.intent /\ k.co # None
    <2> DEFINE co == [jr.co EXCEPT !.intent = TRUE]
    <2>1. co \in Candidates /\ co.intent
      BY <1>3, CandidateFlags
    <2>2. k = [[jr EXCEPT !.phase = "mbb_commit_pending"] EXCEPT !.co = co]
      BY <1>3 DEF Phase, Journals
    <2> HIDE DEF co, k
    <2>3. /\ k \in Journals /\ k.phase = "mbb_commit_pending" /\ k.co = co
          /\ k.tx = jr.tx /\ k.env = jr.env /\ k.owner = jr.owner /\ k.res = jr.res
      BY <1>2, <1>3, <2>1, <2>2, PhaseSets DEF Journals, Opt
    <2>4. co # None
      BY <2>1, NoneRenewalAssumption
    <2> QED BY <1>2, <1>3, <2>1, <2>3, <2>4, MbbJournal
  <1> HIDE DEF k
  <1>5. Asked(k, orec, Now, mgr, serial, Env)
    <2>1. Asked(jr, orec, Now, mgr, serial, Env) /\ Env = jr.env
      BY <1>3, AskedNow
    <2> QED BY <1>4, <2>1 DEF Asked, Continues
  <1>6. k.phase # "committed_owner_isolated"
    BY <1>4
  <1>7. Port(r.ctl, r.mgr) /\ Filed(k, orec, r.ctl, r.mgr, serial) /\ Moves(mgr, r.mgr)
    BY <1>4, <1>5, <1>6, CommitFiled
  <1> HIDE DEF r
  <1>8. Port(ctl', mgr') /\ Filed(k, orec, ctl', mgr', serial) /\ Moves(mgr, mgr')
    BY <1>1, <1>4, <1>7, StillMoves DEF Inv, Continues
  <1>9. ag' \in Agents /\ ag'.pc = "mConfirm"
    BY <1>1, <1>2, PcSets, AgentGoes
  <1> QED BY <1>1, <1>2, <1>3, <1>4, <1>8, <1>9, MbbMove DEF Continues

LEMMA MbbConfirmOK ==
  ASSUME Inv, MbbConfirm
  PROVE  Inv'
PROOF
  <1> DEFINE r == ProbeTransaction(Now, jr.tx)
             p == "mbb_outbound_committed"
  <1>1. /\ ag.pc = "mConfirm" /\ UNCHANGED <<guard, lapsed, fw, orec, serial>>
        /\ (mgr' = r.mgr /\ ctl' = r.ctl) \/ UNCHANGED <<mgr, ctl>>
        /\ jr' \in {jr, Phase(p)}
        /\ ag' \in {Idle, Go("mFinal"), Go("mRetire"), Go("mDrain")}
    BY DEF MbbConfirm, Ask, PortOnly, Keep, Same, Fail
  <1>2. /\ {"mFinal", "mRetire", "mDrain"} \subseteq Replacing \ {"mStopOld"}
        /\ "mConfirm" \in Replacing /\ p \in MbbPhases
    BY DEF Replacing, MbbPhases
  <1>3. jr # None /\ jr.phase \in MbbPhases /\ ag.pc \in Replacing
    BY <1>1, <1>2, AtReplacing
  <1>4. Keeps(Now, mgr, r.ctl, r.mgr)
    BY NowKnown, ProbeQuiet, Itself
  <1> HIDE DEF r
  <1>5. Keeps(ctl, mgr, ctl', mgr')
    BY <1>1, <1>4, QuietAsk
  <1>6. Continues(jr, jr') /\ jr'.phase \in MbbPhases
    BY <1>1, <1>2, <1>3, MbbPhase, ContinuesItself
  <1>7. ag' \in Agents /\ ag'.pc \in {"idle", "mFinal", "mRetire", "mDrain"}
    BY <1>1, <1>2, PcSets, AgentGoes
  <1> QED BY <1>1, <1>2, <1>3, <1>5, <1>6, <1>7, MbbQuiet

LEMMA MbbDrainOK ==
  ASSUME Inv, MbbDrain
  PROVE  Inv'
PROOF
  <1> DEFINE p == "mbb_bilateral_drained"
  <1>1. /\ ag.pc = "mDrain" /\ UNCHANGED <<guard, lapsed, mgr, ctl, fw, orec, serial>>
        /\ jr' \in {jr, Phase(p)} /\ ag' \in {Go("mRetire"), Go("mFinish"), Idle}
    BY DEF MbbDrain, Works, Local, Keep, Same, Fail
  <1>2. /\ "mDrain" \in Replacing /\ {"mRetire", "mFinish"} \subseteq Replacing \ {"mStopOld"}
        /\ p \in MbbPhases
    BY DEF Replacing, MbbPhases
  <1>3. jr # None /\ jr.phase \in MbbPhases /\ ag.pc \in Replacing
    BY <1>1, <1>2, AtReplacing
  <1>4. Continues(jr, jr') /\ jr'.phase \in MbbPhases
    BY <1>1, <1>2, <1>3, MbbPhase, ContinuesItself
  <1>5. Keeps(ctl, mgr, ctl', mgr')
    BY <1>1, Itself DEF Inv
  <1>6. ag' \in Agents /\ ag'.pc \in {"idle", "mRetire", "mFinish"}
    BY <1>1, <1>2, PcSets, AgentGoes
  <1> QED BY <1>1, <1>2, <1>3, <1>4, <1>5, <1>6, MbbQuiet

LEMMA MbbFinishOK ==
  ASSUME Inv, MbbFinish
  PROVE  Inv'
PROOF
  <1> DEFINE r(empty) == FinishOwnerDrain(Now, Env, empty)
  <1>1. /\ ag.pc = "mFinish" /\ UNCHANGED <<guard, lapsed, fw, orec, serial, jr>>
        /\ \E empty \in BOOLEAN :
              (mgr' = r(empty).mgr /\ ctl' = r(empty).ctl) \/ UNCHANGED <<mgr, ctl>>
        /\ ag' \in {Go("mFinal"), Go("mRetire"), ag, Idle}
    BY DEF MbbFinish, Ask, PortOnly, Keep, Same
  <1>2. /\ {"mFinal", "mRetire"} \subseteq Replacing \ {"mStopOld"}
        /\ "mFinish" \in Replacing \ {"mStopOld"}
    BY DEF Replacing
  <1>3. jr # None /\ jr.phase \in MbbPhases /\ ag.pc \in Replacing
    BY <1>1, <1>2, AtReplacing
  <1>4. \A empty : Keeps(Now, mgr, r(empty).ctl, r(empty).mgr)
    BY NowKnown, FinishQuiet
  <1> HIDE DEF r
  <1>5. Keeps(ctl, mgr, ctl', mgr')
    <2>1. PICK empty \in BOOLEAN :
            (mgr' = r(empty).mgr /\ ctl' = r(empty).ctl) \/ UNCHANGED <<mgr, ctl>>
      BY <1>1
    <2> QED BY <1>4, <2>1, QuietAsk
  <1>6. ag' \in Agents /\ ag'.pc \in {"idle", "mFinal", "mRetire", "mFinish"}
    BY <1>1, <1>2, PcSets, AgentGoes, Standing
  <1>7. Continues(jr, jr') /\ jr'.phase \in MbbPhases
    BY <1>1, <1>3, ContinuesItself
  <1> QED BY <1>1, <1>2, <1>3, <1>5, <1>6, <1>7, MbbQuiet

LEMMA MbbRetireFailedOK ==
  ASSUME Inv, MbbRetireFailed
  PROVE  Inv'
PROOF
  <1> DEFINE r == RetireOwnerAfterFailure(Now, Env)
             x == [r EXCEPT !.ok = @ /\ FailedRetirement(r.ctl, r.mgr)]
             k == [Phase("mbb_failed_retirement_pending") EXCEPT !.fret = TRUE]
             h == [k EXCEPT !.phase = "mbb_failed_drain_preserved"]
  <1>1. /\ ag.pc = "mRetire" /\ UNCHANGED <<guard, lapsed, fw, orec, serial>>
        /\ (mgr' = x.mgr /\ ctl' = x.ctl) \/ UNCHANGED <<mgr, ctl>>
        /\ jr' \in {jr, k, h}
        /\ ag' \in {Idle, [ag EXCEPT !.pc = "mFinal", !.failed = TRUE]}
    BY DEF MbbRetireFailed, Ask, PortOnly, Keep, Same, Fail
  <1>2. /\ "mRetire" \in Replacing /\ "mFinal" \in Replacing \ {"mStopOld"}
        /\ {"mbb_failed_retirement_pending", "mbb_failed_drain_preserved"} \subseteq MbbPhases
    BY DEF Replacing, MbbPhases
  <1>3. /\ jr # None /\ jr.phase \in MbbPhases /\ jr \in Journals
        /\ jr.co \in Candidates /\ ag.pc \in Replacing
    BY <1>1, <1>2, AtReplacing
  <1>4. Keeps(Now, mgr, r.ctl, r.mgr)
    BY NowKnown, RetireQuiet
  <1>5. x.ctl = r.ctl /\ x.mgr = r.mgr
    BY DEF RetireOwnerAfterFailure, OwnerChange, Applied, Refused, Done
  <1> HIDE DEF r, x
  <1>6. Keeps(ctl, mgr, ctl', mgr')
    BY <1>1, <1>4, <1>5, QuietAsk
  <1>7. /\ k \in Journals /\ k.phase \in MbbPhases /\ k.co = jr.co
        /\ k.tx = jr.tx /\ k.env = jr.env /\ k.owner = jr.owner /\ k.res = jr.res
    BY <1>2, <1>3, PhaseSets DEF Phase, Journals
  <1>8. /\ h \in Journals /\ h.phase \in MbbPhases /\ h.co = jr.co
        /\ h.tx = jr.tx /\ h.env = jr.env /\ h.owner = jr.owner /\ h.res = jr.res
    <2> HIDE DEF k
    <2> QED BY <1>2, <1>7, PhaseSets DEF Journals
  <1> HIDE DEF k, h
  <1>9. Continues(jr, jr') /\ jr'.phase \in MbbPhases
    BY <1>1, <1>3, <1>7, <1>8, MbbJournal, ContinuesItself
  <1>10. ag' \in Agents /\ ag'.pc \in {"idle", "mFinal"}
    <2>1. CASE ag' = Idle
      BY <2>1, PcSets, AgentGoes
    <2>2. CASE ag' = [ag EXCEPT !.pc = "mFinal", !.failed = TRUE]
      BY <1>2, <2>2, PcSets, Standing DEF Agents
    <2> QED BY <1>1, <2>1, <2>2
  <1> QED BY <1>1, <1>2, <1>3, <1>6, <1>9, <1>10, MbbQuiet

LEMMA MbbIsolateOK ==
  ASSUME Inv, MbbIsolate
  PROVE  Inv'
PROOF
  <1> DEFINE p == "mbb_committed_isolating"
             k == [Phase(p) EXCEPT !.co.failure = TRUE]
  <1>1. /\ ag.pc = "mIsolate" /\ UNCHANGED <<guard, lapsed, mgr, ctl, fw, orec, serial>>
        /\ jr' = k /\ ag' \in {Go("mFence"), Idle}
    BY DEF MbbIsolate, Stop, Local, Keep
  <1>2. "mIsolate" \in Replacing /\ "mFence" \in Replacing \ {"mStopOld"} /\ p \in MbbPhases
    BY DEF Replacing, MbbPhases
  <1>3. jr \in Journals /\ jr.co \in Candidates /\ ag.pc \in Replacing
    BY <1>1, <1>2, AtReplacing
  <1>4. Continues(jr, k) /\ k.phase \in MbbPhases
    <2> DEFINE co == [jr.co EXCEPT !.failure = TRUE]
    <2>1. co \in Candidates /\ co.intent = jr.co.intent
      BY <1>3, CandidateFlags
    <2>2. k = [[jr EXCEPT !.phase = p] EXCEPT !.co = co]
      BY <1>3 DEF Phase, Journals
    <2> HIDE DEF co, k
    <2>3. /\ k \in Journals /\ k.phase = p /\ k.co = co
          /\ k.tx = jr.tx /\ k.env = jr.env /\ k.owner = jr.owner /\ k.res = jr.res
      BY <1>2, <1>3, <2>1, <2>2, PhaseSets DEF Journals, Opt
    <2> QED BY <1>2, <1>3, <2>1, <2>3, MbbJournal
  <1> HIDE DEF k
  <1>5. Keeps(ctl, mgr, ctl', mgr')
    BY <1>1, Itself DEF Inv
  <1>6. ag' \in Agents /\ ag'.pc \in {"idle", "mFence"}
    BY <1>1, <1>2, PcSets, AgentGoes
  <1> QED BY <1>1, <1>2, <1>3, <1>4, <1>5, <1>6, MbbQuiet

\* The predecessor may be stopped only when the port has no owner left.
LEMMA MbbFenceOK ==
  ASSUME Inv, MbbFence
  PROVE  Inv'
PROOF
  <1> DEFINE r == IsolateCommittedOwner(Now, Env, jr.co.exp)
             x == [r EXCEPT !.ok = @ /\ r.ctl.isolated = Env /\ ~r.ctl.owned]
             k == [jr EXCEPT !.co.isolated = TRUE]
  <1>1. /\ ag.pc = "mFence" /\ UNCHANGED <<guard, lapsed, fw, orec, serial>>
        /\ (mgr' = x.mgr /\ ctl' = x.ctl) \/ UNCHANGED <<mgr, ctl>>
        /\ \/ jr' = k /\ ag' = Go("mStopOld") /\ x.ok /\ mgr' = x.mgr
           \/ jr' = jr /\ ag' = Idle
    BY DEF MbbFence, Ask, PortOnly, Keep, Same, Fail
  <1>2. "mFence" \in Replacing /\ "mStopOld" \in Replacing
    BY DEF Replacing
  <1>3. /\ jr # None /\ jr.env # None /\ jr.phase \in MbbPhases /\ jr \in Journals
        /\ jr.co \in Candidates /\ ag.pc \in Replacing
    BY <1>1, <1>2, AtReplacing
  <1>4. Keeps(Now, mgr, r.ctl, r.mgr) /\ Reconciled(r.ctl, r.mgr)
    BY <1>3, AskedNow, NowKnown, IsolateQuiet
  <1>5. x.ctl = r.ctl /\ x.mgr = r.mgr /\ (x.ok => ~r.ctl.owned)
    BY DEF IsolateCommittedOwner, Applied, Refused, Done
  <1> HIDE DEF r, x
  <1>6. Keeps(ctl, mgr, ctl', mgr')
    BY <1>1, <1>4, <1>5, QuietAsk
  <1>7. Continues(jr, k) /\ k.phase = jr.phase /\ k.env = jr.env
    <2> DEFINE co == [jr.co EXCEPT !.isolated = TRUE]
    <2>1. co \in Candidates /\ co.intent = jr.co.intent
      BY <1>3, CandidateFlags
    <2>2. k = [jr EXCEPT !.co = co]
      OBVIOUS
    <2> HIDE DEF co, k
    <2>3. /\ k \in Journals /\ k.phase = jr.phase /\ k.co = co
          /\ k.tx = jr.tx /\ k.env = jr.env /\ k.owner = jr.owner /\ k.res = jr.res
      BY <1>3, <2>1, <2>2 DEF Journals, Opt
    <2> QED BY <1>3, <2>1, <2>3, MbbJournal
  <1> HIDE DEF k
  <1>8. Place(ag', jr', ctl', mgr') /\ Continues(jr, jr')
    <2>1. CASE jr' = jr /\ ag' = Idle
      BY <1>3, <2>1, PcSets, AgentGoes, PlaceIdle, ContinuesItself
    <2>2. CASE jr' = k /\ ag' = Go("mStopOld") /\ x.ok /\ mgr' = x.mgr
      <3>1. ag' \in Agents /\ ag'.pc = "mStopOld"
        BY <1>2, <2>2, PcSets, AgentGoes
      <3>2. mgr'.owner = None
        BY <1>4, <1>5, <2>2 DEF Reconciled
      <3>3. jr' # None /\ jr'.env # None /\ jr'.phase \in MbbPhases
        BY <1>3, <1>7, <2>2 DEF Continues
      <3>4. Place(ag', jr', ctl', mgr')
        BY <3>1, <3>2, <3>3 DEF Place, Journaled, Unstarted, Attaching, Undoing,
           Completing, TakingBack, Reserving, Replacing, Finishing
      <3> QED BY <1>7, <2>2, <3>4
    <2> QED BY <1>1, <2>1, <2>2
  <1> QED BY <1>1, <1>3, <1>6, <1>8, QuietMove

LEMMA MbbStopOldOK ==
  ASSUME Inv, MbbStopOld
  PROVE  Inv'
PROOF
  <1> DEFINE k == [Phase("committed_owner_isolated") EXCEPT !.res = FALSE]
  <1>1. /\ ag.pc = "mStopOld" /\ UNCHANGED <<guard, lapsed, mgr, ctl, fw, orec, serial>>
        /\ jr' \in {jr, k} /\ ag' = Idle
    BY DEF MbbStopOld, Stop, Local, Keep, Same
  <1>2. "mStopOld" \in Replacing /\ "committed_owner_isolated" \in Phases
    BY DEF Replacing, Phases
  <1>3. /\ jr # None /\ jr.env # None /\ jr \in Journals /\ jr.co # None
        /\ mgr.owner = None
    BY <1>1, <1>2, AtReplacing, Standing DEF Place
  <1>4. /\ k \in Journals /\ k.phase = "committed_owner_isolated" /\ ~k.res /\ k.co = jr.co
        /\ k.tx = jr.tx /\ k.env = jr.env /\ k.owner = jr.owner
    BY <1>2, <1>3 DEF Phase, Journals
  <1> HIDE DEF k
  <1>5. k # None
    BY <1>4, NoneRenewalAssumption
  <1>6. Sound(k)
    BY <1>3, <1>4, Standing, PhaseSets DEF Sound
  <1>7. Filed(k, orec, ctl, mgr, serial)
    <2>1. k.phase # "committed"
      BY <1>4
    <2>2. Filed(jr, orec, ctl, mgr, serial)
      BY DEF Inv
    <2> QED BY <1>3, <1>4, <1>5, <2>1, <2>2, FiledJournal
  <1>8. Place(ag', jr', ctl, mgr)
    BY <1>1, PcSets, AgentGoes, PlaceIdle
  <1>9. Sound(jr') /\ Filed(jr', orec, ctl, mgr, serial)
    BY <1>1, <1>6, <1>7 DEF Inv
  <1> QED BY <1>1, <1>8, <1>9 DEF Inv

-----------------------------------------------------------------------------
(* mbb_finalize, commit_authorized, finish_records                         *)

LEMMA RepairedOwner ==
  ASSUME NEW f, NEW o \in ForwardOwners, RepairExpiredLease(f, o) # None
  PROVE  RepairExpiredLease(f, o) \in ForwardOwners /\ RepairExpiredLease(f, o).epoch = o.epoch
PROOF
  <1>1. [o EXCEPT !.fence = @ + 1] \in ForwardOwners /\ [o EXCEPT !.fence = @ + 1].epoch = o.epoch
    BY DEF ForwardOwners
  <1> QED BY <1>1 DEF RepairExpiredLease

LEMMA AtFinishing ==
  ASSUME Inv, ag.pc \in Finishing
  PROVE  jr # None /\ jr.env # None /\ jr \in Journals /\ jr.owner \in ForwardOwners
PROOF
  BY Standing DEF Journaled, Finishing

LEMMA PlaceFinishing ==
  ASSUME NEW a \in Agents, NEW j, NEW c, NEW m, j # None, j.env # None,
         a.pc \in {"idle", "fPrepare", "fAuthorize", "fReady", "proof"}
  PROVE  Place(a, j, c, m)
PROOF
  <1>1. {"fPrepare", "fAuthorize", "fReady", "proof"} \subseteq Finishing \ {"commit", "records"}
    BY DEF Finishing
  <1> QED BY <1>1, PlaceIdle, PlacePlain

LEMMA MbbFinalizeOK ==
  ASSUME Inv, MbbFinalize
  PROVE  Inv'
PROOF
  <1> DEFINE outcome == IF ag.failed THEN "failed" ELSE "drained"
             o == RepairExpiredLease(Settled, Cut)
             f == IF o = None THEN None ELSE Settled
             frozen == [jr EXCEPT !.outcome = outcome, !.owner = Cut]
             k == [frozen EXCEPT !.owner = o]
  <1>1. /\ ag.pc = "mFinal" /\ UNCHANGED <<guard, lapsed, mgr, ctl, orec, serial>>
        /\ fw' = fw \/ (fw' = f /\ f # None)
        /\ jr' \in {jr, frozen} \/ (jr' = k /\ f # None)
        /\ ag' \in {Idle, Go("fPrepare"), Go("fAuthorize"), Go("fReady")}
    BY DEF MbbFinalize, AskNetd, NetdOnly, Keep, Fail, Same
  <1>2. "mFinal" \in Replacing /\ {"fPrepare", "fAuthorize", "fReady"} \subseteq Finishing
    BY DEF Replacing, Finishing
  <1>3. jr # None /\ jr.env # None /\ jr \in Journals
    BY <1>1, <1>2, AtReplacing
  <1>4. Cut \in ForwardOwners /\ Cut.epoch = jr.owner.epoch
    BY <1>3, CutOwner
  <1>5. outcome \in Opt({"failed", "drained", "local_expired"})
    BY DEF Opt
  <1>6. f # None => Forwarded(f, mgr)
    BY SettledForwarded
  <1>7. f # None => o \in ForwardOwners /\ o.epoch = jr.owner.epoch
    BY <1>4, RepairedOwner
  <1>8. k = [jr EXCEPT !.outcome = outcome, !.owner = o]
    BY <1>3 DEF Journals
  <1> HIDE DEF f, o, outcome, k
  <1>9. Continues(jr, frozen) /\ (f # None => Continues(jr, k))
    <2>1. /\ frozen \in Journals /\ frozen.env = jr.env /\ frozen.res = jr.res
          /\ frozen.phase = jr.phase /\ frozen.tx = jr.tx /\ frozen.co = jr.co
          /\ frozen.owner = Cut
      BY <1>3, <1>4, <1>5 DEF Journals
    <2>2. f # None =>
            /\ k \in Journals /\ k.env = jr.env /\ k.res = jr.res
            /\ k.phase = jr.phase /\ k.tx = jr.tx /\ k.co = jr.co
            /\ k.owner = o
      BY <1>3, <1>5, <1>7, <1>8 DEF Journals
    <2> HIDE DEF frozen
    <2> QED BY <1>3, <1>4, <1>7, <2>1, <2>2, OwnerContinues
  <1> HIDE DEF frozen
  <1>10. Continues(jr, jr') /\ jr' # None /\ jr'.env # None
    BY <1>1, <1>3, <1>9, ContinuesItself DEF Continues
  <1>11. ag' \in Agents /\ ag'.pc \in {"idle", "fPrepare", "fAuthorize", "fReady"}
    BY <1>1, <1>2, PcSets, AgentGoes
  <1>12. Place(ag', jr', ctl, mgr)
    BY <1>10, <1>11, PlaceFinishing
  <1> QED BY <1>1, <1>3, <1>6, <1>10, <1>12, NetdMove

LEMMA FinalPrepareOK ==
  ASSUME Inv, FinalPrepare
  PROVE  Inv'
PROOF
  <1> DEFINE f == NetdPrepare(jr.owner)
  <1>1. /\ ag.pc = "fPrepare" /\ UNCHANGED <<guard, lapsed, mgr, ctl, orec, serial, jr>>
        /\ fw' = fw \/ (fw' = f /\ f # None)
        /\ ag' \in {Idle, Go("fAuthorize")}
    BY DEF FinalPrepare, AskNetd, NetdOnly, Keep, Same
  <1>2. {"fPrepare", "fAuthorize"} \subseteq Finishing
    BY DEF Finishing
  <1>3. jr # None /\ jr.env # None /\ jr.owner \in ForwardOwners
    BY <1>1, <1>2, AtFinishing
  <1>4. f # None => Forwarded(f, mgr)
    BY <1>3, NetdAnswers
  <1> HIDE DEF f
  <1>5. ag' \in Agents /\ ag'.pc \in {"idle", "fAuthorize"}
    BY <1>1, <1>2, PcSets, AgentGoes
  <1>6. Place(ag', jr', ctl, mgr) /\ Continues(jr, jr')
    BY <1>1, <1>3, <1>5, PlaceFinishing, ContinuesItself
  <1> QED BY <1>1, <1>3, <1>4, <1>6, NetdMove

LEMMA FinalAuthorizeOK ==
  ASSUME Inv, FinalAuthorize
  PROVE  Inv'
PROOF
  <1> DEFINE f == NetdAuthorize(jr.owner)
  <1>1. /\ ag.pc = "fAuthorize" /\ UNCHANGED <<guard, lapsed, mgr, ctl, orec, serial, jr>>
        /\ fw' = fw \/ (fw' = f /\ f # None)
        /\ ag' \in {Idle, Go("fReady")}
    BY DEF FinalAuthorize, AskNetd, NetdOnly, Keep, Same
  <1>2. {"fAuthorize", "fReady"} \subseteq Finishing
    BY DEF Finishing
  <1>3. jr # None /\ jr.env # None /\ jr.owner \in ForwardOwners
    BY <1>1, <1>2, AtFinishing
  <1>4. f # None => Forwarded(f, mgr)
    BY <1>3, NetdAnswers
  <1> HIDE DEF f
  <1>5. ag' \in Agents /\ ag'.pc \in {"idle", "fReady"}
    BY <1>1, <1>2, PcSets, AgentGoes
  <1>6. Place(ag', jr', ctl, mgr) /\ Continues(jr, jr')
    BY <1>1, <1>3, <1>5, PlaceFinishing, ContinuesItself
  <1> QED BY <1>1, <1>3, <1>4, <1>6, NetdMove

LEMMA FinalReadyOK ==
  ASSUME Inv, FinalReady
  PROVE  Inv'
PROOF
  <1>1. /\ ag.pc = "fReady" /\ UNCHANGED <<guard, lapsed, mgr, ctl, fw, jr, orec, serial>>
        /\ ag' \in {Go("proof"), Idle}
    BY DEF FinalReady, Works, Local, Keep, files
  <1>2. {"fReady", "proof"} \subseteq Finishing
    BY DEF Finishing
  <1>3. jr # None /\ jr.env # None
    BY <1>1, <1>2, AtFinishing
  <1>4. ag' \in Agents /\ ag'.pc \in {"idle", "proof"}
    BY <1>1, <1>2, PcSets, AgentGoes
  <1>5. Place(ag', jr, ctl, mgr)
    BY <1>3, <1>4, PlaceFinishing
  <1> QED BY <1>1, <1>5 DEF Inv

LEMMA CommitProofOK ==
  ASSUME Inv, CommitProof
  PROVE  Inv'
PROOF
  <1> DEFINE r == Done(Now, mgr, Applies(Now) /\ Now.owned /\ Runs(jr.tx))
  <1>1. /\ ag.pc = "proof" /\ UNCHANGED <<guard, lapsed, fw, orec, serial, jr>>
        /\ (mgr' = r.mgr /\ ctl' = r.ctl) \/ UNCHANGED <<mgr, ctl>>
        /\ (r.ok /\ ag' = Go("commit")) \/ ag' = Idle
    BY DEF CommitProof, Ask, PortOnly, Keep, Same
  <1>2. {"proof", "commit"} \subseteq Finishing
    BY DEF Finishing
  <1>3. jr # None /\ jr.env # None
    BY <1>1, <1>2, AtFinishing
  <1>4. Keeps(Now, mgr, r.ctl, r.mgr) /\ r.mgr = mgr /\ (r.ok => Applies(Now))
    BY AskedQuiet
  <1> HIDE DEF r
  <1>5. Keeps(ctl, mgr, ctl', mgr') /\ mgr' = mgr
    BY <1>1, <1>4, QuietAsk
  <1>6. Place(ag', jr, ctl', mgr')
    <2>1. CASE ag' = Idle
      BY <2>1, PcSets, AgentGoes, PlaceIdle
    <2>2. CASE r.ok /\ ag' = Go("commit")
      <3>1. ag' \in Agents /\ ag'.pc = "commit"
        BY <1>2, <2>2, PcSets, AgentGoes
      <3>2. jr.owner.epoch <= mgr.epoch /\ (mgr.owner # None => mgr.owner.tx = jr.tx)
        BY <1>3, <1>4, <2>2, AppliesProves
      <3> QED BY <1>3, <1>5, <3>1, <3>2, PlaceRecords
    <2> QED BY <1>1, <2>1, <2>2
  <1> QED BY <1>1, <1>3, <1>5, <1>6, ContinuesItself, QuietMove

LEMMA CommitAuthorizedOK ==
  ASSUME Inv, CommitAuthorized
  PROVE  Inv'
PROOF
  <1> DEFINE o == jr.owner
             authorized == IF Settled.cand = o THEN [Settled EXCEPT !.auth = TRUE] ELSE Settled
             f == IF ForwardReplay(Settled, o) \notin {"prepared", "active"}
                     \/ Ended(o) \/ ~Runs(o.tx) THEN None
                  ELSE [authorized EXCEPT !.owner = o, !.phase = "Active",
                                          !.cand = None, !.auth = FALSE]
  <1>1. /\ ag.pc = "commit" /\ UNCHANGED <<guard, lapsed, mgr, ctl, orec, serial, jr>>
        /\ fw' = fw \/ (fw' = f /\ f # None)
        /\ ag' \in {Idle, Go("records")}
    BY DEF CommitAuthorized, AskNetd, NetdOnly, Keep, Same
  <1>2. {"commit", "records"} \subseteq Finishing
    BY DEF Finishing
  <1>3. jr # None /\ jr.env # None /\ o \in ForwardOwners
    BY <1>1, <1>2, AtFinishing
  <1>4. o.epoch <= mgr.epoch /\ (mgr.owner # None => mgr.owner.tx = jr.tx)
    BY <1>1, Standing DEF Place
  <1>5. f # None => Forwarded(f, mgr)
    <2>1. Settled \in Forwards
      BY SettledForwarded
    <2>2. authorized \in Forwards
      BY <2>1 DEF Forwards
    <2> HIDE DEF authorized, o
    <2>3. LET g == [authorized EXCEPT !.owner = o, !.phase = "Active",
                                      !.cand = None, !.auth = FALSE]
          IN g \in Forwards /\ g.owner = o
      BY <1>3, <2>2 DEF Forwards, Opt
    <2> QED BY <1>4, <2>3 DEF Forwarded
  <1> HIDE DEF f
  <1>6. Place(ag', jr', ctl, mgr)
    <2>1. CASE ag' = Idle
      BY <2>1, PcSets, AgentGoes, PlaceIdle
    <2>2. CASE ag' = Go("records")
      <3>1. ag' \in Agents /\ ag'.pc = "records"
        BY <1>2, <2>2, PcSets, AgentGoes
      <3> QED BY <1>1, <1>3, <1>4, <3>1, PlaceRecords
    <2> QED BY <1>1, <2>1, <2>2
  <1>7. Continues(jr, jr')
    BY <1>1, <1>3, ContinuesItself
  <1> QED BY <1>1, <1>3, <1>5, <1>6, <1>7, NetdMove

\* The owner's record names the transaction before the journal's intent is
\* given up.
LEMMA FinishRecordsOK ==
  ASSUME Inv, FinishRecords
  PROVE  Inv'
PROOF
  <1>1. /\ ag.pc = "records" /\ UNCHANGED <<guard, lapsed, mgr, ctl, fw, serial>>
        /\ \/ UNCHANGED <<jr, orec>> /\ ag' \in {ag, Idle}
           \/ orec' = jr.tx /\ jr' = Phase("committed") /\ ag' = Go("close")
    BY DEF FinishRecords, Stop, Works, Local, Keep, files
  <1>2. "records" \in Finishing
    BY DEF Finishing
  <1>3. jr # None /\ jr.env # None /\ jr \in Journals
    BY <1>1, <1>2, AtFinishing
  <1>4. mgr.owner # None => mgr.owner.tx = jr.tx
    BY <1>1, Standing DEF Place
  <1>5. CASE UNCHANGED <<jr, orec>> /\ ag' \in {ag, Idle}
    <2>1. Place(ag', jr, ctl, mgr)
      BY <1>5, Standing, PcSets, AgentGoes, PlaceIdle
    <2> QED BY <1>1, <1>5, <2>1 DEF Inv
  <1>6. CASE orec' = jr.tx /\ jr' = Phase("committed") /\ ag' = Go("close")
    <2> DEFINE k == Phase("committed")
    <2>1. "committed" \in Phases
      BY DEF Phases
    <2>2. /\ k \in Journals /\ k # None /\ k.phase = "committed" /\ k.tx = jr.tx
          /\ k.env = jr.env /\ k.owner = jr.owner /\ k.co = jr.co /\ k.res = jr.res
      BY <1>3, <2>1, PhaseFields DEF Phase
    <2> HIDE DEF k
    <2>3. Sound(k)
      BY <1>3, <2>2, Standing, PhaseSets DEF Sound
    <2>4. Filed(jr, orec, ctl, mgr, serial)
      BY DEF Inv
    <2>5. Intended(k, jr.tx, mgr)
      BY <1>4 DEF Intended
    <2>6. Filed(k, jr.tx, ctl, mgr, serial)
      BY <1>3, <2>2, <2>4, <2>5 DEF Filed, Unique
    <2>7. ag' \in Agents /\ ag'.pc = "close"
      BY <1>6, PcSets, AgentGoes
    <2>8. Place(ag', k, ctl, mgr)
      BY <2>2, <2>7, PlacePlain
    <2>9. jr.tx \in Int
      BY <1>3, Standing
    <2> QED BY <1>1, <1>6, <2>3, <2>6, <2>8, <2>9 DEF Inv, k
  <1> QED BY <1>1, <1>5, <1>6

LEMMA CloseRenewalOK ==
  ASSUME Inv, CloseRenewal
  PROVE  Inv'
PROOF
  <1>1. /\ UNCHANGED <<guard, lapsed, mgr, ctl, fw, jr, orec, serial>>
        /\ ag' \in {Serve, Idle}
    BY DEF CloseRenewal, Stop, Local, Keep, files
  <1>2. Place(ag', jr, ctl, mgr)
    BY <1>1, PcSets, AgentGoes, PlaceIdle
  <1> QED BY <1>1, <1>2 DEF Inv

-----------------------------------------------------------------------------
(* Surroundings                                                            *)

LEMMA CrashOK ==
  ASSUME Inv, Crash
  PROVE  Inv'
PROOF
  <1>1. /\ ag' = At(ag.by + 1, "idle")
        /\ UNCHANGED <<guard, lapsed, mgr, ctl, fw, jr, orec, serial>>
    BY DEF Crash, tunio, world, files
  <1>2. ag.by + 1 \in Int
    BY Standing DEF Agents
  <1>3. ag' \in Agents /\ ag'.pc = "idle"
    BY <1>1, <1>2, PcSets, AtType
  <1>4. Place(ag', jr, ctl, mgr)
    BY <1>3, PlaceIdle
  <1> QED BY <1>1, <1>4 DEF Inv

LEMMA NetdPollOK ==
  ASSUME Inv, NetdPoll
  PROVE  Inv'
PROOF
  <1>1. fw' = Settled /\ UNCHANGED <<guard, lapsed, mgr, ctl, jr, orec, serial, ag>>
    BY DEF NetdPoll, tunio, world, files
  <1> QED BY <1>1, SettledForwarded DEF Inv

\* Everything the invariant speaks of stays.
LEMMA OutsideOK ==
  ASSUME Inv, UNCHANGED <<guard, lapsed, mgr, ctl, fw, jr, orec, serial, ag>>
  PROVE  Inv'
PROOF
  BY DEF Inv

LEMMA LapseOK ==
  ASSUME Inv, NEW t, Lapse(t), UNCHANGED <<files, fw, ag, serial>>
  PROVE  Inv'
PROOF
  <1>1. /\ UNCHANGED <<guard, mgr, ctl, fw, jr, orec, serial, ag>>
        /\ lapsed \subseteq lapsed'
    BY DEF Lapse, tunio, files
  <1>2. Guarded(guard, mgr, lapsed')
    BY <1>1 DEF Inv, Guarded
  <1> QED BY <1>1, <1>2 DEF Inv

\* The manager changes by itself, and only loses.
LEMMA LossOK ==
  ASSUME Inv, UNCHANGED <<ctl, guard, lapsed, files, fw, ag, serial>>,
         Keeps(ctl, mgr, ctl, mgr')
  PROVE  Inv'
PROOF
  <1>1. UNCHANGED <<jr, orec>>
    BY DEF files
  <1>2. Port(ctl, mgr') /\ Filed(jr, orec, ctl, mgr', serial)
    BY DEF Inv, Keeps
  <1>3. Place(ag, jr, ctl, mgr')
    BY PlaceKeeps DEF Inv
  <1>4. Moves(mgr, mgr')
    BY KeepsMoves DEF Inv
  <1>5. Sound(jr) /\ orec \in Int
    BY DEF Inv
  <1> QED BY <1>1, <1>2, <1>3, <1>4, <1>5, PortStep

LEMMA OwnerGoneOK ==
  ASSUME Inv, OwnerGone, UNCHANGED <<files, fw, ag, serial>>
  PROVE  Inv'
PROOF
  <1>1. mgr' = [mgr EXCEPT !.owner = None] /\ UNCHANGED <<ctl, guard, lapsed>>
    BY DEF OwnerGone, world
  <1>2. mgr \in Managers /\ Port(ctl, mgr)
    BY DEF Inv, Port
  <1>3. /\ mgr' \in Managers /\ mgr'.owner = None /\ mgr'.epoch = mgr.epoch
        /\ mgr'.rev = mgr.rev /\ mgr'.pending = mgr.pending /\ mgr'.last = mgr.last
    BY <1>1, <1>2 DEF Managers, Opt
  <1>4. Keeps(ctl, mgr, ctl, mgr')
    BY <1>2, <1>3, ManagerLoses
  <1> QED BY <1>1, <1>4, LossOK

LEMMA RetainedGoneOK ==
  ASSUME Inv, RetainedGone, UNCHANGED <<files, fw, ag, serial>>
  PROVE  Inv'
PROOF
  <1>1. mgr' = ForceRetired(mgr) /\ UNCHANGED <<ctl, guard, lapsed>>
    BY DEF RetainedGone, world
  <1>2. mgr \in Managers /\ Port(ctl, mgr)
    BY DEF Inv, Port
  <1>3. /\ mgr' \in Managers /\ mgr'.owner = mgr.owner /\ mgr'.epoch = mgr.epoch
        /\ mgr'.rev = mgr.rev /\ mgr'.pending = mgr.pending /\ mgr'.last = mgr.last
    BY <1>1, <1>2 DEF Managers, Opt, ForceRetired
  <1>4. Keeps(ctl, mgr, ctl, mgr')
    BY <1>2, <1>3, ManagerLoses
  <1> QED BY <1>1, <1>4, LossOK

\* A preparation that ends by itself ends without a commit.
LEMMA PendingEndsOK ==
  ASSUME Inv, NEW p \in {"expired", "aborted"}, mgr.pending # None,
         mgr' = [mgr EXCEPT !.pending = None, !.last = [txn |-> mgr.pending, phase |-> p]],
         UNCHANGED <<ctl, guard, lapsed, files, fw, ag, serial>>
  PROVE  Inv'
PROOF
  <1>1. mgr \in Managers /\ Port(ctl, mgr) /\ mgr.pending \in Transactions
    BY DEF Inv, Port, Managers, Opt
  <1> DEFINE l == [txn |-> mgr.pending, phase |-> p]
  <1>2. l \in Outcomes /\ l.txn = mgr.pending /\ l.phase # "committed"
    BY <1>1 DEF Outcomes
  <1> HIDE DEF l
  <1>3. /\ mgr' \in Managers /\ mgr'.owner = mgr.owner /\ mgr'.epoch = mgr.epoch
        /\ mgr'.rev = mgr.rev /\ mgr'.pending = None /\ mgr'.last = l
    BY <1>1, <1>2 DEF Managers, Opt, l
  <1>4. l # None
    BY <1>2, NoneAssumption
  <1>5. Keeps(ctl, mgr, ctl, mgr')
    BY <1>1, <1>2, <1>3, <1>4, ManagerLoses
  <1> QED BY <1>5, LossOK

-----------------------------------------------------------------------------
(* The boot-clock guard                                                    *)

LEMMA GuardReadsOK ==
  ASSUME Inv, GuardReads, UNCHANGED <<files, fw, ag, serial>>
  PROVE  Inv'
PROOF
  <1> DEFINE g == [active |-> ctl.active, binding |-> ctl.binding, revoked |-> FALSE]
  <1>1. /\ UNCHANGED <<mgr, ctl, lapsed, jr, orec>> /\ guard' = g
        /\ (IF ctl.active = None THEN 0 ELSE ctl.active.tx) \in lapsed
    BY DEF GuardReads, world, files
  <1>2. Port(ctl, mgr)
    BY DEF Inv
  <1>3. ctl.binding \in Int /\ ctl.binding <= mgr.epoch /\ ctl.active \in Opt(Envelopes)
    BY <1>2 DEF Port, Controllers
  <1>4. g \in Copies /\ g.binding = ctl.binding /\ ~g.revoked
    BY <1>3 DEF Copies
  <1> HIDE DEF g
  <1>5. mgr.owner # None => mgr.owner.tx \in lapsed
    BY <1>1, <1>2 DEF Port, Agreed
  <1>6. Guarded(g, mgr, lapsed)
    BY <1>3, <1>4, <1>5 DEF Guarded
  <1> QED BY <1>1, <1>6 DEF Inv

LEMMA GuardRevokesOK ==
  ASSUME Inv, GuardRevokes, UNCHANGED <<files, fw, ag, serial>>
  PROVE  Inv'
PROOF
  <1> DEFINE m == ManagerRevoke(mgr, guard.binding)
  <1>1. /\ guard # None /\ UNCHANGED <<ctl, lapsed, jr, orec>>
        /\ \/ guard' = None /\ mgr' = mgr
           \/ m # None /\ mgr' = m /\ guard' \in {None, [guard EXCEPT !.revoked = TRUE]}
    BY DEF GuardRevokes, world, files
  <1>2. CASE guard' = None /\ mgr' = mgr
    <2>1. Guarded(guard', mgr', lapsed')
      BY <1>2 DEF Guarded
    <2> QED BY <1>1, <1>2, <2>1 DEF Inv
  <1>3. CASE m # None /\ mgr' = m /\ guard' \in {None, [guard EXCEPT !.revoked = TRUE]}
    <2>1. Keeps(ctl, mgr, ctl, mgr') /\ mgr'.owner = None /\ mgr'.epoch = mgr.epoch
      BY <1>3, RevokeLoses DEF Inv, Keeps
    <2>2. Port(ctl', mgr') /\ Filed(jr', orec', ctl', mgr', serial')
      BY <1>1, <2>1 DEF Inv, Keeps
    <2>3. Place(ag', jr', ctl', mgr')
      BY <1>1, <2>1, PlaceKeeps DEF Inv
    <2>4. Forwarded(fw', mgr')
      BY <2>1 DEF Inv, Forwarded
    <2>5. guard \in Copies /\ guard.binding <= mgr.epoch
      BY <1>1 DEF Inv, Guarded
    <2>6. guard' # None => guard' \in Copies /\ guard'.binding = guard.binding
      BY <1>3, <2>5 DEF Copies
    <2>7. Guarded(guard', mgr', lapsed')
      BY <2>1, <2>5, <2>6 DEF Guarded
    <2> QED BY <1>1, <2>2, <2>3, <2>4, <2>7 DEF Inv
  <1> QED BY <1>1, <1>2, <1>3

\* What is cleared was revoked before, so the port has no owner.
LEMMA GuardClearsOK ==
  ASSUME Inv, GuardClears, UNCHANGED <<files, fw, ag, serial>>
  PROVE  Inv'
PROOF
  <1>1. /\ guard # None /\ guard.revoked /\ guard' = None
        /\ UNCHANGED <<mgr, lapsed, jr, orec>>
        /\ \/ UNCHANGED ctl
           \/ /\ ctl.binding = guard.binding
              /\ ctl' = [ctl EXCEPT !.active = None, !.owned = FALSE]
    BY DEF GuardClears, world, files
  <1>2. Guarded(guard', mgr', lapsed')
    BY <1>1 DEF Guarded
  <1>3. CASE UNCHANGED ctl
    BY <1>1, <1>2, <1>3 DEF Inv
  <1>4. CASE /\ ctl.binding = guard.binding
             /\ ctl' = [ctl EXCEPT !.active = None, !.owned = FALSE]
    <2>1. Port(ctl, mgr) /\ ctl \in Controllers /\ Filed(jr, orec, ctl, mgr, serial)
      BY DEF Inv, Port
    <2>2. mgr.owner = None
      <3>1. mgr.owner # None => ctl.binding = mgr.epoch
        BY <2>1 DEF Port, Agreed
      <3>2. mgr.owner # None /\ mgr.epoch = guard.binding => ~guard.revoked
        BY <1>1 DEF Inv, Guarded
      <3> QED BY <1>1, <1>4, <3>1, <3>2
    <2>3. /\ ctl' \in Controllers /\ ctl'.active = None /\ ctl'.pending = ctl.pending
          /\ ctl'.cand = ctl.cand /\ ctl'.term = ctl.term /\ ctl'.binding = ctl.binding
          /\ ctl'.cancelled = ctl.cancelled /\ ctl'.retired = ctl.retired
      BY <1>4, <2>1 DEF Controllers, Opt
    <2>4. Port(ctl', mgr)
      BY <2>1, <2>2, <2>3 DEF Port, Agreed, Held, Concluded
    <2>5. Filed(jr, orec, ctl', mgr, serial)
      BY <2>1, <2>3 DEF Filed, Unique, CalledOff
    <2>6. Place(ag, jr, ctl', mgr)
      BY <2>3 DEF Inv, Place
    <2> QED BY <1>1, <1>2, <2>4, <2>5, <2>6 DEF Inv
  <1> QED BY <1>1, <1>3, <1>4

-----------------------------------------------------------------------------
(* The invariant and the theorems                                          *)

LEMMA InitOK ==
  ASSUME Init
  PROVE  Inv
PROOF
  <1>1. /\ mgr = NewManager /\ ctl = NewController /\ guard = None /\ jr = None
        /\ orec = 0 /\ fw = NewForward /\ ag = At(1, "idle") /\ serial = 0
    BY DEF Init, TunioInit
  <1>2. /\ mgr \in Managers /\ mgr.owner = [tx |-> 0, epoch |-> 1] /\ mgr.epoch = 1
        /\ mgr.pending = None /\ mgr.last = None
    BY <1>1 DEF NewManager, Managers, Opt, Owners
  <1>3. /\ ctl \in Controllers /\ ctl.owned /\ ctl.binding = 1 /\ ctl.active = None
        /\ ctl.pending = None /\ ctl.cand = None /\ ctl.term = None
        /\ ctl.cancelled = None /\ ctl.retired = None
    BY <1>1 DEF NewController, Controllers, Opt
  <1>4. Port(ctl, mgr)
    BY <1>2, <1>3 DEF Port, Agreed, Held, Concluded, Aged
  <1>5. Filed(jr, orec, ctl, mgr, serial)
    BY <1>1, <1>2, <1>3 DEF Filed, Unique, CalledOff, Intended
  <1>6. Place(ag, jr, ctl, mgr)
    BY <1>1, PcSets, AtType, PlaceIdle
  <1>7. fw \in Forwards /\ fw.owner.epoch = 1
    BY <1>1 DEF NewForward, Forwards, ForwardOwner, ForwardOwners, Opt
  <1> QED BY <1>1, <1>2, <1>4, <1>5, <1>6, <1>7 DEF Inv, Sound, Guarded, Forwarded

LEMMA NextOK ==
  ASSUME Inv, Next
  PROVE  Inv'
PROOF
  <1>1. CASE Renewal
    <2>1. CASE Discover \/ RetireCommitted \/ Fresh
      BY <2>1, DiscoverOK, RetireCommittedOK, FreshOK
    <2>2. CASE \/ LegacyGuard \/ LegacySpawn \/ LegacyStage \/ LegacyAttach \/ LegacyProbe
               \/ LegacyPrepare \/ LegacyAuthorize \/ LegacyReady \/ LegacyCommit
               \/ LegacyUndo \/ LegacyDrop
      BY <2>2, LegacyGuardOK, LegacySpawnOK, LegacyStageOK, LegacyAttachOK, LegacyProbeOK,
         LegacyPrepareOK, LegacyAuthorizeOK, LegacyReadyOK, LegacyCommitOK, LegacyUndoOK,
         LegacyDropOK
    <2>3. CASE \/ Recover \/ RecoverNetd \/ RecoverPrepare \/ RecoverAuthorize
               \/ RecoverReady \/ RecoverStop \/ RecoverDrop \/ RecoverRevoke
               \/ RecoverRetire
      BY <2>3, RecoverOK, RecoverNetdOK, RecoverPrepareOK, RecoverAuthorizeOK,
         RecoverReadyOK, RecoverStopOK, RecoverDropOK, RecoverRevokeOK, RecoverRetireOK
    <2>4. CASE \/ MbbEnter \/ MbbExpired \/ MbbReserve \/ MbbSpawn \/ MbbStage
               \/ MbbPrepare \/ MbbLook \/ MbbInstall
      BY <2>4, MbbEnterOK, MbbExpiredOK, MbbReserveOK, MbbSpawnOK, MbbStageOK,
         MbbPrepareOK, MbbLookOK, MbbInstallOK
    <2>5. CASE \/ MbbCommit \/ MbbConfirm \/ MbbDrain \/ MbbFinish \/ MbbRetireFailed
               \/ MbbIsolate \/ MbbFence \/ MbbStopOld
      BY <2>5, MbbCommitOK, MbbConfirmOK, MbbDrainOK, MbbFinishOK, MbbRetireFailedOK,
         MbbIsolateOK, MbbFenceOK, MbbStopOldOK
    <2>6. CASE \/ MbbFinalize \/ FinalPrepare \/ FinalAuthorize \/ FinalReady
               \/ CommitProof \/ CommitAuthorized \/ FinishRecords \/ CloseRenewal
      BY <2>6, MbbFinalizeOK, FinalPrepareOK, FinalAuthorizeOK, FinalReadyOK,
         CommitProofOK, CommitAuthorizedOK, FinishRecordsOK, CloseRenewalOK
    <2> QED BY <1>1, <2>1, <2>2, <2>3, <2>4, <2>5, <2>6 DEF Renewal
  <1>2. CASE Renew \/ Crash \/ NetdPoll
    BY <1>2, RenewOK, CrashOK, NetdPollOK
  <1>3. ASSUME UNCHANGED <<files, fw, ended, ag, serial, errors, deaths>>,
               \/ OwnerGone \/ RetainedGone \/ PendingExpires \/ PendingFails
               \/ GuardReads \/ GuardRevokes \/ GuardClears
               \/ \E t \in 0 .. serial : Tick(t) \/ Lapse(t)
        PROVE  Inv'
    <2>1. UNCHANGED <<files, fw, ag, serial>>
      BY <1>3
    <2>2. CASE OwnerGone \/ RetainedGone
      BY <2>1, <2>2, OwnerGoneOK, RetainedGoneOK
    <2>3. CASE PendingExpires
      <3>1. /\ mgr.pending # None /\ UNCHANGED <<ctl, guard, lapsed>>
            /\ mgr' = [mgr EXCEPT !.pending = None,
                                  !.last = [txn |-> mgr.pending, phase |-> "expired"]]
        BY <2>3 DEF PendingExpires, world
      <3> QED BY <2>1, <3>1, PendingEndsOK
    <2>4. CASE PendingFails
      <3>1. /\ mgr.pending # None /\ UNCHANGED <<ctl, guard, lapsed>>
            /\ mgr' = [mgr EXCEPT !.pending = None,
                                  !.last = [txn |-> mgr.pending, phase |-> "aborted"]]
        BY <2>4 DEF PendingFails, world
      <3> QED BY <2>1, <3>1, PendingEndsOK
    <2>5. CASE GuardReads \/ GuardRevokes \/ GuardClears
      BY <2>1, <2>5, GuardReadsOK, GuardRevokesOK, GuardClearsOK
    <2>6. ASSUME NEW t \in 0 .. serial, Tick(t)
          PROVE  Inv'
      <3>1. UNCHANGED <<guard, lapsed, mgr, ctl, fw, jr, orec, serial, ag>>
        BY <2>1, <2>6 DEF Tick, tunio, files
      <3> QED BY <3>1, OutsideOK
    <2>7. ASSUME NEW t \in 0 .. serial, Lapse(t)
          PROVE  Inv'
      BY <2>1, <2>7, LapseOK
    <2> QED BY <1>3, <2>2, <2>3, <2>4, <2>5, <2>6, <2>7
  <1>4. ASSUME NEW t \in Txs, WorkerDies(t)
        PROVE  Inv'
    <2>1. UNCHANGED <<guard, lapsed, mgr, ctl, fw, jr, orec, serial, ag>>
      BY <1>4 DEF WorkerDies, WorkerExits, tunio, files
    <2> QED BY <2>1, OutsideOK
  <1>5. ASSUME NEW o \in {fw.owner, fw.cand}, LeaseEnds(o)
        PROVE  Inv'
    <2>1. UNCHANGED <<guard, lapsed, mgr, ctl, fw, jr, orec, serial, ag>>
      BY <1>5 DEF LeaseEnds, tunio, world, files
    <2> QED BY <2>1, OutsideOK
  <1> QED BY <1>1, <1>2, <1>3, <1>4, <1>5 DEF Next

LEMMA StutterOK ==
  ASSUME Inv, UNCHANGED vars
  PROVE  Inv'
PROOF
  <1>1. UNCHANGED <<guard, lapsed, mgr, ctl, fw, jr, orec, serial, ag>>
    BY DEF vars, tunio, world, files
  <1> QED BY <1>1, OutsideOK

LEMMA InvHolds == Spec => []Inv
PROOF
  <1>1. Init => Inv
    BY InitOK
  <1>2. Inv /\ [Next]_vars => Inv'
    BY NextOK, StutterOK
  <1> QED BY <1>1, <1>2, PTL DEF Spec

LEMMA AccountedByInv ==
  ASSUME Inv
  PROVE  TransactionsAccounted
PROOF
  <1>1. Port(ctl, mgr) /\ Sound(jr) /\ Filed(jr, orec, ctl, mgr, serial)
    BY DEF Inv
  <1>2. mgr.pending # None => ctl.pending # None /\ mgr.pending.tx = ctl.pending.tx
    <2>1. SUFFICES ASSUME mgr.pending # None
                   PROVE  ctl.pending # None /\ mgr.pending.tx = ctl.pending.tx
      OBVIOUS
    <2>2. /\ ctl.cand # None /\ mgr.pending = Of(ctl.cand) /\ ctl.pending = ctl.cand.env
          /\ ctl.cand \in Opt(Preparations)
      BY <1>1, <2>1 DEF Port, Held, Controllers
    <2>3. ctl.cand.env \in Envelopes
      BY <2>2 DEF Opt, Preparations
    <2>4. mgr.pending.tx = ctl.cand.env.tx
      BY <2>2 DEF Of, Transaction
    <2> QED BY <2>2, <2>3, <2>4, NoneAssumption
  <1>3. PendingIsJournaled
    BY <1>1, <1>2 DEF PendingIsJournaled, Filed, Sound
  <1>4. CancelledNeverOwns
    BY <1>1, <1>2 DEF CancelledNeverOwns, Owns, Filed, CalledOff
  <1> QED BY <1>3, <1>4 DEF TransactionsAccounted

LEMMA OrderedByInv ==
  ASSUME Inv
  PROVE  HandoverOrdered
PROOF
  <1>1. Intended(jr, orec, mgr) /\ Forwarded(fw, mgr)
    BY DEF Inv, Filed
  <1> QED BY <1>1 DEF HandoverOrdered, CommitIsIntended, ForwardingIsApplied, Owns,
             Intended, Forwarded

\* Every envelope the packet port has staged or prepared is named by
\* renewal.json, and a transaction that RecoverPrecommit or
\* RetireExpiredCommit called off is never prepared again and never owns the
\* port, for any number of renewals, lost answers, crashes and dead workers.
THEOREM EveryTransactionAccounted == Spec => []TransactionsAccounted
PROOF
  BY InvHolds, AccountedByInv, PTL

\* The worker that owns the packet port by a commit is named on disk, by the
\* journal's durable intent or by the owner's record, and netd never forwards
\* for an epoch the port has not reached: promote_with, commit_authorized and
\* finish_records keep their order through every crash and lost answer.
THEOREM HandoverKeepsOrder == Spec => []HandoverOrdered
PROOF
  BY InvHolds, OrderedByInv, PTL

\* Nothing the agent does touches the guard's copy.
LEMMA RenewalSparesGuard ==
  ASSUME Renewal
  PROVE  UNCHANGED guard
PROOF
  <1> USE DEF PortOnly, NetdOnly, Local, Keep
  <1>1. ASSUME Discover \/ RetireCommitted \/ Fresh \/ LegacyGuard \/ LegacySpawn
        PROVE  UNCHANGED guard
    BY <1>1 DEF Discover, RetireCommitted, Fresh, LegacyGuard, LegacySpawn
  <1>2. ASSUME \/ LegacyStage \/ LegacyAttach \/ LegacyProbe \/ LegacyPrepare
               \/ LegacyAuthorize \/ LegacyReady \/ LegacyCommit \/ LegacyUndo \/ LegacyDrop
        PROVE  UNCHANGED guard
    BY <1>2 DEF LegacyStage, LegacyAttach, LegacyProbe, LegacyPrepare, LegacyAuthorize,
       LegacyReady, LegacyCommit, LegacyUndo, LegacyDrop
  <1>3. ASSUME \/ Recover \/ RecoverNetd \/ RecoverPrepare \/ RecoverAuthorize
               \/ RecoverReady \/ RecoverStop \/ RecoverDrop \/ RecoverRevoke
               \/ RecoverRetire
        PROVE  UNCHANGED guard
    BY <1>3 DEF Recover, RecoverNetd, RecoverPrepare, RecoverAuthorize, RecoverReady,
       RecoverStop, RecoverDrop, RecoverRevoke, RecoverRetire
  <1>4. ASSUME \/ MbbEnter \/ MbbExpired \/ MbbReserve \/ MbbSpawn \/ MbbStage
               \/ MbbPrepare \/ MbbLook \/ MbbInstall
        PROVE  UNCHANGED guard
    BY <1>4 DEF MbbEnter, MbbExpired, MbbReserve, MbbSpawn, MbbStage, MbbPrepare,
       MbbLook, MbbInstall
  <1>5. ASSUME \/ MbbCommit \/ MbbConfirm \/ MbbDrain \/ MbbFinish \/ MbbRetireFailed
               \/ MbbIsolate \/ MbbFence \/ MbbStopOld
        PROVE  UNCHANGED guard
    BY <1>5 DEF MbbCommit, MbbConfirm, MbbDrain, MbbFinish, MbbRetireFailed,
       MbbIsolate, MbbFence, MbbStopOld
  <1>6. ASSUME \/ MbbFinalize \/ FinalPrepare \/ FinalAuthorize \/ FinalReady
               \/ CommitProof \/ CommitAuthorized \/ FinishRecords \/ CloseRenewal
        PROVE  UNCHANGED guard
    BY <1>6 DEF MbbFinalize, FinalPrepare, FinalAuthorize, FinalReady, CommitProof,
       CommitAuthorized, FinishRecords, CloseRenewal
  <1> QED BY <1>1, <1>2, <1>3, <1>4, <1>5, <1>6 DEF Renewal

\* A step of the boot-clock guard that ends an ownership ends one whose
\* authorization has ended: boot_deadline_guard revokes by the epoch it
\* copied, so a successor committed in the meantime survives.
THEOREM GuardNeverHitsSuccessor == Spec => GuardSparesSuccessor
PROOF
  <1> DEFINE spares == guard # None /\ guard' # guard /\ mgr.owner # None /\ mgr'.owner = None
                         => mgr.owner.tx \in lapsed
  <1>1. ASSUME Inv, GuardRevokes
        PROVE  spares
    <2>1. CASE ManagerRevoke(mgr, guard.binding) = None
      BY <1>1, <2>1 DEF GuardRevokes
    <2>2. CASE ManagerRevoke(mgr, guard.binding) # None
      <3>1. guard.binding = mgr.epoch
        BY <2>2 DEF ManagerRevoke
      <3> QED BY <1>1, <3>1 DEF Inv, Guarded
    <2> QED BY <2>1, <2>2
  <1>2. ASSUME GuardReads \/ GuardClears
        PROVE  spares
    BY <1>2 DEF GuardReads, GuardClears
  <1>3. ASSUME Renewal
        PROVE  UNCHANGED guard
    BY <1>3, RenewalSparesGuard
  <1>4. ASSUME Renew \/ Crash \/ NetdPoll
        PROVE  UNCHANGED guard
    BY <1>4 DEF Renew, Crash, NetdPoll, Local, Keep, tunio
  <1>5. ASSUME OwnerGone \/ RetainedGone \/ PendingExpires \/ PendingFails
        PROVE  UNCHANGED guard
    BY <1>5 DEF OwnerGone, RetainedGone, PendingExpires, PendingFails
  <1>6. ASSUME NEW t, Tick(t) \/ Lapse(t) \/ WorkerDies(t) \/ LeaseEnds(t)
        PROVE  UNCHANGED guard
    BY <1>6 DEF Tick, Lapse, WorkerDies, WorkerExits, LeaseEnds, tunio
  <1>7. ASSUME Inv, [Next]_vars
        PROVE  spares
    <2>1. CASE UNCHANGED vars
      BY <2>1 DEF vars, tunio
    <2>2. CASE Next
      BY <1>1, <1>2, <1>3, <1>4, <1>5, <1>6, <1>7, <2>2 DEF Next
    <2> QED BY <1>7, <2>1, <2>2
  <1>8. Inv /\ [Next]_vars => [spares]_vars
    BY <1>7
  <1> QED BY <1>8, InvHolds, PTL DEF Spec, GuardSparesSuccessor

=============================================================================
