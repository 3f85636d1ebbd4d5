--------------------------- MODULE TunioAuthority ---------------------------
(***************************************************************************)
(* candy-tunio: the process that keeps the TUN device open and lets one    *)
(* business worker at a time read and write it.                            *)
(*                                                                         *)
(* The packet-port manager (packet_port_manager.rs) is the task that moves *)
(* packets; it alone knows the owner, a retained predecessor that still    *)
(* drains, one prepared candidate and the outcome of the last transaction. *)
(* The authority endpoint (authority_control.rs) serves the agent's        *)
(* requests one at a time under the Controller mutex, keeps the signed     *)
(* envelopes, and learns what became of a transaction only by reconciling  *)
(* with the manager.  The boot-clock guard runs beside both and revokes an *)
(* owner whose authority ended while the machine slept.                    *)
(*                                                                         *)
(* A binding is its owner epoch: the infrastructure part never changes     *)
(* and the policy generation follows the epoch.  Every transaction has a   *)
(* worker of its own, so a transaction number also names the worker.       *)
(***************************************************************************)
EXTENDS Integers

CONSTANTS
    None,
    MaxTx          \* bound on renewal transactions; 0 is the bootstrap owner

\* What there is to tell apart: AuthorityEnvelope, OwnerTransaction, an owner,
\* the outcome of a transaction, the endpoint's record of one that is prepared
\* or ended, and the manager's state.
Opt(S) == S \cup {None}

Envelopes == [tx : Nat, rev : Int, epoch : Int, by : Int]

Transactions == [tx : Nat, rev : Int, epoch : Int, exp : Int]

Owners == [tx : Nat, epoch : Int]

Outcomes == [txn : Transactions, phase : {"committed", "expired", "aborted"}]

Preparations == [env : Envelopes, exp : Int, prepared : BOOLEAN]

Endings == [env : Envelopes, exp : Int, phase : {"committed", "expired", "aborted"}]

Records == [env : Envelopes, exp : Int]

Managers ==
    [owner : Opt(Owners), retained : Opt(Owners), drained : BOOLEAN,
     forced : BOOLEAN, pending : Opt(Transactions), last : Opt(Outcomes),
     rev : Int, epoch : Int]

ASSUME MaxTxAssumption == MaxTx \in Nat \ {0}

ASSUME NoneAssumption ==
    None \notin Int \cup Envelopes \cup Transactions \cup Owners \cup Outcomes
                \cup Preparations \cup Endings \cup Records \cup Managers

VARIABLES
    mgr,      \* packet-port manager
    ctl,      \* Controller and its AuthorityState
    guard,    \* what boot_deadline_guard copied, or None
    workers,  \* transactions whose worker process runs
    late,     \* transactions whose prepare deadline has passed
    lapsed    \* transactions whose authorization has ended

tunio == <<mgr, ctl, guard>>

world == <<workers, late, lapsed>>

Txs == 0 .. MaxTx

\* OwnerTransaction: what the manager is given of an AuthorityEnvelope, which
\* has a transaction, a revision, an owner epoch and a controller epoch.
Transaction(e, exp) == [tx |-> e.tx, rev |-> e.rev, epoch |-> e.epoch, exp |-> exp]

Owner(t) == [tx |-> t.tx, epoch |-> t.epoch]

Epoch(owner) == IF owner = None THEN None ELSE owner.epoch

Larger(a, b) == IF a > b THEN a ELSE b

-----------------------------------------------------------------------------
(* The manager: each change returns the new state, or None when refused.   *)

NewManager ==
    [owner |-> [tx |-> 0, epoch |-> 1], retained |-> None, drained |-> TRUE,
     forced |-> FALSE, pending |-> None, last |-> None, rev |-> 0, epoch |-> 1]

HasCommitted(m, t) ==
    m.last # None /\ m.last.phase = "committed" /\ m.last.txn = t

\* PrepareOwner: at most one candidate, newer than everything seen before,
\* and only against the owner it expects.
ManagerPrepare(m, t) ==
    IF m.pending = t \/ HasCommitted(m, t) THEN m
    ELSE IF /\ t.rev > m.rev /\ m.pending = None /\ m.retained = None
            /\ Epoch(m.owner) = t.exp /\ t.epoch > m.epoch
            /\ t.tx \notin late
         THEN [m EXCEPT !.pending = t, !.rev = t.rev]
         ELSE None

\* CommitOwner: the candidate becomes the owner, the previous one is kept
\* for what it still has to deliver.  That the manager is full of retired
\* owners or of queued packets is one of the refusals an exchange may meet.
ManagerCommit(m, t) ==
    IF HasCommitted(m, t) THEN m
    ELSE IF m.pending = t /\ Epoch(m.owner) = t.exp /\ t.tx \notin late
         THEN [m EXCEPT !.owner = Owner(t), !.retained = m.owner,
                        !.drained = m.owner = None, !.forced = FALSE,
                        !.pending = None, !.epoch = t.epoch,
                        !.last = [txn |-> t, phase |-> "committed"]]
         ELSE None

\* FinishOwnerDrain: refused while packets are queued (empty = FALSE).
ManagerFinishDrain(m, t, empty) ==
    IF HasCommitted(m, t) /\ ~m.forced /\ (m.retained = None \/ empty)
    THEN [m EXCEPT !.retained = None, !.drained = TRUE]
    ELSE None

\* RetireOwnerAfterFailure: only for the current owner, after the deadline
\* of its preparation, and never over a drain that was acknowledged.
ManagerRetire(m, t) ==
    IF /\ HasCommitted(m, t) /\ m.owner = Owner(t) /\ t.tx \in late
       /\ ~(m.drained /\ m.retained = None /\ ~m.forced)
    THEN [m EXCEPT !.retained = None, !.forced = TRUE, !.drained = FALSE]
    ELSE None

\* AttachAuthorized: the owner is replaced at once.
ManagerAttach(m, e) ==
    IF m.retained = None /\ e.epoch > m.epoch /\ e.tx \notin lapsed
    THEN [m EXCEPT !.owner = Owner(e), !.epoch = e.epoch]
    ELSE None

\* A retained owner that goes away without a drain receipt.
ForceRetired(m) ==
    [m EXCEPT !.retained = None, !.forced = TRUE, !.drained = FALSE]

\* Revoke: names the newest epoch or does nothing.
ManagerRevoke(m, epoch) ==
    IF epoch # m.epoch THEN None
    ELSE [(IF m.retained = None THEN m ELSE ForceRetired(m)) EXCEPT !.owner = None]

\* What the manager notices by itself: a deadline that passed, or a socket
\* whose other end is gone.  Its clock stands still in suspend, so an expiry
\* may come any time after the deadline.
OwnerGone ==
    /\ mgr.owner # None
    /\ mgr.owner.tx \in lapsed \/ mgr.owner.tx \notin workers
    /\ mgr' = [mgr EXCEPT !.owner = None]
    /\ UNCHANGED <<ctl, guard, world>>

RetainedGone ==
    /\ mgr.retained # None
    /\ mgr.retained.tx \in lapsed \/ mgr.retained.tx \notin workers
    /\ mgr' = ForceRetired(mgr)
    /\ UNCHANGED <<ctl, guard, world>>

PendingExpires ==
    /\ mgr.pending # None /\ mgr.pending.tx \in late
    /\ mgr' = [mgr EXCEPT !.pending = None,
                          !.last = [txn |-> mgr.pending, phase |-> "expired"]]
    /\ UNCHANGED <<ctl, guard, world>>

PendingFails ==
    /\ mgr.pending # None /\ mgr.pending.tx \notin workers
    /\ mgr' = [mgr EXCEPT !.pending = None,
                          !.last = [txn |-> mgr.pending, phase |-> "aborted"]]
    /\ UNCHANGED <<ctl, guard, world>>

-----------------------------------------------------------------------------
(* The authority endpoint                                                  *)

NewController ==
    [by |-> 1,              \* controller epoch; the agent's incarnation
     binding |-> 1,         \* owner epoch of Controller.binding
     owned |-> TRUE,        \* owner_active
     pending |-> None,      \* staged envelope
     active |-> None,       \* applied envelope
     cand |-> None,         \* owner_candidate
     term |-> None,         \* owner_terminal
     rev |-> 0, epoch |-> 0, \* high-water marks
     cancelled |-> None,    \* precommit_cancelled
     isolated |-> None,     \* isolated_committed
     retired |-> None]      \* retired_expired_commit

\* reconcile_owner: the manager decides what became of the record the
\* endpoint kept before it enqueued a preparation.
ReconcileOwner(c, m) ==
    LET r == c.cand
        txn == Transaction(r.env, r.exp)
        held == r # None /\ m.pending = txn
        done == r # None /\ ~held /\ m.last # None /\ m.last.txn = txn
        owns(e) == Epoch(m.owner) = e.epoch
        term == IF done THEN [env |-> r.env, exp |-> r.exp, phase |-> m.last.phase]
                ELSE c.term
        active == IF done /\ m.last.phase = "committed"
                  THEN IF owns(r.env) THEN r.env ELSE None
                  ELSE c.active
    IN [c EXCEPT
          !.cand = IF held THEN [r EXCEPT !.prepared = TRUE] ELSE None,
          !.pending = IF done /\ c.pending = r.env THEN None ELSE c.pending,
          !.active = IF term # None /\ active = term.env /\ ~owns(term.env)
                     THEN None ELSE active,
          !.term = IF /\ term # None
                      /\ \/ m.last = None
                         \/ m.last.txn # Transaction(term.env, term.exp)
                   THEN None ELSE term]

\* reconcile: a staged envelope whose epoch the manager has reached was
\* attached, whatever its answer was.  `owned` leaves out the end of the
\* owner's authorization, which the guard acts on.
Reconcile(c, m) ==
    LET r == ReconcileOwner(c, m)
        attached == r.pending # None /\ r.pending.epoch = m.epoch
        active == IF attached THEN r.pending ELSE r.active
    IN [r EXCEPT
          !.pending = IF attached THEN None ELSE r.pending,
          !.active = active,
          !.epoch = Larger(r.epoch, m.epoch),
          !.binding = IF m.owner # None THEN m.owner.epoch
                      ELSE IF active # None /\ active.epoch = m.epoch
                           THEN active.epoch ELSE r.binding,
          !.owned = m.owner # None]

\* validate_envelope: from this controller, for a live candidate, in time.
Valid(c, e) == e.by = c.by /\ e.tx \in workers /\ e.tx \notin lapsed

\* owner_record: the record of a transaction that is prepared or ended.
OwnerRecord(c, tx) ==
    IF c.cand # None /\ c.cand.env.tx = tx THEN [env |-> c.cand.env, exp |-> c.cand.exp]
    ELSE IF c.term # None /\ c.term.env.tx = tx THEN [env |-> c.term.env, exp |-> c.term.exp]
    ELSE None

\* What a request comes to: the endpoint's and the manager's state after it
\* and whether it was accepted.
Done(c, m, ok) == [ctl |-> c, mgr |-> m, ok |-> ok]

Refused(c) == Done(c, mgr, FALSE)

\* apply_owner_change: the endpoint reconciles with the outcome, refused or
\* not.
Applied(c, m) ==
    IF m = None THEN Done(Reconcile(c, mgr), mgr, FALSE)
    ELSE Done(Reconcile(c, m), m, TRUE)

IsTx(e, tx) == e # None /\ e.tx = tx

StageAuthority(c, e) ==
    IF ~Valid(c, e) \/ IsTx(c.retired, e.tx) \/ IsTx(c.cancelled, e.tx)
    THEN Refused(c)
    ELSE IF e \in {c.pending, c.active} THEN Done(c, mgr, TRUE)
    ELSE IF c.pending # None \/ e.rev <= c.rev \/ e.epoch <= Larger(c.binding, c.epoch)
    THEN Refused(c)
    ELSE Done([c EXCEPT !.rev = e.rev, !.epoch = e.epoch, !.pending = e], mgr, TRUE)

AttachAuthorized(c, e) ==
    IF c.cand # None \/ c.pending # e \/ ~Valid(c, e) \/ ManagerAttach(mgr, e) = None
    THEN Refused(c)
    ELSE Applied(c, ManagerAttach(mgr, e))

RevokeExact(c, tx) ==
    IF ~IsTx(c.active, tx) \/ c.binding # c.active.epoch
       \/ ManagerRevoke(mgr, c.active.epoch) = None
    THEN Refused(c)
    ELSE Applied(c, ManagerRevoke(mgr, c.active.epoch))

DiscardAuthority(c, tx) ==
    IF (c.cand # None /\ c.cand.env.tx = tx) \/ ~IsTx(c.pending, tx)
    THEN Refused(c)
    ELSE Done([c EXCEPT !.pending = None], mgr, TRUE)

\* ProbeTransaction: refused for a transaction the manager does not know.
ProbeTransaction(c, tx) ==
    LET known(t) == t # None /\ t.tx = tx
    IN Done(c, mgr, known(mgr.pending) \/ (mgr.last # None /\ known(mgr.last.txn)))

\* PrepareOwner: the record is kept before the manager is asked.
PrepareOwner(c, e, exp) ==
    LET known == OwnerRecord(c, e.tx)
    IN IF \/ ~Valid(c, e) \/ IsTx(c.cancelled, e.tx) \/ IsTx(c.retired, e.tx)
          \/ /\ known = None
             /\ (exp # Epoch(mgr.owner) \/ c.pending # e \/ e.tx \in late)
          \/ known # None /\ known # [env |-> e, exp |-> exp]
       THEN Refused(c)
       ELSE Applied(IF known # None THEN c
                    ELSE [c EXCEPT !.cand = [env |-> e, exp |-> exp, prepared |-> FALSE]],
                    ManagerPrepare(mgr, Transaction(e, exp)))

\* CommitOwner, FinishOwnerDrain, RetireOwnerAfterFailure: the kept envelope
\* is checked again, under the present controller, unless it is committed.
OwnerTransaction(c, e) ==
    LET known == OwnerRecord(c, e.tx)
        committed == c.term # None /\ c.term.env = e /\ c.term.phase = "committed"
    IN IF \/ IsTx(c.retired, e.tx) \/ known = None \/ known.env # e
          \/ ~committed /\ ~Valid(c, [e EXCEPT !.by = c.by])
       THEN None
       ELSE Transaction(known.env, known.exp)

OwnerChange(c, t, m) == IF t = None THEN Refused(c) ELSE Applied(c, m)

CommitOwner(c, e) ==
    LET t == OwnerTransaction(c, e) IN OwnerChange(c, t, ManagerCommit(mgr, t))

FinishOwnerDrain(c, e, empty) ==
    LET t == OwnerTransaction(c, e)
    IN OwnerChange(c, t, ManagerFinishDrain(mgr, t, empty))

RetireOwnerAfterFailure(c, e) ==
    LET t == OwnerTransaction(c, e) IN OwnerChange(c, t, ManagerRetire(mgr, t))

\* Faulty variant: cancelled on the endpoint's word, without asking the manager.
RecoverPrecommitUnasked(c, e, exp) ==
    IF c.active = e \/ c.pending \notin {None, e} \/ c.rev > e.rev \/ c.epoch > e.epoch
    THEN Refused(c)
    ELSE Done([c EXCEPT !.pending = None, !.cancelled = e, !.rev = e.rev,
                        !.epoch = e.epoch], mgr, TRUE)

\* RecoverPrecommit: a transaction the manager knows is only reported; one
\* it does not know is cancelled for good while the old owner is in place.
RecoverPrecommit(c, e, exp) ==
    LET in(t) == t # None /\ t.tx = e.tx
    IN IF in(mgr.pending) \/ (mgr.last # None /\ in(mgr.last.txn))
       THEN Done(c, mgr, OwnerRecord(c, e.tx) = [env |-> e, exp |-> exp])
       ELSE IF \/ Epoch(mgr.owner) # exp \/ mgr.pending # None \/ mgr.retained # None
               \/ mgr.rev >= e.rev \/ c.active = e \/ c.pending \notin {None, e}
               \/ c.rev > e.rev \/ c.epoch > e.epoch
       THEN Refused(c)
       ELSE Done([c EXCEPT !.pending = None, !.cancelled = e, !.rev = e.rev,
                           !.epoch = e.epoch], mgr, TRUE)

\* IsolateCommittedOwner: a committed owner that is dead or revoked is
\* fenced together with the predecessor it retained.
IsolateCommittedOwner(c, e, exp) ==
    LET m == ManagerRevoke(mgr, e.epoch)
        after == Applied(c, m)
    IN IF \/ OwnerRecord(c, e.tx) # [env |-> e, exp |-> exp]
          \/ ~HasCommitted(mgr, Transaction(e, exp))
          \/ mgr.rev # e.rev \/ mgr.epoch # e.epoch \/ mgr.pending # None
          \/ Epoch(mgr.owner) \notin {None, e.epoch}
          \/ Epoch(mgr.retained) \notin {None, exp}
          \/ mgr.owner # None /\ e.tx \in workers
       THEN Refused(c)
       ELSE [after EXCEPT !.ctl.isolated = e]

\* RetireExpiredCommit: the commit intent ended as an expired preparation
\* with the old owner still in place.
RetireExpiredCommit(c, e, exp) ==
    IF \/ OwnerRecord(c, e.tx) # [env |-> e, exp |-> exp]
       \/ mgr.last = None \/ mgr.last # [txn |-> Transaction(e, exp), phase |-> "expired"]
       \/ mgr.rev # e.rev \/ mgr.owner = None \/ Epoch(mgr.owner) # exp
       \/ mgr.pending # None \/ mgr.retained # None \/ c.pending # None
    THEN Refused(c)
    ELSE Done([c EXCEPT !.retired = e], mgr, TRUE)

\* owner_receipt: what a reply says of the transaction.
Receipt(c, e) ==
    IF c.cand # None /\ c.cand.prepared /\ c.cand.env.tx = e.tx THEN "prepared"
    ELSE IF c.term # None /\ c.term.env.tx = e.tx THEN c.term.phase
    ELSE None

-----------------------------------------------------------------------------
(* The boot-clock guard                                                    *)

\* The owner it copied is the one the endpoint believes in, not necessarily
\* the manager's.
GuardReads ==
    /\ guard = None /\ ctl.owned
    /\ (IF ctl.active = None THEN 0 ELSE ctl.active.tx) \in lapsed
    /\ guard' = [active |-> ctl.active, binding |-> ctl.binding, revoked |-> FALSE]
    /\ UNCHANGED <<mgr, ctl, world>>

\* Faulty variant: revokes whatever epoch is current.
GuardRevokesCurrent ==
    /\ guard # None /\ ~guard.revoked
    /\ guard' = [guard EXCEPT !.revoked = TRUE]
    /\ mgr' = ManagerRevoke(mgr, mgr.epoch)
    /\ UNCHANGED <<ctl, world>>

GuardRevokes ==
    /\ guard # None /\ ~guard.revoked
    /\ LET m == ManagerRevoke(mgr, guard.binding)
       IN IF m = None THEN guard' = None /\ mgr' = mgr
          ELSE /\ guard' \in {None, [guard EXCEPT !.revoked = TRUE]}  \* its answer may be late
               /\ mgr' = m
    /\ UNCHANGED <<ctl, world>>

\* It clears only what it copied, and nothing while a request is served.
GuardClears ==
    /\ guard # None /\ guard.revoked
    /\ guard' = None
    /\ \/ UNCHANGED ctl
       \/ /\ ctl.binding = guard.binding /\ ctl.active = guard.active
          /\ ctl' = [ctl EXCEPT !.active = None, !.owned = FALSE]
    /\ UNCHANGED <<mgr, world>>

-----------------------------------------------------------------------------
(* Time and the workers, from outside                                      *)

Tick(t) ==
    /\ t \in Txs \ (late \cup {0})
    /\ late' = late \cup {t}
    /\ UNCHANGED <<tunio, workers, lapsed>>

Lapse(t) ==
    /\ t \in (late \cup {0}) \ lapsed
    /\ lapsed' = lapsed \cup {t}
    /\ UNCHANGED <<tunio, workers, late>>

WorkerExits(t) ==
    /\ t \in workers
    /\ workers' = workers \ {t}
    /\ UNCHANGED <<tunio, late, lapsed>>

TunioInit ==
    /\ mgr = NewManager /\ ctl = NewController /\ guard = None
    /\ workers = {0} /\ late = {} /\ lapsed = {}

=============================================================================
