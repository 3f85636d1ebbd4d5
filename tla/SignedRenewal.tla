---------------------------- MODULE SignedRenewal ----------------------------
(***************************************************************************)
(* The agent's renewal of a signed authorization (candy-sdwan-agent:       *)
(* signed_renewal.rs, signed_mbb.rs, candidate_ownership.rs) against the   *)
(* packet port of TunioAuthority and netd's forwarding owner.              *)
(*                                                                         *)
(* A renewal replaces the business worker that reads and writes the TUN    *)
(* device.  While the old worker lives this is make-before-break: the new  *)
(* worker is prepared beside it, committed, the old one drained, and only  *)
(* then does netd forward for the new owner.  Without a live old worker    *)
(* the new one is simply attached.  The journal (renewal.json) is written  *)
(* before every request whose outcome could be lost, and a run that ends   *)
(* in an error is repeated from the journal.                               *)
(*                                                                         *)
(* The agent is one thread; `ag.pc` is the request it sends next.  An      *)
(* error returns to "idle" and drops the descriptor of the new worker, so  *)
(* it differs from a crash only in the controller that comes back.  Core   *)
(* is external: an exchange with it succeeds while its worker runs, or     *)
(* fails.  netd is its forwarding owner and candidate (NetdForward has the *)
(* rest); it settles expired leases before every request.  The process     *)
(* that holds the TUN device does not end: with it everything here would   *)
(* end too.                                                                *)
(***************************************************************************)
EXTENDS TunioAuthority

CONSTANTS
    UnknownProbeRefused,  \* ProbeTransaction as it is: unknown is refused
    MaxErrors,            \* bound on exchanges that are lost or fail
    MaxDeaths             \* bound on crashes, dead workers, ended leases

ASSUME RenewalAssumption ==
    UnknownProbeRefused \in BOOLEAN /\ MaxErrors \in Nat /\ MaxDeaths \in Nat

VARIABLES
    jr,      \* renewal.json, or None
    orec,    \* process record of the owner: the worker it names
    crec,    \* the journal's candidate_record exists
    fw,      \* netd: forwarding owner, candidate, last fencing token
    ended,   \* fencing tokens whose lease ended
    ag,      \* the agent process
    serial,  \* transactions begun
    errors, deaths   \* how many so far

files == <<jr, orec, crec>>

vars == <<tunio, world, files, fw, ended, ag, serial, errors, deaths>>

-----------------------------------------------------------------------------
(* State                                                                   *)

\* A start of run: `by` is the process, `act` the answer to the discovery
\* probe, `binding` the packet port's status, `epoch` and `fence` what the
\* journal consumed, each for as long as it is used; `live` that
\* netd said it forwards, `fd` that the new worker's descriptor is held,
\* `att` that it was attached, `failed` that the predecessor is retired
\* without a drain.
At(by, pc) ==
    [pc |-> pc, by |-> by, act |-> None, binding |-> 0, epoch |-> 0, fence |-> 0,
     live |-> FALSE, fd |-> FALSE, att |-> FALSE, failed |-> FALSE]

Idle == At(ag.by, "idle")

Go(pc) == [ag EXCEPT !.pc = pc]

Serve == At(ag.by, "serve")

\* ForwardOwner; `cut` when its deadlines were cut to what the packet port
\* applied, which makes it another owner to netd.
ForwardOwner(tx, epoch, fence, cut) ==
    [tx |-> tx, epoch |-> epoch, fence |-> fence, cut |-> cut]

Ended(o) == o.fence \in ended \/ o.tx \in lapsed

NewForward ==
    [owner |-> ForwardOwner(0, 1, 1, TRUE), phase |-> "Active", cand |-> None,
     auth |-> FALSE, last |-> 1]

MbbPhases ==
    {"mbb_reserving", "mbb_reserved", "mbb_registered", "mbb_prepare_pending",
     "mbb_peer_install_pending", "mbb_commit_pending", "mbb_outbound_committed",
     "mbb_bilateral_drained", "mbb_failed_retirement_pending",
     "mbb_failed_drain_preserved", "mbb_failed_retirement_finalized",
     "mbb_committed_isolating", "mbb_peer_reconciliation_pending"}

\* The phases of a renewal that attaches its worker, and of one that is over.
Phases ==
    MbbPhases \cup
    {"verified", "old_worker_guarded", "registered", "barrier", "attached",
     "commit_pending", "retry_wait", "committed", "committed_owner_isolated"}

ForwardOwners == [tx : Nat, epoch : Int, fence : Int, cut : BOOLEAN]

\* CandidateOwner, the durable half of an owner transaction, and the journal.
Candidates ==
    [exp : Int, intent : BOOLEAN, cancelled : BOOLEAN, failure : BOOLEAN,
     isolated : BOOLEAN, retired : BOOLEAN]

Journals ==
    [phase : Phases, tx : Nat, rev : Int, env : Opt(Envelopes), old : Int,
     owner : ForwardOwners, co : Opt(Candidates), res : BOOLEAN, fret : BOOLEAN,
     outcome : Opt({"failed", "drained", "local_expired"})]

\* The port's state as the discovery probe answers it, and netd's.
PortStates ==
    [active : Opt(Envelopes), pending : Opt(Envelopes), owned : BOOLEAN, rev : Int]

Forwards ==
    [owner : ForwardOwners, phase : {"Active", "Guarded", "Revoked"},
     cand : Opt(ForwardOwners), auth : BOOLEAN, last : Int]

ASSUME NoneRenewalAssumption ==
    None \notin ForwardOwners \cup Candidates \cup Journals \cup PortStates
                \cup Forwards

NewCandidate(exp) ==
    [exp |-> exp, intent |-> FALSE, cancelled |-> FALSE, failure |-> FALSE,
     isolated |-> FALSE, retired |-> FALSE]

Init ==
    /\ TunioInit
    /\ jr = None /\ orec = 0 /\ crec = FALSE
    /\ fw = NewForward /\ ended = {}
    /\ ag = At(1, "idle") /\ serial = 0 /\ errors = 0 /\ deaths = 0

-----------------------------------------------------------------------------
(* Exchanges                                                               *)

Fault == errors < MaxErrors /\ errors' = errors + 1 /\ UNCHANGED deaths

Death == deaths < MaxDeaths /\ deaths' = deaths + 1 /\ UNCHANGED errors

NoFault == UNCHANGED <<errors, deaths>>

\* exchange_authority: a refusal and a lost answer are both errors, and a
\* lost answer may or may not have been applied.
Ask(reply, Yes, No) ==
    \E r \in {reply} :
        \/ r.ok /\ Yes /\ mgr' = r.mgr /\ ctl' = r.ctl /\ NoFault
        \/ ~r.ok /\ No /\ mgr' = r.mgr /\ ctl' = r.ctl /\ NoFault
        \/ /\ Fault /\ No
           /\ \/ UNCHANGED <<mgr, ctl>>
              \/ mgr' = r.mgr /\ ctl' = r.ctl

\* netd's answer: its next state, or None when it refuses.
AskNetd(reply, Yes, No) ==
    \E f \in {reply} :
        \/ f # None /\ Yes /\ fw' = f /\ NoFault
        \/ f = None /\ No /\ NoFault /\ UNCHANGED fw
        \/ Fault /\ No /\ fw' \in {fw, IF f = None THEN fw ELSE f}

\* An exchange with a worker, or a file operation: it works or it fails.
Works(able, Yes, No) ==
    \/ able /\ Yes /\ NoFault
    \/ ~able /\ No /\ NoFault
    \/ able /\ Fault /\ No

\* Every request is served by an endpoint that has just reconciled.
Now == Reconcile(ctl, mgr)

Keep == UNCHANGED <<guard, late, lapsed, ended>>

\* Steps that ask the packet port, netd, or neither.
PortOnly == Keep /\ UNCHANGED <<workers, orec, crec, fw, serial>>

NetdOnly == Keep /\ UNCHANGED <<mgr, ctl, workers, orec, crec, serial>>

Local == Keep /\ UNCHANGED <<mgr, ctl, fw>>

-----------------------------------------------------------------------------
(* netd                                                                    *)

\* recover_expired, which runs before every request.
Settled ==
    [fw EXCEPT
       !.cand = IF @ # None /\ Ended(@) THEN None ELSE @,
       !.auth = IF fw.cand # None /\ Ended(fw.cand) THEN FALSE ELSE @,
       !.phase = IF Ended(fw.owner) THEN "Revoked" ELSE @]

NetdPrepare(o) ==
    LET f == Settled
    IN IF Ended(o) THEN None
       ELSE IF f.cand = o THEN f
       ELSE IF f.cand # None \/ o.fence <= f.last \/ o.epoch < f.owner.epoch THEN None
       ELSE [f EXCEPT !.cand = o, !.auth = FALSE, !.last = o.fence]

NetdAuthorize(o) ==
    IF Ended(o) \/ Settled.cand # o THEN None ELSE [Settled EXCEPT !.auth = TRUE]

\* ForwardCommitAuthorized: the worker that is to own must run.
NetdCommit(o) ==
    LET f == Settled
    IN IF Ended(o) \/ o.tx \notin workers THEN None
       ELSE IF f.owner = o /\ f.phase = "Active" THEN f
       ELSE IF f.cand # o \/ ~f.auth THEN None
       ELSE [f EXCEPT !.owner = o, !.phase = "Active", !.cand = None, !.auth = FALSE]

NetdGuard(o) ==
    IF Ended(o) \/ Settled.owner # o \/ Settled.phase \notin {"Active", "Guarded"}
    THEN None
    ELSE [Settled EXCEPT !.phase = "Guarded"]

NetdRevoke(o) ==
    LET f == Settled
    IN IF f.cand = o THEN [f EXCEPT !.cand = None, !.auth = FALSE]
       ELSE IF f.owner = o
       THEN [f EXCEPT !.phase = "Revoked", !.cand = None, !.auth = FALSE]
       ELSE None

NetdPoll ==
    /\ Settled # fw
    /\ fw' = Settled
    /\ UNCHANGED <<tunio, world, files, ended, ag, serial, errors, deaths>>

\* forward_replay: what is left to do for this owner, None on a conflict.
ForwardReplay(f, o) ==
    IF f.cand # None THEN IF f.cand = o THEN "prepared" ELSE None
    ELSE IF f.owner = o THEN IF f.phase = "Active" THEN "active" ELSE None
    ELSE IF f.last < o.fence /\ f.owner.fence < o.fence THEN "prepare" ELSE None

\* mbb_repair_expired_lease: the same authority under the next fence, once
\* netd has reclaimed the expired owner.
RepairExpiredLease(f, o) ==
    IF o.fence \notin ended THEN o
    ELSE IF /\ f.cand = None /\ f.last <= o.fence
            /\ (f.owner = o /\ f.phase = "Revoked") \/ f.owner.fence < o.fence
         THEN [o EXCEPT !.fence = @ + 1]
         ELSE None

-----------------------------------------------------------------------------
(* What the agent makes of an answer                                       *)

Env == jr.env

Runs(t) == t \in workers

\* observe: the state of the owner transaction, or "error".
Observe(c, m) ==
    LET p == Receipt(c, Env)
        owner == Epoch(m.owner)
    IN CASE p = None -> "unknown"
         [] p = "prepared" ->
              IF c.pending = Env /\ owner = jr.co.exp /\ c.owned THEN p ELSE "error"
         [] p = "committed" ->
              IF c.active = Env /\ c.owned /\ owner = Env.epoch THEN p ELSE "error"
         [] OTHER ->
              IF c.active # Env /\ owner # Env.epoch THEN p ELSE "error"

\* Faulty variant: a staged envelope counts as applied.
AppliesOnceStaged(c) ==
    Env = c.pending \/ (c.active = Env /\ c.binding = Env.epoch)

\* The reply that the packet port applies this transaction now.
Applies(c) == c.active = Env /\ c.binding = Env.epoch

\* require_committed_outcome: committed once, whatever became of the owner.
CommittedOutcome(c, m) ==
    /\ jr.co.intent /\ Receipt(c, Env) = "committed"
    /\ m.rev = Env.rev /\ c.pending = None
    /\ Epoch(m.owner) \in {None, Env.epoch}
    /\ Epoch(m.retained) \in {None, jr.co.exp}

Drained(m) == m.drained /\ ~m.forced /\ m.retained = None

\* require_failed_retirement_receipt.
FailedRetirement(c, m) ==
    /\ Observe(c, m) = "committed" /\ c.binding = Env.epoch
    /\ m.forced /\ ~m.drained /\ m.retained = None /\ c.pending = None
    /\ jr.tx \in late \ lapsed

Phase(p) == [jr EXCEPT !.phase = p]

\* mbb_precommit_peer_outcome_pending.
PeerPending == jr' = Phase("mbb_peer_reconciliation_pending") /\ ag' = Idle

Same == UNCHANGED <<jr>>

Fail == ag' = Idle /\ Same

-----------------------------------------------------------------------------
(* run_with_plan: discovery, and what the journal says                     *)

\* adopt_worker_with_io supervises until there is a reason to renew: a new
\* authorization, or a worker or owner that is gone.
Renew ==
    /\ ag.pc = "serve"
    /\ ag' = Idle
    /\ Local /\ NoFault
    /\ UNCHANGED <<workers, files, serial>>

\* Where a run continues: an unfinished make-before-break is repeated, any
\* other unfinished journal is undone or completed.
Route ==
    IF jr = None THEN "fresh"
    ELSE IF jr.phase = "committed" THEN "retire"
    ELSE IF jr.res \/ jr.phase \in MbbPhases THEN "mbb"
    ELSE "recover"

\* Takeover, and a probe with a transaction id nobody has seen: it is to
\* tell the state of the packet port.  The binding is read before it.
Discover ==
    /\ ag.pc = "idle"
    /\ \E c \in {Reconcile([ctl EXCEPT !.by = ag.by], mgr)} :
       LET act == [active |-> c.active, pending |-> c.pending, owned |-> c.owned,
                   rev |-> c.rev]
       IN Ask(Done(c, mgr, ~UnknownProbeRefused),
              ag' = IF Route = "mbb"
                    THEN [At(ag.by, "mbb") EXCEPT
                            !.binding = IF jr.env = None THEN ctl.binding ELSE 0]
                    ELSE [At(ag.by, Route) EXCEPT
                            !.act = act, !.binding = ctl.binding,
                            !.epoch = IF jr = None THEN 0 ELSE jr.owner.epoch,
                            !.fence = IF jr = None THEN 0 ELSE jr.owner.fence],
              ag' = Idle)
    /\ PortOnly /\ Same

\* stop_record: nothing to do for a worker that is not running.
Stop(t, Yes, No) ==
    \/ workers' = workers \ {t} /\ Yes /\ NoFault
    \/ t \in workers /\ Fault /\ No /\ UNCHANGED workers

\* A committed journal: its predecessor is stopped, and its owner adopted
\* unless it is gone or the authorization changed.
RetireCommitted ==
    /\ ag.pc = "retire"
    /\ LET same == /\ ag.act.owned /\ jr.env = ag.act.active
                   /\ Runs(orec)
       IN Stop(jr.old,
               \/ same /\ ag' = Serve
               \/ ~same /\ ag' = Go("fresh")
               \/ same /\ serial < MaxTx /\ ag' = Go("fresh"),
               ag' = Idle)
    /\ crec' = FALSE
    /\ Local /\ UNCHANGED <<jr, orec, serial>>

\* next_authority_epochs and the next revision; the journal comes first.
NewJournal(mbb) ==
    LET tx == serial + 1
        epoch == 1 + Larger(ag.binding, Larger(ag.epoch, Settled.owner.epoch))
        fence == 1 + Larger(ag.fence, Settled.last)
    IN [phase |-> IF mbb THEN "mbb_reserving" ELSE "verified",
        tx |-> tx, rev |-> ag.act.rev + 1, env |-> None, old |-> orec,
        owner |-> ForwardOwner(tx, epoch, fence, FALSE), co |-> None,
        res |-> FALSE, fret |-> FALSE, outcome |-> None]

\* renewal_requires_negotiated_mbb: an owner that may be live is never
\* replaced by an attach.  The new authorization may also fail to compile.
\* The journal is published once; that a make-before-break renewal first
\* writes it as "verified", and that a worker on a shared listener is spawned
\* before the predecessor is guarded, are left out.
Fresh ==
    /\ ag.pc = "fresh"
    /\ LET mbb == ag.act.owned /\ Runs(orec)
           able == serial < MaxTx /\ ag.act.pending = None /\ Settled.cand = None
       IN \/ /\ able /\ NoFault
             /\ jr' = NewJournal(mbb)
             /\ serial' = serial + 1
             /\ ag' = IF mbb THEN [At(ag.by, "mReserve") EXCEPT !.binding = ag.binding]
                      ELSE [At(ag.by, "lGuard") EXCEPT
                              !.live = Settled.phase \in {"Active", "Guarded"}]
          \/ /\ ag' = Idle /\ NoFault
             /\ UNCHANGED <<jr, serial>>
    /\ Local /\ UNCHANGED <<workers, orec, crec>>

Envelope == [tx |-> jr.tx, rev |-> jr.rev, epoch |-> jr.owner.epoch, by |-> ag.by]

\* The worker is spawned, its record published, its envelope journaled: a
\* crash in between leaves a worker without a record or without an envelope.
Spawn(j, pc) ==
    \/ /\ NoFault
       /\ workers' = workers \cup {jr.tx} /\ crec' = TRUE /\ jr' = j
       /\ ag' = [At(ag.by, pc) EXCEPT !.fd = TRUE]
    \/ /\ Death
       /\ workers' = workers \cup {jr.tx} /\ crec' \in BOOLEAN
       /\ ag' = At(ag.by + 1, "idle")
       /\ UNCHANGED jr

-----------------------------------------------------------------------------
(* run_with_plan without a live predecessor                                *)

\* A live forwarding owner is guarded before its worker is replaced.
LegacyGuard ==
    /\ ag.pc = "lGuard"
    /\ IF ag.live
       THEN AskNetd(NetdGuard(fw.owner),
                    jr' = Phase("old_worker_guarded") /\ ag' = Go("lSpawn"),
                    Fail)
       ELSE Same /\ ag' = Go("lSpawn") /\ UNCHANGED fw /\ NoFault
    /\ NetdOnly

LegacySpawn ==
    /\ ag.pc = "lSpawn"
    /\ Spawn([Phase("registered") EXCEPT !.env = Envelope], "lStage")
    /\ Local /\ UNCHANGED <<orec, serial>>

LegacyStage ==
    /\ ag.pc = "lStage"
    /\ \E c \in {Now} : Ask(StageAuthority(c, Env),
           jr' = Phase("barrier") /\ ag' = Go("lAttach"),
           ag' = Go("lUndo") /\ Same)
    /\ PortOnly

LegacyAttach ==
    /\ ag.pc = "lAttach"
    /\ \E c \in {Now} : Ask(AttachAuthorized(c, Env),
           ag' = [At(ag.by, "lPrepare") EXCEPT !.att = TRUE],
           ag' = Go("lProbe"))
    /\ PortOnly /\ Same

\* A schema-2 probe, which answers with what is applied.
LegacyProbe ==
    /\ ag.pc = "lProbe"
    /\ \E c \in {Now} : Ask(Done(c, mgr, Applies(c)),
           ag' = [At(ag.by, "lPrepare") EXCEPT !.att = TRUE],
           ag' = Go("lUndo"))
    /\ PortOnly /\ Same

\* The journal learns the cut owner only after netd has it.
Cut == [jr.owner EXCEPT !.cut = TRUE]

LegacyPrepare ==
    /\ ag.pc = "lPrepare"
    /\ AskNetd(NetdPrepare(Cut), ag' = Go("lAuthorize"), ag' = Go("lUndo"))
    /\ NetdOnly /\ Same

LegacyAuthorize ==
    /\ ag.pc = "lAuthorize"
    /\ AskNetd(NetdAuthorize(Cut),
               /\ jr' = [Phase("attached") EXCEPT !.owner = Cut]
               /\ ag' = Go("lReady"),
               ag' = Go("lUndo") /\ Same)
    /\ NetdOnly

\* Core's readiness, and a fresh probe of what the packet port applied.
LegacyReady ==
    /\ ag.pc = "lReady"
    /\ \E c \in {Now} :
          Ask(Done(c, mgr, Applies(c) /\ c.owned /\ Runs(jr.tx)),
              jr' = Phase("commit_pending") /\ ag' = Go("lCommit"),
              ag' = Go("lUndo") /\ Same)
    /\ PortOnly

\* From here an error leaves the journal to be completed.
LegacyCommit ==
    /\ ag.pc = "lCommit"
    /\ AskNetd(NetdCommit(jr.owner), ag' = At(ag.by, "records"), ag' = Idle)
    /\ NetdOnly /\ Same

\* The error path before commit_pending: worker, netd and packet port.
LegacyUndo ==
    /\ ag.pc = "lUndo"
    /\ AskNetd(NetdRevoke(IF ag.att THEN Cut ELSE jr.owner),
               ag' = Go("lDrop"), ag' = Go("lDrop"))
    /\ workers' = workers \ {jr.tx}
    /\ Keep /\ UNCHANGED <<mgr, ctl, files, serial>>

LegacyDrop ==
    /\ ag.pc = "lDrop"
    /\ \E c \in {Now} : Ask(IF ag.att THEN RevokeExact(c, jr.tx) ELSE DiscardAuthority(c, jr.tx),
           ag' = Idle, ag' = Idle)
    /\ jr' = [Phase("retry_wait") EXCEPT !.owner = IF ag.att THEN Cut ELSE @]
    /\ PortOnly

-----------------------------------------------------------------------------
(* run_with_plan: a journal that is neither committed nor make-before-break *)

\* Faulty variant: an interrupted renewal is always taken back.
RecoverByUndoing ==
    /\ ag.pc = "recover"
    /\ ag' = Go("rStop")
    /\ Local /\ NoFault /\ UNCHANGED <<workers, files, serial>>

\* A worker no record names may only be waited for.
Recover ==
    /\ ag.pc = "recover"
    /\ LET next ==
             IF jr.env = None
             THEN IF crec \/ ~Runs(jr.tx) THEN "rStop" ELSE "idle"
             ELSE IF ag.act.active = Env /\ ag.act.owned /\ crec /\ Runs(jr.tx)
             THEN "rNetd" ELSE "rStop"
       IN ag' = IF next = "idle" THEN Idle ELSE Go(next)
    /\ Local /\ NoFault /\ UNCHANGED <<workers, files, serial>>

\* The journal's owner is applied: netd is brought to forward for it.  A
\* live owner is guarded, an expired one revoked, before it is replaced.
RecoverNetd ==
    /\ ag.pc = "rNetd"
    /\ IF jr.owner \in {Settled.owner, Settled.cand}
       THEN AskNetd(Settled, ag' = At(ag.by, "rReady"), ag' = Idle)
       ELSE AskNetd(IF Settled.cand # None THEN Settled
                    ELSE IF Settled.phase = "Revoked" THEN NetdRevoke(fw.owner)
                    ELSE NetdGuard(fw.owner),
                    ag' = At(ag.by, "rPrepare"), ag' = Idle)
    /\ NetdOnly /\ Same

RecoverPrepare ==
    /\ ag.pc = "rPrepare"
    /\ AskNetd(NetdPrepare(Cut), ag' = Go("rAuthorize"), ag' = Idle)
    /\ NetdOnly /\ Same

RecoverAuthorize ==
    /\ ag.pc = "rAuthorize"
    /\ AskNetd(NetdAuthorize(Cut),
               jr' = [jr EXCEPT !.owner = Cut] /\ ag' = Go("rReady"),
               Fail)
    /\ NetdOnly

\* The worker of the recorded transaction is asked once more.  A netd that
\* already forwards for it is not asked to commit in the code; here it is, and
\* accepts.
RecoverReady ==
    /\ ag.pc = "rReady"
    /\ Works(Runs(jr.tx), ag' = Go("proof"), ag' = Idle)
    /\ Local /\ UNCHANGED <<workers, files, serial>>

\* Faulty variant: the packet port is not asked to forget the transaction.
RecoverStopOnly ==
    /\ ag.pc = "rStop"
    /\ Stop(jr.tx, ag' = Go("rRetire"), ag' = Idle)
    /\ Local /\ UNCHANGED <<files, serial>>

\* Otherwise everything the transaction left is taken back: the worker,
RecoverStop ==
    /\ ag.pc = "rStop"
    /\ Stop(jr.tx, ag' = Go(IF jr.env = None THEN "rRetire" ELSE "rDrop"), ag' = Idle)
    /\ Local /\ UNCHANGED <<files, serial>>

\* the staged or applied envelope,
RecoverDrop ==
    /\ ag.pc = "rDrop"
    /\ \E c \in {Now} :
       \E r \in {IF ag.act.pending = Env THEN DiscardAuthority(c, jr.tx)
                 ELSE IF ag.act.active = Env THEN RevokeExact(c, jr.tx)
                 ELSE Done(ctl, mgr, TRUE)} :
       LET act == [ag.act EXCEPT !.active = r.ctl.active, !.pending = r.ctl.pending,
                                 !.owned = r.ctl.owned, !.rev = r.ctl.rev]
       IN Ask(r,
              ag' = [ag EXCEPT !.pc = "rRevoke", !.act = IF r.ctl = ctl THEN @ ELSE act],
              ag' = Idle)
    /\ PortOnly /\ Same

\* netd's owner,
RecoverRevoke ==
    /\ ag.pc = "rRevoke"
    /\ AskNetd(IF jr.owner \in {Settled.owner, Settled.cand}
               THEN NetdRevoke(jr.owner) ELSE Settled,
               ag' = Go("rRetire"), ag' = Idle)
    /\ NetdOnly /\ Same

\* and last the files and the journal.
RecoverRetire ==
    /\ ag.pc = "rRetire"
    /\ jr' = None /\ crec' = FALSE
    /\ ag' = Go("fresh")
    /\ Local /\ NoFault /\ UNCHANGED <<workers, orec, serial>>

-----------------------------------------------------------------------------
(* run_mbb_transaction                                                     *)

\* A durable commit intent is resolved before anything else.
MbbEnter ==
    /\ ag.pc = "mbb"
    /\ IF jr.co # None /\ jr.co.intent
       THEN \E c \in {Now} :
            LET next ==
                  IF Receipt(c, Env) = "expired" THEN Go("mExpired")
                  ELSE IF ~CommittedOutcome(c, mgr) THEN Go("mLook")
                  ELSE IF ~c.owned \/ ~Runs(jr.tx) THEN Go("mIsolate")
                  ELSE IF jr.tx \notin late THEN Go("mLook")
                  ELSE IF Drained(mgr) THEN Go("mFinal")
                  ELSE Go("mRetire")
            IN Ask(ProbeTransaction(c, jr.tx), ag' = next, ag' = Idle)
       ELSE /\ ag' = Go(IF ~jr.res THEN "mReserve"
                        ELSE IF jr.env = None THEN "mSpawn" ELSE "mLook")
            /\ UNCHANGED <<mgr, ctl>> /\ NoFault
    /\ PortOnly /\ Same

\* retire_expired_commit_with: the intent ended as an expired preparation.
MbbExpired ==
    /\ ag.pc = "mExpired"
    /\ \E c \in {Now} : \E r \in {RetireExpiredCommit(c, Env, jr.co.exp)} :
          Ask([r EXCEPT !.ok = @ /\ Observe(r.ctl, r.mgr) = "expired"
                                 /\ r.ctl.owned /\ r.ctl.binding = jr.co.exp],
              /\ jr' = [Phase("mbb_peer_reconciliation_pending") EXCEPT
                          !.co.retired = TRUE, !.outcome = "local_expired"]
              /\ ag' = Idle,
              Fail)
    /\ PortOnly

\* The old Core reserves the handoff with its peers.
MbbReserve ==
    /\ ag.pc = "mReserve"
    /\ Works(Runs(jr.old) /\ jr.tx \notin late,
             jr' = [Phase("mbb_reserved") EXCEPT !.res = TRUE] /\ ag' = Go("mSpawn"),
             Fail)
    /\ Local /\ UNCHANGED <<workers, orec, crec, serial>>

\* No envelope was written, so nothing was asked of the packet port: a
\* recorded worker is stopped and another one started.
MbbSpawn ==
    /\ ag.pc = "mSpawn"
    /\ IF crec THEN /\ Stop(jr.tx, crec' = FALSE /\ UNCHANGED ag, ag' = Idle /\ UNCHANGED crec)
                    /\ Same
       ELSE IF Runs(jr.tx) THEN Fail /\ NoFault /\ UNCHANGED <<workers, crec>>
       ELSE IF jr.tx \in late THEN PeerPending /\ NoFault /\ UNCHANGED <<workers, crec>>
       ELSE Spawn([Phase("mbb_registered") EXCEPT
                     !.env = Envelope, !.co = NewCandidate(ag.binding)], "mStage")
    /\ Local /\ UNCHANGED <<orec, serial>>

MbbStage ==
    /\ ag.pc = "mStage"
    /\ \E c \in {Now} : Ask(StageAuthority(c, Env),
           jr' = Phase("mbb_prepare_pending") /\ ag' = Go("mPrepare"),
           Fail)
    /\ PortOnly

\* prepare_with: an error is followed by a probe.
MbbPrepare ==
    /\ ag.pc = "mPrepare"
    /\ IF jr.tx \in late THEN ag' = Idle /\ UNCHANGED <<mgr, ctl>> /\ NoFault
       ELSE \E c \in {Now} : Ask(PrepareOwner(c, Env, jr.co.exp), ag' = Go("mLook"), ag' = Go("mLook"))
    /\ PortOnly /\ Same

\* What an observed state leads to.
Observed(s, c, m) ==
    IF s = "error" THEN Fail
    ELSE IF s = "committed" /\ ~Runs(jr.tx) THEN ag' = Go("mIsolate") /\ Same
    ELSE IF /\ s # "committed" /\ ~jr.co.intent
            /\ ~Runs(jr.tx) \/ jr.tx \in late
            /\ Epoch(m.owner) = jr.co.exp /\ c.active # Env
    THEN PeerPending
    ELSE IF s \notin {"prepared", "committed"} \/ ~Runs(jr.tx) THEN Fail
    ELSE Same /\ ag' = At(ag.by, IF s = "prepared" THEN "mInstall" ELSE "mConfirm")

\* recover_precommit_with: without the descriptor a transaction the packet
\* port does not know is cancelled, for good.
CancelConfirmed(r) ==
    /\ r.ctl.cancelled = Env /\ r.ctl.owned /\ r.ctl.binding = jr.co.exp
    /\ r.ctl.active # Env /\ r.ctl.pending = None /\ Receipt(r.ctl, Env) = None

MbbLook ==
    /\ ag.pc = "mLook"
    /\ \/ jr.phase = "mbb_peer_reconciliation_pending" /\ ~Runs(jr.tx)
          /\ Fail /\ UNCHANGED <<mgr, ctl>> /\ NoFault
       \/ /\ jr.phase = "mbb_peer_reconciliation_pending" => Runs(jr.tx)
          /\ IF ag.fd \/ jr.co.intent
             THEN \E c \in {Now} :
                  Ask(ProbeTransaction(c, jr.tx), Observed(Observe(c, mgr), c, mgr), Fail)
             ELSE \E c \in {Now} : \E r \in {RecoverPrecommit(c, Env, jr.co.exp)} :
                  Ask(r,
                      IF ~IsTx(r.ctl.cancelled, jr.tx)
                      THEN Observed(Observe(r.ctl, r.mgr), r.ctl, r.mgr)
                      ELSE IF ~CancelConfirmed(r) THEN Fail
                      ELSE /\ ag' = Idle
                           /\ jr' = [Phase("mbb_peer_reconciliation_pending") EXCEPT
                                       !.co.cancelled = TRUE],
                      Fail)
    /\ PortOnly

\* Core prepares and installs the candidate with every peer.
MbbInstall ==
    /\ ag.pc = "mInstall"
    /\ jr' = Phase("mbb_peer_install_pending")
    /\ Works(Runs(jr.tx) /\ jr.tx \notin lapsed, ag' = Go("mCommit"), ag' = Idle)
    /\ Local /\ UNCHANGED <<workers, orec, crec, serial>>

\* Faulty variant: the intent is written when the answer is there.
MbbCommitFirst ==
    /\ ag.pc = "mCommit"
    /\ \E c \in {Now} :
          Ask(CommitOwner(c, Env),
              /\ jr' = [Phase("mbb_commit_pending") EXCEPT !.co.intent = TRUE]
              /\ ag' = Go("mConfirm"),
              Fail)
    /\ PortOnly

\* promote_with: the intent is durable before the packet port is asked; an
\* error is followed by a probe, and so is an answer.
MbbCommit ==
    /\ ag.pc = "mCommit"
    /\ jr' = [Phase("mbb_commit_pending") EXCEPT !.co.intent = TRUE]
    /\ \E c \in {Now} : Ask(CommitOwner(c, Env), ag' = Go("mConfirm"), ag' = Go("mConfirm"))
    /\ PortOnly

\* Faulty variant: netd is asked to forward before the predecessor has drained.
MbbConfirmUndrained ==
    /\ ag.pc = "mConfirm"
    /\ \E c \in {Now} :
          Ask(ProbeTransaction(c, jr.tx),
              IF Observe(c, mgr) # "committed" \/ ~Runs(jr.tx) THEN Fail
              ELSE jr' = Phase("mbb_outbound_committed") /\ ag' = Go("mFinal"),
              Fail)
    /\ PortOnly

MbbConfirm ==
    /\ ag.pc = "mConfirm"
    /\ \E c \in {Now} :
          Ask(ProbeTransaction(c, jr.tx),
              IF Observe(c, mgr) # "committed" \/ ~Runs(jr.tx) THEN Fail
              ELSE /\ jr' = Phase("mbb_outbound_committed")
                   /\ ag' = Go(IF Drained(mgr) THEN "mFinal"
                               ELSE IF jr.fret \/ jr.tx \in late THEN "mRetire"
                               ELSE "mDrain"),
              Fail)
    /\ PortOnly

\* The new worker carries what leaves, the old one drains, within the cap.
MbbDrain ==
    /\ ag.pc = "mDrain"
    /\ IF jr.tx \in late THEN ag' = Go("mRetire") /\ Same /\ NoFault
       ELSE Works(Runs(jr.tx) /\ Runs(jr.old),
                  jr' = Phase("mbb_bilateral_drained") /\ ag' = Go("mFinish"),
                  Fail)
    /\ Local /\ UNCHANGED <<workers, orec, crec, serial>>

MbbFinish ==
    /\ ag.pc = "mFinish"
    /\ \E empty \in BOOLEAN, c \in {Now} :
         Ask(FinishOwnerDrain(c, Env, empty),
             ag' = Go("mFinal"),
             IF ~empty /\ jr.tx \in late THEN ag' = Go("mRetire")
             ELSE ag' \in {ag, Idle})
    /\ PortOnly /\ Same

\* mbb_retire_failed: past the cap the predecessor goes without a drain.
MbbRetireFailed ==
    /\ ag.pc = "mRetire"
    /\ \E c \in {Now} :
       \E r \in {RetireOwnerAfterFailure(c, Env)} :
       LET ready == Observe(c, mgr) = "committed" /\ Runs(jr.tx) /\ jr.tx \in late
           pending == [Phase("mbb_failed_retirement_pending") EXCEPT !.fret = TRUE]
       IN IF ~ready THEN Fail /\ UNCHANGED <<mgr, ctl>> /\ NoFault
          ELSE Ask([r EXCEPT !.ok = @ /\ FailedRetirement(r.ctl, r.mgr)],
                   /\ jr' = [pending EXCEPT !.phase = "mbb_failed_drain_preserved"]
                   /\ ag' = [ag EXCEPT !.pc = "mFinal", !.failed = TRUE],
                   jr' = pending /\ ag' = Idle)
    /\ PortOnly

\* mbb_isolate_failed_commit: the committed worker is dead or revoked.  Both
\* workers end and the packet port is left without an owner.
MbbIsolate ==
    /\ ag.pc = "mIsolate"
    /\ jr' = [Phase("mbb_committed_isolating") EXCEPT !.co.failure = TRUE]
    /\ Stop(jr.tx, ag' = Go("mFence"), ag' = Idle)
    /\ Local /\ UNCHANGED <<orec, crec, serial>>

MbbFence ==
    /\ ag.pc = "mFence"
    /\ \E c \in {Now} : \E r \in {IsolateCommittedOwner(c, Env, jr.co.exp)} :
          Ask([r EXCEPT !.ok = @ /\ r.ctl.isolated = Env /\ ~r.ctl.owned],
              jr' = [jr EXCEPT !.co.isolated = TRUE] /\ ag' = Go("mStopOld"),
              Fail)
    /\ PortOnly

MbbStopOld ==
    /\ ag.pc = "mStopOld"
    /\ Stop(jr.old,
            jr' = [Phase("committed_owner_isolated") EXCEPT !.res = FALSE],
            Same)
    /\ ag' = Idle
    /\ Local /\ UNCHANGED <<orec, crec, serial>>

-----------------------------------------------------------------------------
(* mbb_finalize, commit_authorized, finish_records                         *)

\* Outcome and owner are frozen by the first attempt, before netd is asked.
MbbFinalize ==
    /\ ag.pc = "mFinal"
    /\ LET outcome == IF ag.failed THEN "failed" ELSE "drained"
           o == RepairExpiredLease(Settled, Cut)
           replay == ForwardReplay(Settled, o)
           frozen == [jr EXCEPT !.outcome = outcome, !.owner = Cut]
       IN IF jr.outcome \notin {None, outcome} \/ jr.tx \in lapsed
          THEN Fail /\ UNCHANGED fw /\ NoFault
          ELSE AskNetd(IF o = None THEN None ELSE Settled,
                       /\ jr' = [frozen EXCEPT !.owner = o]
                       /\ ag' = IF replay = None THEN Idle
                                ELSE IF replay = "prepare" THEN Go("fPrepare")
                                ELSE IF replay = "prepared" THEN Go("fAuthorize")
                                ELSE Go("fReady"),
                       jr' = frozen /\ ag' = Idle)
    /\ NetdOnly

FinalPrepare ==
    /\ ag.pc = "fPrepare"
    /\ AskNetd(NetdPrepare(jr.owner), ag' = Go("fAuthorize"), ag' = Idle)
    /\ NetdOnly /\ Same

FinalAuthorize ==
    /\ ag.pc = "fAuthorize"
    /\ AskNetd(NetdAuthorize(jr.owner), ag' = Go("fReady"), ag' = Idle)
    /\ NetdOnly /\ Same

FinalReady ==
    /\ ag.pc = "fReady"
    /\ Works(Runs(jr.tx), ag' = Go("proof"), ag' = Idle)
    /\ Local /\ UNCHANGED <<workers, files, serial>>

\* commit_authorized: the packet port must still apply this transaction
\* when netd is asked to forward for it.
CommitProof ==
    /\ ag.pc = "proof"
    /\ \E c \in {Now} :
          Ask(Done(c, mgr, Applies(c) /\ c.owned /\ Runs(jr.tx)),
              ag' = Go("commit"), ag' = Idle)
    /\ PortOnly /\ Same

CommitAuthorized ==
    /\ ag.pc = "commit"
    /\ LET o == jr.owner
           authorized == IF Settled.cand = o THEN [Settled EXCEPT !.auth = TRUE] ELSE Settled
           committed ==
             IF ForwardReplay(Settled, o) \notin {"prepared", "active"}
                \/ Ended(o) \/ ~Runs(o.tx) THEN None
             ELSE [authorized EXCEPT !.owner = o, !.phase = "Active",
                                     !.cand = None, !.auth = FALSE]
       IN AskNetd(committed, ag' = Go("records"), ag' = Idle)
    /\ NetdOnly /\ Same

\* finish_records.  After a drain that failed the predecessor must be gone
\* first.  Owner record, journal and candidate record are separate files, in
\* this order; a run between them finds the journal not yet committed and
\* writes them all again.
FinishRecords ==
    /\ ag.pc = "records"
    /\ IF ag.failed /\ Runs(jr.old)
       THEN /\ Stop(jr.old, UNCHANGED ag, ag' = Idle)
            /\ UNCHANGED files
       ELSE /\ Works(Runs(jr.tx),
                     /\ orec' = jr.tx /\ crec' = FALSE
                     /\ jr' = Phase("committed") /\ ag' = Go("close"),
                     ag' = Idle /\ UNCHANGED files)
            /\ UNCHANGED workers
    /\ Local /\ UNCHANGED serial

CloseRenewal ==
    /\ ag.pc = "close"
    /\ Stop(jr.old, ag' = Serve, ag' = Idle)
    /\ Local /\ UNCHANGED <<files, serial>>

-----------------------------------------------------------------------------
(* Surroundings and specification                                          *)

\* The agent is killed; its successor is another controller.
Crash ==
    /\ Death
    /\ ag' = At(ag.by + 1, "idle")
    /\ UNCHANGED <<tunio, world, files, fw, ended, serial>>

WorkerDies(t) ==
    /\ Death
    /\ WorkerExits(t)
    /\ UNCHANGED <<files, fw, ended, ag, serial>>

\* Nobody renews the lease of a forwarding owner during a handoff.
LeaseEnds(o) ==
    /\ Death
    /\ o # None /\ o.fence \notin ended /\ ag.pc # "serve"
    /\ ended' = ended \cup {o.fence}
    /\ UNCHANGED <<tunio, world, files, fw, ag, serial>>

Renewal ==
    \/ Discover \/ RetireCommitted \/ Fresh
    \/ LegacyGuard \/ LegacySpawn \/ LegacyStage \/ LegacyAttach \/ LegacyProbe
    \/ LegacyPrepare \/ LegacyAuthorize \/ LegacyReady \/ LegacyCommit
    \/ LegacyUndo \/ LegacyDrop
    \/ Recover \/ RecoverNetd \/ RecoverPrepare \/ RecoverAuthorize
    \/ RecoverReady \/ RecoverStop \/ RecoverDrop \/ RecoverRevoke \/ RecoverRetire
    \/ MbbEnter \/ MbbExpired \/ MbbReserve \/ MbbSpawn \/ MbbStage \/ MbbPrepare
    \/ MbbLook \/ MbbInstall \/ MbbCommit \/ MbbConfirm \/ MbbDrain \/ MbbFinish
    \/ MbbRetireFailed \/ MbbIsolate \/ MbbFence \/ MbbStopOld
    \/ MbbFinalize \/ FinalPrepare \/ FinalAuthorize \/ FinalReady
    \/ CommitProof \/ CommitAuthorized \/ FinishRecords \/ CloseRenewal

Next ==
    \/ Renewal \/ Renew \/ Crash \/ NetdPoll
    \/ /\ \/ OwnerGone \/ RetainedGone \/ PendingExpires \/ PendingFails
          \/ GuardReads \/ GuardRevokes \/ GuardClears
          \/ \E t \in 0 .. serial : Tick(t) \/ Lapse(t)
       /\ UNCHANGED <<files, fw, ended, ag, serial, errors, deaths>>
    \/ \E t \in Txs : WorkerDies(t)
    \/ \E o \in {fw.owner, fw.cand} : LeaseEnds(o)

Spec == Init /\ [][Next]_vars

\* The supervisor repeats a run that failed until it succeeds.
FairSpec == Spec /\ WF_vars(Renewal)

-----------------------------------------------------------------------------
(* Properties                                                              *)

\* Whether the packet port's owner is the transaction.
Owns(tx) == mgr.owner # None /\ mgr.owner.tx = tx

\* A cancelled or retired transaction stays out of the packet port: a
\* RecoverPrecommit or RetireExpiredCommit that the agent was told of, or
\* whose answer was lost, is final, although the same transaction may have
\* been prepared by a request whose answer was lost before.
CancelledNeverOwns ==
    \A e \in {ctl.cancelled, ctl.retired} \ {None} :
        /\ ~Owns(e.tx)
        /\ mgr.pending = None \/ mgr.pending.tx # e.tx

\* What the endpoint has staged and the manager has prepared is always named
\* by the journal on disk, so a run that starts after any crash or lost
\* answer can find it: "unknown pending signed authority" cannot come up.
PendingIsJournaled ==
    /\ ctl.pending # None => jr # None /\ jr.env = ctl.pending
    /\ mgr.pending # None => jr # None /\ jr.env # None /\ jr.tx = mgr.pending.tx

\* Every transaction is accounted for on both sides: what is pending the
\* agent knows of, and what was called off stays off (candidate_ownership.rs
\* recovery against authority_control.rs).
TransactionsAccounted == CancelledNeverOwns /\ PendingIsJournaled

\* A prepared worker owns the packet port only if the disk says so: the
\* journal holds its durable commit intent, or the owner's record names it.
\* An agent that restarts knows of every handover that may have happened.
CommitIsIntended ==
    \A last \in {mgr.last} \ {None} :
        last.phase = "committed" /\ Owns(last.txn.tx) =>
            \/ jr # None /\ jr.tx = last.txn.tx /\ jr.co.intent
            \/ orec = last.txn.tx

\* netd forwards only for an owner the packet port has applied: the epoch
\* netd is active for never runs ahead of the packet port's.
ForwardingIsApplied == fw.phase = "Active" => fw.owner.epoch <= mgr.epoch

\* The order of the handover is kept by every crash and lost answer: intent
\* on disk, then packet port, then netd (signed_renewal.rs commit path).
HandoverOrdered == CommitIsIntended /\ ForwardingIsApplied

\* The boot-clock guard ends only an owner whose authorization ended: the
\* commit of a newer owner between its reading and its revocation survives.
GuardSparesSuccessor ==
    [][guard # None /\ guard' # guard /\ mgr.owner # None /\ mgr'.owner = None
         => mgr.owner.tx \in lapsed]_vars

\* A step of the agent that stops a worker, not the end of one.
Stops(t) == t \in workers \ workers' /\ deaths' = deaths

\* The agent never stops the worker that carries the traffic: the one that
\* owns the packet port while netd forwards for it.  Every path that stops a
\* worker does so on evidence read several exchanges earlier.
CarrierKept ==
    [][\A t \in Txs : Stops(t) /\ Owns(t) /\ t \notin lapsed
         => ~(fw.phase = "Active" /\ fw.owner.tx = t)]_vars

\* A predecessor is stopped only once it has left the packet port, drained,
\* forced out or isolated; a renewal that fails leaves it where it was.
PredecessorOutlivesHandover ==
    [][\A t \in Txs : Stops(t) /\ jr # None /\ t = jr.old
         => ~Owns(t) /\ (mgr.retained = None \/ mgr.retained.tx # t)]_vars

\* A renewal that is asked for, or repeated after an error, gets past its
\* discovery of the packet port's state.
RenewalStarts == (ag.pc = "idle") ~> (ag.pc # "idle")

=============================================================================
