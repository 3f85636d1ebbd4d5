----------------------------- MODULE SdwanAgent -----------------------------
(***************************************************************************)
(* The SD-WAN agent (candy-sdwan-agent lib.rs): the supervisor that takes  *)
(* the activation the `candidate` pointer names, has netd prepare the      *)
(* tunnel, starts Candy Core, steers traffic into it, follows the pointer  *)
(* with policy updates and tunnel replacements, falls back when peers or   *)
(* routes are lost, and rolls everything back to try again.                *)
(*                                                                         *)
(* The agent is one thread; `proc.pc` is where it stands.  Between two of  *)
(* its steps the pointer may move, Core or netd may end and peers may come *)
(* and go.  netd is its protocol session and transaction record            *)
(* (NetdTransaction has them in detail), reached through NetdClient; Core  *)
(* is external, known by the requests the agent sends and the status it    *)
(* reads.  Every call may fail before it takes effect or, for the calls in *)
(* LostReplies, after it.                                                  *)
(***************************************************************************)
EXTENDS Integers

CONSTANTS
    None,
    Activations,   \* [gen, tun, pol]: generation, tunnel and netd policy
    LostReplies,   \* calls whose answer may be lost
    MaxFaults      \* bound on failed calls, exits and lost peers

ASSUME ActivationAssumption ==
    /\ \A a \in Activations : a.gen \in Nat \ {0}
    /\ None \notin Activations /\ MaxFaults \in Nat

VARIABLES
    cand,      \* `candidate` pointer: an activation or None
    ready,     \* activation-ready-v1.json: the agent's receipt, or None
    settled,   \* history: activations the agent saw committed
    proc,      \* the agent process and its NetdClient
    core,      \* the Candy Core process
    net,       \* netd
    faults

vars == <<cand, ready, settled, proc, core, net, faults>>

Opt(S) == S \cup {None}

Decl(a) == [tun |-> a.tun, pol |-> a.pol]

-----------------------------------------------------------------------------
(* State                                                                   *)

Starting == {"prepare", "spawn", "await", "commit", "fail"}

Retrying == {"cleanup", "wait"}

Serving ==
    {"renew", "confirm", "pointer", "policy", "polNetd", "polCore",
     "polRestore", "corePrep", "stage", "bind", "undo", "coreCommit",
     "netCommit", "hotReady", "drain", "report", "reject", "unlink",
     "health", "routes", "fbNetd", "fbCore", "lvCore", "lvNetd"}

\* Where the steps shared by several callers return to.
Returns ==
    {None, "withdrawn", "loss", "failed", "pending", "routes", "recover",
     "soft", "hard", "refused", "conflict", "restored", "done", "late",
     "replace", "reject"}

Off ==
    [pc |-> "off",
     act |-> None,         \* args: the activation served or tried
     gen |-> 0,            \* args.generation: the tunnel's generation
     recovery |-> FALSE,   \* recovery_attempt
     next |-> None,        \* replacement in hand
     policy |-> None,      \* pending_policy
     receipt |-> None,     \* pending_receipt
     rejected |-> None,    \* rejected_activation
     retry |-> None,       \* preparation_retry_target
     steer |-> FALSE,      \* transition.steering_suspended
     susp |-> FALSE,       \* transition.core_suspended
     loss |-> FALSE,       \* peer_loss_fallback
     integ |-> FALSE,      \* route_integrity_fallback
     phase |-> "stopped",  \* NetdClient.phase
     owner |-> 0,          \* NetdClient.owner.generation
     then |-> None]

Generations == {0} \cup {a.gen : a \in Activations}

Decls == {Decl(a) : a \in Activations}

\* Activation the processes outside agree on: what the contract shows.
AgentView ==
    [state |->
        IF proc.pc = "off" THEN "down"
        ELSE IF proc.pc \in Starting THEN "starting"
        ELSE IF proc.pc \in Retrying THEN "retrying"
        ELSE IF proc.pc \in {"fbNetd", "fbCore", "unlink"}
                /\ proc.then = "withdrawn" THEN "leaving"
        ELSE IF ~proc.steer THEN "steering"
        ELSE IF proc.loss \/ proc.integ
                \/ (proc.pc = "fbCore" /\ proc.then = "loss") THEN "fallback"
        ELSE "parked",
     act |-> proc.act,
     next |-> IF proc.policy = None THEN proc.next ELSE proc.policy]

Contract == INSTANCE ActivationAgent WITH agent <- AgentView

Processes ==
    [pc : {"off"} \cup Starting \cup Retrying \cup Serving,
     act : Opt(Activations), gen : Generations, recovery : BOOLEAN,
     next : Opt(Activations), policy : Opt(Activations),
     receipt : Opt(Contract!Receipts), rejected : Opt(Activations),
     retry : Opt(Activations), steer : BOOLEAN, susp : BOOLEAN,
     loss : BOOLEAN, integ : BOOLEAN,
     phase : {"stopped", "prepared", "active", "suspended"},
     owner : Generations, then : Returns]

\* `prep` is a candidate Core prepared, `up` that its peers are connected.
Cores ==
    [alive : BOOLEAN, act : Opt(Activations), gen : Generations,
     prep : Opt(Activations), susp : BOOLEAN, up : BOOLEAN]

\* netd's transaction record: owner, declaration, steering rule.
Records == [gen : Generations, decl : Opt(Decls), rule : BOOLEAN]

Nets ==
    [phase : {"Stopped", "Prepared", "Active", "Staged", "Draining",
              "Suspended"},
     gen : Generations, mine : BOOLEAN, decl : Opt(Decls), live : Opt(Records)]

ASSUME NoneAssumption == None \notin Contract!Receipts \cup Records

Committed(a) == Contract!Committed(a)

Rejected(a) == Contract!Rejected(a)

NoCore == [alive |-> FALSE, act |-> None, gen |-> 0, prep |-> None,
           susp |-> FALSE, up |-> FALSE]

\* netd after its own restart: nothing is held, no owner is remembered.
NewNet == [phase |-> "Stopped", gen |-> 0, mine |-> FALSE, decl |-> None,
           live |-> None]

Init ==
    /\ cand \in Opt(Activations) /\ ready = None /\ settled = {}
    /\ proc = Off /\ core = NoCore /\ net = NewNet /\ faults = 0

-----------------------------------------------------------------------------
(* netd, seen through NetdClient                                           *)

\* What netd is after a request it accepts, None when it refuses: session
\* fence and lifecycle, then the transaction's owner check.  `live` is the
\* transaction record: the declaration that is installed, its owner, and
\* whether the policy rule steers traffic into it.
NetAfter(op, g, d) ==
    LET own == net.mine /\ net.gen = g
        sole == net.live # None /\ net.live.gen = g
        to(phase) == [net EXCEPT !.phase = phase]
        rule(n, on) == [n EXCEPT !.live.rule = on]
        in(phases) == net.phase \in phases
        installed == [net EXCEPT !.gen = g, !.decl = d,
                                 !.live.gen = g, !.live.decl = d]
    IN CASE op = "Prepare" /\ in({"Stopped"}) /\ net.live = None
                /\ (g > net.gen \/ (g = net.gen /\ net.decl = d)) ->
                [phase |-> "Prepared", gen |-> g, mine |-> TRUE, decl |-> d,
                 live |-> [gen |-> g, decl |-> d, rule |-> FALSE]]
         [] op = "Prepare" /\ in({"Prepared"}) /\ own /\ net.decl = d -> net
         [] op = "Commit" /\ in({"Prepared"}) /\ own ->
                rule(to("Active"), TRUE)
         [] op = "Commit" /\ in({"Staged"}) /\ own -> to("Draining")
         [] op = "Commit" /\ in({"Active"}) /\ net.mine /\ sole ->
                [net EXCEPT !.gen = g]
         [] op = "Drain" /\ in({"Draining"}) /\ own ->
                [to("Active") EXCEPT !.live.gen = g, !.live.decl = net.decl]
         [] op = "Rollback" /\ in({"Staged"}) /\ own -> to("Stopped")
         [] op = "Rollback" /\ in({"Prepared", "Active", "Suspended"})
                /\ own /\ sole -> [to("Stopped") EXCEPT !.live = None]
         [] op = "Renew" /\ in({"Staged", "Draining"}) /\ own -> net
         [] op = "Renew" /\ in({"Prepared", "Suspended"}) /\ own /\ sole -> net
         [] op = "Renew" /\ in({"Active"}) /\ net.mine /\ sole ->
                [net EXCEPT !.gen = g]
         [] op = "Suspend" /\ in({"Active"}) /\ own /\ sole ->
                rule(to("Suspended"), FALSE)
         [] op = "Resume" /\ in({"Suspended"}) /\ own /\ sole ->
                rule(to("Active"), TRUE)
         [] op = "Reconfigure" /\ in({"Active"}) /\ net.mine
                /\ d.tun # net.live.decl.tun ->
                [to("Staged") EXCEPT !.gen = g, !.decl = d]
         [] op = "Reconfigure" /\ in({"Active"}) /\ net.mine
                /\ d = net.live.decl -> installed
         [] op = "Reconfigure" /\ in({"Suspended"}) /\ net.mine
                /\ d.tun = net.live.decl.tun -> installed
         [] op = "Withdraw" /\ in({"Active"}) /\ own /\ sole -> net
         [] op = "Policy" /\ in({"Active", "Suspended"}) /\ own /\ sole
                /\ d.tun = net.decl.tun -> installed
         [] OTHER -> None

\* The phase NetdClient itself asks for before it sends anything.
Allowed(op) ==
    proc.phase \in
        CASE op = "Prepare" -> {"stopped"}
          [] op = "Commit" -> {"prepared", "active"}
          [] op \in {"Rollback", "Renew"} -> {"prepared", "active", "suspended"}
          [] op \in {"Suspend", "Stage", "Drain"} -> {"active"}
          [] op = "Resume" -> {"suspended"}
          [] OTHER -> {"active", "suspended"}

\* The phase it keeps after a success.
PhaseAfter(op) ==
    CASE op = "Prepare" -> "prepared"
      [] op = "Commit" -> "active"
      [] op = "Rollback" -> "stopped"
      [] op = "Suspend" -> "suspended"
      [] op = "Resume" -> "active"
      [] OTHER -> proc.phase

\* Everything a call may come to: `hard` is an error the agent does not call
\* transient.  A generation conflict is transient, a wrong phase is not.  A
\* failed call leaves netd's session where it was, also the commit of a staged
\* candidate, although the transaction behind it has dropped the candidate.
Answers(op, g, d) ==
    LET n == IF ~Allowed(op) THEN None
             ELSE NetAfter(IF op = "Stage" THEN "Reconfigure" ELSE op, g, d)
        conflict == /\ Allowed(op)
                    /\ \/ op = "Prepare"
                       \/ net.phase # "Stopped" /\ ~(net.mine /\ net.gen = g)
        failed(m, h) == [net |-> m, ok |-> FALSE, hard |-> h, cost |-> 1]
    IN IF n = None
       THEN {[net |-> net, ok |-> FALSE, hard |-> ~conflict, cost |-> 0]}
       ELSE {[net |-> n, ok |-> TRUE, hard |-> FALSE, cost |-> 0]}
            \cup (IF faults = MaxFaults THEN {}
                  ELSE {failed(net, h) : h \in BOOLEAN}
                       \cup (IF op \in LostReplies THEN {failed(n, FALSE)}
                             ELSE {}))

Spend(cost) == faults' = faults + cost /\ faults' <= MaxFaults

\* proc after an answer, before the step's own changes.
Answered(op, r) == IF r.ok THEN [proc EXCEPT !.phase = PhaseAfter(op)] ELSE proc

-----------------------------------------------------------------------------
(* Core, receipts and the process itself                                   *)

\* What a request to Core may come to; `after` is Core once it applied it.
CoreAnswers(op, after) ==
    LET answer(c, ok, cost) == [core |-> c, ok |-> ok, cost |-> cost]
    IN IF ~core.alive THEN {answer(core, FALSE, 0)}
       ELSE {answer(after, TRUE, 0), answer(core, FALSE, 1)}
            \cup (IF op \in LostReplies THEN {answer(after, FALSE, 1)} ELSE {})

\* PendingReceipt: written now, or kept for the loop to retry.
Publish(r, p, cost) ==
    \/ ready' = r /\ proc' = [p EXCEPT !.receipt = None] /\ Spend(cost)
    \/ UNCHANGED ready /\ proc' = [p EXCEPT !.receipt = r] /\ Spend(cost + 1)

\* write_failed_activation_receipt, which may itself fail.
FailureReceipt(a) == IF cand = a THEN Rejected(a) ELSE None

\* remove_activation_receipt_deferred.
RemoveReceipt(cost) ==
    \/ ready' = None /\ Spend(cost)
    \/ ready' = Contract!Orphaned(ready) /\ Spend(cost + 1)

\* The process ends, and Core with it (PR_SET_PDEATHSIG); netd keeps what it
\* has until it notices.
Ends(n) == proc' = Off /\ core' = NoCore /\ net' = [n EXCEPT !.mine = FALSE]

\* retry_after_rollback and RetryableFailure: what is left of the process.
Retries(p, a) ==
    [Off EXCEPT !.pc = "cleanup", !.act = a,
                !.gen = IF a = p.act THEN p.gen ELSE a.gen,
                !.phase = p.phase, !.owner = p.owner]

At(pc) == proc.pc = pc

Go(pc) == proc' = [proc EXCEPT !.pc = pc]

-----------------------------------------------------------------------------
(* run and the first half of run_once: starting an activation              *)

Launch ==
    /\ At("off") /\ cand # None
    /\ proc' = [Off EXCEPT !.pc = "prepare", !.act = cand, !.gen = cand.gen,
                           !.owner = cand.gen]
    /\ UNCHANGED <<cand, ready, settled, core, net, faults>>

\* fail_before_prepare and fail_without_core: a transient error is retried,
\* any other rejects the activation.
FailsWithoutCore(n, hard, cost) ==
    IF hard
    THEN /\ Ends(n)
         /\ \/ ready' = FailureReceipt(proc.act) /\ Spend(cost)
            \/ ready' = Contract!Orphaned(ready) /\ Spend(cost + 1)
    ELSE /\ proc' = [Retries(proc, proc.act) EXCEPT !.pc = "wait"]
         /\ net' = n /\ RemoveReceipt(cost) /\ UNCHANGED core

PrepareNetwork ==
    /\ At("prepare")
    /\ \E r \in Answers("Prepare", proc.gen, Decl(proc.act)) :
           IF r.ok
           THEN /\ proc' = [Answered("Prepare", r) EXCEPT !.pc = "spawn"]
                /\ net' = r.net /\ Spend(r.cost) /\ UNCHANGED <<ready, core>>
           ELSE FailsWithoutCore(r.net, r.hard, r.cost)
    /\ UNCHANGED <<cand, settled>>

SpawnCore ==
    /\ At("spawn") /\ Go("await")
    /\ core' = [NoCore EXCEPT !.alive = TRUE, !.act = proc.act,
                              !.gen = proc.gen]
    /\ UNCHANGED <<cand, ready, settled, net, faults>>

SpawnFails ==
    /\ At("spawn")
    /\ \E r \in Answers("Rollback", proc.owner, None), hard \in BOOLEAN :
           FailsWithoutCore(r.net, hard, r.cost + 1)
    /\ UNCHANGED <<cand, settled>>

\* wait_for_core_readiness: a missing peer or a Core that exits is retried, a
\* pointer that moved or a Core that reports a failure is not.
AwaitReadiness ==
    /\ At("await")
    /\ \/ core.alive /\ core.up /\ Go("commit") /\ Spend(0)
       \/ ~core.up /\ proc' = Retries(proc, proc.act) /\ Spend(0)
       \/ core.alive /\ ~core.up /\ cand # proc.act /\ Go("fail") /\ Spend(0)
       \/ Go("fail") /\ Spend(1)
    /\ UNCHANGED <<cand, ready, settled, core, net>>

\* fail_after_rollback for an error that is not transient.
FailAfterRollback ==
    /\ At("fail")
    /\ \E r \in Answers("Rollback", proc.owner, None) :
           /\ Ends(r.net)
           /\ \/ ready' = FailureReceipt(proc.act) /\ Spend(r.cost)
              \/ ready' = Contract!Orphaned(ready) /\ Spend(r.cost + 1)
    /\ UNCHANGED <<cand, settled>>

CommitNetwork ==
    /\ At("commit")
    /\ \E r \in Answers("Commit", proc.owner, None) :
           /\ net' = r.net
           /\ IF r.ok
              THEN /\ settled' = settled \cup {proc.act}
                   /\ Publish(Committed(proc.act),
                              [Answered("Commit", r) EXCEPT !.pc = "renew",
                                                            !.recovery = FALSE],
                              r.cost)
              ELSE /\ IF proc.recovery \/ ~r.hard
                      THEN proc' = Retries(proc, proc.act) ELSE Go("fail")
                   /\ Spend(r.cost) /\ UNCHANGED <<ready, settled>>
    /\ UNCHANGED <<cand, core>>

\* retry_after_rollback: Core first, then netd, whose errors are ignored.
Cleanup ==
    /\ At("cleanup")
    /\ core' = NoCore
    /\ \E r \in Answers("Rollback", proc.owner, None) :
           net' = r.net /\ RemoveReceipt(r.cost)
    /\ proc' = [proc EXCEPT !.pc = "wait", !.phase = "stopped",
                            !.owner = proc.gen]
    /\ UNCHANGED <<cand, settled>>

\* Faulty variant of WaitBeforeRetry: the pointer is not read again.
WaitWithoutPointer ==
    /\ At("wait")
    /\ RemoveReceipt(0)
    /\ proc' = [proc EXCEPT !.pc = "prepare", !.recovery = TRUE]
    /\ UNCHANGED <<cand, settled, core, net>>

\* wait_before_retry: a moved pointer or an expired grant ends the process.
WaitBeforeRetry ==
    /\ At("wait")
    /\ \/ /\ cand = proc.act /\ RemoveReceipt(0)
          /\ proc' = [proc EXCEPT !.pc = "prepare", !.recovery = TRUE]
          /\ UNCHANGED <<core, net>>
       \/ Ends(net) /\ RemoveReceipt(IF cand = proc.act THEN 1 ELSE 0)
    /\ UNCHANGED <<cand, settled>>

-----------------------------------------------------------------------------
(* The loop of run_once                                                    *)

\* The lease, then PendingReceipt::retry.  The code renews when a third of the
\* lease has passed; here every round of the loop does.
Renew ==
    /\ At("renew")
    /\ \E r \in Answers("Renew", proc.owner, None) :
           LET p == [proc EXCEPT !.then = None,
                                 !.pc = IF proc.policy = None THEN "pointer"
                                        ELSE "confirm"]
           IN /\ net' = r.net
              /\ IF ~r.ok
                 THEN /\ proc' = Retries(proc, proc.act)
                      /\ Spend(r.cost) /\ UNCHANGED ready
                 ELSE IF proc.receipt # None /\ proc.receipt.act = cand
                 THEN Publish(proc.receipt, p, r.cost)
                 ELSE /\ proc' = [p EXCEPT !.receipt = None]
                      /\ Spend(r.cost) /\ UNCHANGED ready
    /\ UNCHANGED <<cand, settled, core>>

\* adopt_policy_activation and the committed receipt: the tunnel and its
\* generation stay.
Adopt(a, p, cost) ==
    /\ settled' = settled \cup {a}
    /\ Publish(Committed(a), [p EXCEPT !.act = a, !.next = None,
                                       !.policy = None, !.retry = None], cost)

ConfirmCoreGone ==
    /\ At("confirm") /\ ~core.alive
    /\ proc' = Retries(proc, proc.act)
    /\ UNCHANGED <<cand, ready, settled, core, net, faults>>

\* read_core_status: Core's own word on the activation it runs.
Shows(a) == core.alive /\ core.act = a /\ core.gen = proc.gen

ConfirmApplied ==
    /\ At("confirm") /\ Shows(proc.policy)
    /\ Adopt(proc.policy, [proc EXCEPT !.pc = "pointer"], 0)
    /\ UNCHANGED <<cand, core, net>>

\* Still uncertain; a newer candidate takes the pending one's place.
Unconfirmed ==
    proc' = [proc EXCEPT
                !.pc = "renew",
                !.policy = IF cand \notin {None, @} /\ cand.gen >= @.gen
                           THEN cand ELSE @]

\* policy_update_activation_inner with commit_uncertain.
ConfirmRetry ==
    LET b == proc.policy
        same == [net |-> net, ok |-> TRUE, hard |-> FALSE, cost |-> 0]
    IN /\ At("confirm") /\ core.alive /\ ~Shows(b)
       /\ \E r \in IF Decl(b) = Decl(proc.act) THEN {same}
                   ELSE Answers("Policy", proc.owner, Decl(b)),
             c \in CoreAnswers("CorePolicy", [core EXCEPT !.act = b]) :
             IF b.tun # proc.act.tun
             THEN Unconfirmed /\ Spend(0) /\ UNCHANGED <<ready, settled, core, net>>
             ELSE IF ~r.ok
             THEN /\ Unconfirmed /\ net' = r.net /\ Spend(r.cost)
                  /\ UNCHANGED <<ready, settled, core>>
             ELSE /\ net' = r.net /\ core' = c.core
                  /\ IF c.ok
                     THEN Adopt(b, [proc EXCEPT !.pc = "pointer"], r.cost)
                     ELSE /\ Unconfirmed /\ Spend(r.cost + c.cost)
                          /\ UNCHANGED <<ready, settled>>
       /\ UNCHANGED cand

PointerUnchanged ==
    /\ At("pointer") /\ cand = proc.act /\ Go("health")
    /\ UNCHANGED <<cand, ready, settled, core, net, faults>>

\* A candidate that was rejected is left alone, one that is to be retried for
\* a while.
PointerSuperseded ==
    /\ At("pointer") /\ cand \notin {None, proc.act}
    /\ \/ cand \in {proc.rejected, proc.retry} /\ Go("health")
       \/ /\ cand # proc.rejected
          /\ proc' = [proc EXCEPT !.pc = "policy", !.next = cand]
    /\ UNCHANGED <<cand, ready, settled, core, net, faults>>

\* Faulty variant of PointerWithdrawn: a withdrawal is handled like a lost
\* peer.
WithdrawnAsPeerLoss ==
    /\ At("pointer") /\ cand = None
    /\ proc' = [proc EXCEPT
                   !.loss = TRUE, !.integ = FALSE, !.rejected = None,
                   !.then = "withdrawn",
                   !.pc = IF proc.steer /\ proc.susp THEN "unlink"
                          ELSE "fbNetd"]
    /\ UNCHANGED <<cand, ready, settled, core, net, faults>>

\* A withdrawn policy owns the fallback: no earlier reason may end it.
PointerWithdrawn ==
    /\ At("pointer") /\ cand = None
    /\ proc' = [proc EXCEPT
                   !.loss = FALSE, !.integ = FALSE, !.rejected = None,
                   !.then = "withdrawn",
                   !.pc = IF proc.steer /\ proc.susp THEN "unlink"
                          ELSE "fbNetd"]
    /\ UNCHANGED <<cand, ready, settled, core, net, faults>>

\* The receipt of a withdrawn activation goes, whatever led to the fallback.
RemoveWithdrawnReceipt ==
    /\ At("unlink")
    /\ \/ ready' = None /\ Go("health") /\ Spend(0)
       \/ UNCHANGED ready /\ Go("renew") /\ Spend(1)
    /\ UNCHANGED <<cand, settled, core, net>>

-----------------------------------------------------------------------------
(* policy_update_activation: a new policy in the same tunnel               *)

\* PolicyUpdateOutcome::Rejected.
RejectPolicy(p, cost) ==
    Publish(Rejected(p.next), [p EXCEPT !.pc = "renew", !.rejected = p.next,
                                        !.next = None], cost)

\* Not yet: the same candidate is tried again after a delay.
Postpone(p, pc) ==
    proc' = [p EXCEPT !.pc = pc, !.retry = p.next, !.next = None]

\* An older policy or an expired grant is rejected; a different tunnel needs
\* a replacement; netd is asked only when its part changes.
ClassifyUpdate ==
    /\ At("policy")
    /\ \/ proc.next.gen < proc.act.gen /\ RejectPolicy(proc, 0)
       \/ RejectPolicy(proc, 1)
       \/ /\ proc.next.gen >= proc.act.gen
          /\ Go(IF proc.next.tun # proc.act.tun THEN "corePrep"
                ELSE IF proc.next.pol # proc.act.pol THEN "polNetd"
                ELSE "polCore")
          /\ UNCHANGED <<ready, faults>>
    /\ UNCHANGED <<cand, settled, core, net>>

UpdateNetdPolicy ==
    /\ At("polNetd")
    /\ \E r \in Answers("Policy", proc.owner, Decl(proc.next)) :
           /\ net' = r.net /\ Spend(r.cost)
           /\ IF r.ok THEN Go("polCore") ELSE Postpone(proc, "renew")
    /\ UNCHANGED <<cand, ready, settled, core>>

\* Core applies the policy, asks for a replacement, rejects it, or does not
\* answer.
UpdateCorePolicy ==
    /\ At("polCore")
    /\ \/ \E c \in CoreAnswers("CorePolicy", [core EXCEPT !.act = proc.next]) :
              /\ core' = c.core
              /\ IF c.ok
                 THEN Adopt(proc.next, [proc EXCEPT !.pc = "renew",
                                                    !.rejected = None], c.cost)
                 ELSE /\ proc' = [proc EXCEPT !.pc = "fbNetd",
                                              !.then = "pending"]
                      /\ Spend(c.cost) /\ UNCHANGED <<ready, settled>>
       \/ /\ core.alive
          /\ \E t \in {"replace", "reject"} :
                 /\ proc' = [proc EXCEPT !.pc = "polRestore", !.then = t]
                 /\ Spend(IF t = "reject" THEN 1 ELSE 0)
          /\ UNCHANGED <<ready, settled, core>>
    /\ UNCHANGED <<cand, net>>

\* Faulty variant of RestoreNetdPolicy: netd keeps the refused policy.
KeepNetdPolicy ==
    /\ At("polRestore")
    /\ IF proc.then = "reject" THEN RejectPolicy(proc, 0)
       ELSE Go("corePrep") /\ UNCHANGED <<ready, faults>>
    /\ UNCHANGED <<cand, settled, core, net>>

\* netd gets its last policy back before the refusal is acted on.
RestoreNetdPolicy ==
    /\ At("polRestore")
    /\ \E r \in IF proc.next.pol = proc.act.pol
                THEN {[net |-> net, ok |-> TRUE, hard |-> FALSE, cost |-> 0]}
                ELSE Answers("Policy", proc.owner, Decl(proc.act)) :
           /\ net' = r.net
           /\ IF r.ok /\ proc.then = "reject" THEN RejectPolicy(proc, r.cost)
              ELSE /\ IF r.ok THEN Go("corePrep")
                      ELSE proc' = [proc EXCEPT !.pc = "fbNetd",
                                                !.then = "pending"]
                   /\ Spend(r.cost) /\ UNCHANGED ready
    /\ UNCHANGED <<cand, settled, core>>

-----------------------------------------------------------------------------
(* hot_replace_activation: a new tunnel beside or in place of the old one  *)

\* already_suspended: nothing is forwarded, so the declaration is exchanged
\* in place.
InPlace == proc.steer /\ proc.susp

ToReject(p, t) == [p EXCEPT !.pc = "reject", !.then = t]

\* Core prepares the candidate; the pointer is checked when it answers.
PrepareCore ==
    /\ At("corePrep")
    /\ \/ \E c \in CoreAnswers("CorePrepare", [core EXCEPT !.prep = proc.next]) :
              /\ Spend(c.cost)
              /\ IF c.ok /\ cand = proc.next
                 THEN Go("stage") /\ core' = c.core
                 ELSE /\ core' = [c.core EXCEPT !.prep = None]
                      /\ IF c.ok THEN proc' = ToReject(proc, "soft")
                         ELSE Postpone(proc, "health")
       \/ /\ core.alive /\ Spend(1)
          /\ proc' = ToReject(proc, "soft") /\ UNCHANGED core
    /\ UNCHANGED <<cand, ready, settled, net>>

\* reconfigure_with_owner asks for the status after an error and takes any
\* suspended session for its own success: Status repeats the caller's
\* generation.
Reconfigured(r) ==
    IF r.ok THEN {TRUE}
    ELSE IF r.net.phase # "Suspended" THEN {FALSE}
    ELSE {TRUE} \cup (IF r.cost = 0 THEN {} ELSE {FALSE})

StageNetwork ==
    /\ At("stage")
    /\ \E r \in Answers(IF InPlace THEN "Reconfigure" ELSE "Stage",
                        proc.next.gen, Decl(proc.next)) :
       \E ok \in IF InPlace THEN Reconfigured(r) ELSE {r.ok} :
           /\ net' = r.net /\ Spend(r.cost)
           /\ IF ok
              THEN /\ proc' = [proc EXCEPT !.pc = "bind",
                                           !.owner = proc.next.gen]
                   /\ UNCHANGED core
              ELSE /\ core' = [core EXCEPT !.prep = None]
                   /\ IF InPlace
                      THEN proc' = [proc EXCEPT
                                       !.pc = "lvCore",
                                       !.then = IF r.hard THEN "refused"
                                                ELSE "conflict"]
                      ELSE IF r.hard THEN proc' = ToReject(proc, "hard")
                      ELSE Postpone(proc, "health")
    /\ UNCHANGED <<cand, ready, settled>>

\* The pointer once more, then the status file of the candidate.  A pointer
\* that cannot be read is no reason to reject the candidate.
CheckBinding ==
    /\ At("bind")
    /\ \/ cand = proc.next /\ Go("coreCommit") /\ UNCHANGED <<core, faults>>
       \/ /\ core' = [core EXCEPT !.prep = None]
          /\ \E t \in {"restored", "conflict"} :
                 /\ proc' = [proc EXCEPT !.pc = "undo", !.then = t]
                 /\ Spend(IF t = "restored" /\ cand # proc.next THEN 0 ELSE 1)
    /\ UNCHANGED <<cand, ready, settled, net>>

\* restore_uncommitted_netd_activation, or the staged candidate is dropped.
UndoStage ==
    /\ At("undo")
    /\ \/ /\ InPlace
          /\ \E r \in Answers("Reconfigure", proc.gen, Decl(proc.act)) :
             \E ok \in Reconfigured(r) :
                 /\ net' = r.net /\ Spend(r.cost)
                 /\ proc' = IF ok
                            THEN [proc EXCEPT !.pc = "lvCore",
                                              !.owner = proc.gen]
                            ELSE Retries(proc, proc.next)
       \/ /\ ~InPlace
          /\ \E r \in Answers("Rollback", proc.owner, None) :
                 /\ net' = r.net /\ Spend(r.cost)
                 /\ IF ~r.ok
                    THEN proc' = [proc EXCEPT !.pc = "fbNetd",
                                              !.then = "failed"]
                    ELSE IF proc.then = "conflict"
                    THEN Postpone(Answered("Rollback", r), "health")
                    ELSE proc' = [Answered("Rollback", r) EXCEPT
                                     !.pc = "health", !.rejected = proc.next,
                                     !.next = None]
    /\ UNCHANGED <<cand, ready, settled, core>>

\* Faulty variant of AppliedPending: the replacement is cleared before it is
\* taken over.
AppliedPendingCleared(p) ==
    LET q == [p EXCEPT !.next = None, !.gen = p.next.gen]
    IN proc' = [q EXCEPT !.pc = "health", !.act = q.next, !.loss = TRUE,
                         !.rejected = None]

\* AppliedHotReloadPending: Core may have committed, so the agent goes on
\* with the candidate and waits for Core's word.
AppliedPending(p) ==
    proc' = [p EXCEPT !.pc = "health", !.act = p.next, !.gen = p.next.gen,
                      !.next = None, !.loss = TRUE, !.rejected = None]

\* Two attempts with one transaction id.
CommitCore ==
    /\ At("coreCommit")
    /\ \E c \in CoreAnswers("CoreCommit",
                            [core EXCEPT !.act = proc.next, !.prep = None,
                                         !.gen = proc.next.gen]) :
           /\ core' = c.core /\ Spend(c.cost)
           /\ IF c.ok THEN Go(IF InPlace THEN "hotReady" ELSE "netCommit")
              ELSE AppliedPending(proc)
    /\ UNCHANGED <<cand, ready, settled, net>>

CommitReplacement ==
    /\ At("netCommit")
    /\ \E r \in Answers("Commit", proc.owner, None) :
           /\ net' = r.net /\ Spend(r.cost)
           /\ proc' = IF r.ok THEN [proc EXCEPT !.pc = "hotReady"]
                      ELSE [proc EXCEPT !.pc = "fbNetd", !.then = "failed"]
    /\ UNCHANGED <<cand, ready, settled, core>>

\* Readiness and the pointer decide whether the candidate is reported; the
\* previous declaration is drained in either case.  (An error reading the
\* binding skips the drain, which is DrainPrevious refused before it takes
\* effect.)
AwaitReplacement ==
    LET good == core.alive /\ core.up /\ cand = proc.next
    IN /\ At("hotReady")
       /\ IF ~InPlace
          THEN proc' = [proc EXCEPT !.pc = "drain",
                                    !.then = IF good THEN "done" ELSE "late"]
          ELSE IF good
          THEN proc' = [proc EXCEPT !.pc = "lvCore", !.then = "done"]
          ELSE AppliedPending(proc)
       /\ UNCHANGED <<cand, ready, settled, core, net, faults>>

DrainPrevious ==
    /\ At("drain")
    /\ \E r \in Answers("Drain", proc.owner, None) :
           /\ net' = r.net /\ Spend(r.cost)
           /\ IF r.ok /\ proc.then = "done" THEN Go("report")
              ELSE AppliedPending(proc)
    /\ UNCHANGED <<cand, ready, settled, core>>

ReportReplacement ==
    /\ At("report")
    /\ \/ /\ ready' = Committed(proc.next)
          /\ settled' = settled \cup {proc.next}
          /\ proc' = [proc EXCEPT !.pc = "health", !.act = proc.next,
                                  !.gen = proc.next.gen, !.next = None,
                                  !.loss = FALSE, !.integ = FALSE,
                                  !.rejected = None]
          /\ Spend(0)
       \/ AppliedPending(proc) /\ Spend(1) /\ UNCHANGED <<ready, settled>>
    /\ UNCHANGED <<cand, core, net>>

\* Where the receipt cannot be written a refusal by netd ends like a failed
\* transition, any other rejection stands.
RejectReplacement ==
    LET rejected == [proc EXCEPT !.pc = "health", !.rejected = proc.next,
                                 !.next = None]
    IN /\ At("reject")
       /\ \/ ready' = FailureReceipt(proc.next) /\ proc' = rejected /\ Spend(0)
          \/ /\ UNCHANGED ready /\ Spend(1)
             /\ proc' = IF proc.then = "hard"
                        THEN [proc EXCEPT !.pc = "fbNetd", !.then = "failed"]
                        ELSE rejected
       /\ UNCHANGED <<cand, settled, core, net>>

-----------------------------------------------------------------------------
(* Candy Proxy fallback                                                    *)

\* What follows enter_proxy_fallback (and the two places that only suspend
\* steering), by caller.
Entered(p, ok) ==
    CASE p.then = "withdrawn" -> [p EXCEPT !.pc = IF ok THEN "unlink"
                                                  ELSE "renew"]
      [] p.then = "loss" -> IF ok THEN [p EXCEPT !.pc = "renew", !.loss = TRUE]
                            ELSE Retries(p, p.act)
      [] p.then = "routes" -> IF ok
                              THEN [p EXCEPT !.pc = "renew", !.integ = TRUE]
                              ELSE Retries(p, p.act)
      [] p.then = "pending" -> IF ok
                               THEN [p EXCEPT !.pc = "renew", !.loss = TRUE,
                                              !.policy = p.next, !.next = None]
                               ELSE Retries(p, p.next)
      [] OTHER -> ToReject(p, "soft")

SteeringOnly == {"routes", "pending"}

\* Faulty variant of EnterNetd: Core stops forwarding first.
EnterCoreFirst ==
    /\ At("fbNetd")
    /\ IF proc.then \notin SteeringOnly /\ ~core.susp /\ core.alive
       THEN core' = [core EXCEPT !.susp = TRUE] /\ UNCHANGED <<proc, net, faults>>
       ELSE /\ UNCHANGED core
            /\ \E r \in Answers("Suspend", proc.owner, None) :
                   LET p == [Answered("Suspend", r) EXCEPT !.steer = r.ok]
                   IN /\ net' = r.net /\ Spend(r.cost)
                      /\ proc' = Entered(p, r.ok)
    /\ UNCHANGED <<cand, ready, settled>>

\* Steering is removed first, ...
EnterNetd ==
    /\ At("fbNetd")
    /\ IF proc.steer /\ proc.then \notin SteeringOnly
       THEN Go("fbCore") /\ UNCHANGED <<net, faults>>
       ELSE \E r \in Answers("Suspend", proc.owner, None) :
                LET p == [Answered("Suspend", r) EXCEPT !.steer = @ \/ r.ok]
                IN /\ net' = r.net /\ Spend(r.cost)
                   /\ proc' = IF r.ok /\ proc.then \notin SteeringOnly
                              THEN [p EXCEPT !.pc = "fbCore"]
                              ELSE Entered(p, r.ok)
    /\ UNCHANGED <<cand, ready, settled, core>>

\* ... then Core is suspended, unless it has exited.
EnterCore ==
    /\ At("fbCore")
    /\ IF proc.susp \/ ~core.alive
       THEN /\ proc' = Entered([proc EXCEPT !.susp = TRUE], TRUE)
            /\ UNCHANGED <<core, faults>>
       ELSE \E c \in CoreAnswers("CoreSuspend", [core EXCEPT !.susp = TRUE]) :
                /\ core' = c.core /\ Spend(c.cost)
                /\ proc' = Entered([proc EXCEPT !.susp = c.ok], c.ok)
    /\ UNCHANGED <<cand, ready, settled, net>>

\* What follows leave_proxy_fallback, by caller.  A recovery is reported.
Left(p, ok, cost) ==
    IF p.then = "recover" /\ ok
    THEN /\ settled' = settled \cup {p.act}
         /\ Publish(Committed(p.act),
                    [p EXCEPT !.pc = "routes", !.loss = FALSE], cost)
    ELSE /\ Spend(cost) /\ UNCHANGED <<ready, settled>>
         /\ CASE p.then = "recover" -> proc' = [p EXCEPT !.pc = "renew"]
              [] p.then = "done" -> IF ok THEN proc' = [p EXCEPT !.pc = "report"]
                                    ELSE AppliedPending(p)
              [] p.then \notin {"recover", "done"} /\ ~ok -> proc' = Retries(p, p.next)
              [] p.then = "conflict" /\ ok -> Postpone(p, "health")
              [] p.then = "refused" /\ ok -> proc' = ToReject(p, "hard")
              [] p.then = "restored" /\ ok ->
                     proc' = [p EXCEPT !.pc = "health", !.rejected = p.next,
                                       !.next = None]

\* Core forwards again first, ...
LeaveCore ==
    /\ At("lvCore")
    /\ IF ~proc.susp
       THEN Go("lvNetd") /\ UNCHANGED <<ready, settled, core, faults>>
       ELSE \E c \in CoreAnswers("CoreResume", [core EXCEPT !.susp = FALSE]) :
                /\ core' = c.core
                /\ IF c.ok
                   THEN /\ proc' = [proc EXCEPT !.pc = "lvNetd", !.susp = FALSE]
                        /\ Spend(c.cost) /\ UNCHANGED <<ready, settled>>
                   ELSE Left(proc, FALSE, c.cost)
    /\ UNCHANGED <<cand, net>>

\* ... then steering; if that fails Core is suspended again, if it answers.
LeaveNetd ==
    /\ At("lvNetd")
    /\ IF ~proc.steer
       THEN Left(proc, TRUE, 0) /\ UNCHANGED <<core, net>>
       ELSE \E r \in Answers("Resume", proc.owner, None) :
                /\ net' = r.net
                /\ IF r.ok
                   THEN /\ Left([Answered("Resume", r) EXCEPT !.steer = FALSE],
                                TRUE, r.cost)
                        /\ UNCHANGED core
                   ELSE \E c \in CoreAnswers("CoreSuspend",
                                             [core EXCEPT !.susp = TRUE]) :
                            /\ core' = c.core
                            /\ Left([proc EXCEPT !.susp = c.ok], FALSE,
                                    r.cost + c.cost)
    /\ UNCHANGED cand

-----------------------------------------------------------------------------
(* Health                                                                  *)

\* Faulty variant of CoreReady: any generation's report will do.
CoreReadyOfAny == core.alive /\ core.up

\* Core's status report is that of the generation the agent serves.
CoreReady == core.alive /\ core.up /\ core.gen = proc.gen

\* Core's exit, then its readiness, unless the fallback waits for nobody.
CheckHealth ==
    /\ At("health")
    /\ proc' \in
          IF ~core.alive THEN {Retries(proc, proc.act)}
          ELSE IF proc.steer /\ ~proc.loss /\ ~proc.integ
          THEN {[proc EXCEPT !.pc = "renew"]}
          ELSE IF CoreReady
          THEN {IF proc.loss /\ ~proc.integ
                THEN [proc EXCEPT !.pc = "lvCore", !.then = "recover"]
                ELSE [proc EXCEPT !.pc = "routes"]}
          ELSE {IF proc.loss THEN [proc EXCEPT !.pc = "renew"]
                ELSE [proc EXCEPT !.pc = "fbNetd", !.then = "loss"],
                Retries(proc, proc.act)}
    /\ UNCHANGED <<cand, ready, settled, core, net, faults>>

\* inspect_kernel_routes: a route of the declaration is missing or foreign.
RoutesDiffer == ~proc.integ /\ Spend(1)

\* Reconcile the failed prefixes when that is due and compare the kernel's
\* routes.  An error is not retried: run_once returns it, the process ends
\* and dropping NetdClient asks netd for a rollback.  The session refuses the
\* request while it is suspended, so the branch that ends the integrity
\* fallback is reached only after a refused replacement resumed netd, which
\* takes two faults; it clears the flag and is left out.
ReconcileRoutes ==
    /\ At("routes")
    /\ \/ Go("renew") /\ UNCHANGED <<ready, core, net, faults>>
       \/ /\ ~proc.steer \/ proc.integ
          /\ \E r \in Answers("Withdraw", proc.owner, None) :
                 IF r.ok
                 THEN /\ RoutesDiffer
                      /\ proc' = [proc EXCEPT !.pc = "fbNetd",
                                              !.then = "routes"]
                      /\ UNCHANGED <<ready, core, net>>
                 ELSE /\ \E q \in Answers("Rollback", proc.owner, None) :
                             Ends(q.net) /\ Spend(r.cost + q.cost)
                      /\ ready' = Contract!Orphaned(ready)
    /\ UNCHANGED <<cand, settled>>

Shutdown ==
    /\ proc.pc \in {"await", "health", "wait"}
    /\ \E r \in Answers("Rollback", proc.owner, None) :
           /\ Ends(r.net) /\ Spend(r.cost + 1)
           /\ ready' = IF r.ok THEN None ELSE Contract!Orphaned(ready)
    /\ UNCHANGED <<cand, settled>>

-----------------------------------------------------------------------------
(* What happens around the agent                                           *)

AgentKilled ==
    /\ ~At("off")
    /\ Ends(net) /\ ready' = Contract!Orphaned(ready) /\ Spend(1)
    /\ UNCHANGED <<cand, settled>>

CoreExits ==
    /\ core.alive
    /\ core' = NoCore /\ ready' = Contract!Orphaned(ready) /\ Spend(1)
    /\ UNCHANGED <<cand, settled, proc, net>>

PeersConnect ==
    /\ core.alive /\ ~core.up
    /\ core' = [core EXCEPT !.up = TRUE]
    /\ UNCHANGED <<cand, ready, settled, proc, net, faults>>

PeersLost ==
    /\ core.alive /\ core.up
    /\ core' = [core EXCEPT !.up = FALSE] /\ Spend(1)
    /\ UNCHANGED <<cand, ready, settled, proc, net>>

\* netd's record without its session: a candidate that was committed is in
\* force.
SessionLost ==
    [NewNet EXCEPT !.live = IF net.phase = "Draining"
                            THEN [net.live EXCEPT !.gen = net.gen,
                                                  !.decl = net.decl]
                            ELSE net.live]

\* A stop rolls back, a crash keeps the record while its lease lasts.
NetdRestarts ==
    /\ net # NewNet
    /\ net' \in {NewNet, SessionLost} /\ Spend(1)
    /\ UNCHANGED <<cand, ready, settled, proc, core>>

\* recover_orphan in netd's main loop: the drain deadline passes before the
\* agent asks.
NetdDrains ==
    /\ net.phase = "Draining"
    /\ net' = SessionLost
    /\ UNCHANGED <<cand, ready, settled, proc, core, faults>>

\* Nobody who could renew the lease does.
Unrenewed ==
    ~net.mine \/ proc.phase = "stopped" \/ proc.owner # net.gen

\* recover_orphan again: the owner is gone or its lease has run out.
LeaseExpires ==
    /\ net.live # None /\ Unrenewed
    /\ net' = NewNet
    /\ UNCHANGED <<cand, ready, settled, proc, core, faults>>

\* cloud-sync and the service script: the pointer moves, a receipt goes.
PointerMoves ==
    /\ cand' \in Opt(Activations) \ {cand}
    /\ UNCHANGED <<ready, settled, proc, core, net, faults>>

ReceiptRemoved ==
    /\ ready # None /\ ready' = None
    /\ UNCHANGED <<cand, settled, proc, core, net, faults>>

-----------------------------------------------------------------------------
Starts ==
    \/ Launch \/ PrepareNetwork \/ SpawnCore \/ SpawnFails \/ AwaitReadiness
    \/ FailAfterRollback \/ CommitNetwork \/ Cleanup \/ WaitBeforeRetry

Supervises ==
    \/ Renew \/ ConfirmCoreGone \/ ConfirmApplied \/ ConfirmRetry
    \/ PointerUnchanged \/ PointerSuperseded \/ PointerWithdrawn
    \/ RemoveWithdrawnReceipt \/ EnterNetd \/ EnterCore \/ LeaveCore
    \/ LeaveNetd \/ CheckHealth \/ ReconcileRoutes

Follows ==
    \/ ClassifyUpdate \/ UpdateNetdPolicy \/ UpdateCorePolicy
    \/ RestoreNetdPolicy \/ PrepareCore \/ StageNetwork \/ CheckBinding
    \/ UndoStage \/ CommitCore \/ CommitReplacement \/ AwaitReplacement
    \/ DrainPrevious \/ ReportReplacement \/ RejectReplacement

AgentSteps == Starts \/ Supervises \/ Follows

Around ==
    \/ Shutdown \/ AgentKilled \/ CoreExits \/ PeersConnect \/ PeersLost
    \/ NetdRestarts \/ NetdDrains \/ LeaseExpires \/ PointerMoves \/ ReceiptRemoved

Next == AgentSteps \/ Around

\* The agent's thread runs, and netd's main loop looks after what it holds.
Fairness == WF_vars(AgentSteps) /\ WF_vars(NetdDrains) /\ WF_vars(LeaseExpires)

Spec == Init /\ [][Next]_vars /\ Fairness

-----------------------------------------------------------------------------
(* Properties                                                              *)

\* The process, its NetdClient, Core and netd have the states listed above.
TypeOK ==
    /\ cand \in Opt(Activations) /\ ready \in Opt(Contract!Receipts)
    /\ settled \subseteq Activations /\ faults \in 0..MaxFaults
    /\ proc \in Processes /\ core \in Cores /\ net \in Nets
    /\ proc.pc \in Serving => proc.act # None

\* The processes that share the state directory see the agent ActivationAgent
\* describes, which CloudSync relies on.
ImplementsContract == Contract!AgentSpec

\* netd steers traffic into the tunnel: the policy rule of the installed
\* declaration is there.
Steered == net.live # None /\ net.live.rule

\* Traffic is never steered into a Core that was told not to forward, on the
\* way into the fallback, out of it or after a failed attempt at either
\* (enter_proxy_fallback, leave_proxy_fallback).
SteeredIsForwarded == Steered => ~core.susp

\* The type invariant, and where traffic may be steered.
SteeringSound == TypeOK /\ SteeredIsForwarded

\* The declaration whose rule netd has in force: a committed replacement is,
\* while the previous one drains.
InForce == IF net.phase = "Draining" THEN net.decl ELSE net.live.decl

\* The netd policies a committed receipt may stand for: the activation's own,
\* and that of an update whose answer was lost and which is to be retried.
Reportable(a, p) == {Decl(b) : b \in {a, p.retry} \ {None}}

\* When the agent reports the activation it serves as committed, Core runs
\* just that activation, whichever answer of netd or Core was lost on the way:
\* an update or a replacement that Core may not have applied is confirmed by
\* Core's own status first.  netd has the same tunnel and policy in force, or
\* the policy of an update it applied without the agent knowing.  Only a netd
\* that lost its session, or that still holds the replacement staged because
\* Core's commit stayed unresolved, may have the previous one.
CommittedIsServed ==
    [][(/\ ready' # ready /\ ready' # None /\ ready'.state = "committed"
        /\ ready'.current /\ ready'.act = proc'.act)
       => /\ core'.alive => core'.act = ready'.act
          /\ (net'.live # None /\ net'.phase \notin {"Stopped", "Staged"})
                 => InForce' \in Reportable(ready'.act, proc')]_vars

\* A withdrawn pointer ends steering for good, whatever the agent was doing
\* and whatever failed before.  Only a candidate left staged in netd, because
\* its rollback failed, keeps netd from suspending anything.
WithdrawalEndsSteering ==
    <>[](cand = None) => <>[](~Steered \/ net.phase = "Staged")

=============================================================================
