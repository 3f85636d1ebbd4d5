----------------------------- MODULE CloudSync -----------------------------
(***************************************************************************)
(* One device's synchronisation with Candy Cloud: the sync-once process    *)
(* (candy-cloud-sync lib.rs and grant.rs) that turns a signed delivery     *)
(* into an immutable activation, composed with the two other processes     *)
(* that work on the same state directory: the SD-WAN agent                 *)
(* (ActivationAgent), which tries the candidate and leaves a receipt, and  *)
(* the service script, which finishes a withdrawal.  They share files      *)
(* only: every action reads and writes what is on disk at that moment, and *)
(* sync-once may be cut short between any two of its writes.               *)
(*                                                                         *)
(* Status reports to Cloud change nothing on the device, so they are part  *)
(* of the action that follows them; directories are immutable and complete *)
(* before a pointer names them, so only the pointers are state.            *)
(*                                                                         *)
(* Time is an age: a grant is fresh (0), due for refresh (1) or expired    *)
(* (2), a rejection is recent (0) or old enough to be tried again (1).     *)
(***************************************************************************)
EXTENDS Integers

CONSTANTS
    None,
    Deliveries,   \* signed deliveries Cloud may publish
    ServerMode,   \* the device also serves inbound peers
    Legacy,       \* etag a state file of an older release may hold, or None
    MaxSeq,       \* bound on grant renewals: the last grant stays fresh
    CrashPoints,  \* where sync-once may be interrupted
    MaxFaults     \* bound on interruptions, denials and agent failures

Etags == {d.etag : d \in Deliveries}

Subjects == {d.subject : d \in Deliveries}

ASSUME DeliveryAssumption ==
    /\ \A d \in Deliveries :
           /\ d.phase \in {"prepare", "commit"}
           /\ {d.outbound, d.inbound, ServerMode} \subseteq BOOLEAN
           /\ d.flaw \in {None, "body", "etag", "core", "discovery", "config"}
    /\ \A d, e \in Deliveries : d.etag = e.etag => d = e
    /\ None \notin Etags /\ Legacy \in Etags \cup {None}
    /\ MaxSeq \in Nat \ {0} /\ MaxFaults \in Nat

Delivery(etag) == CHOOSE d \in Deliveries : d.etag = etag

VARIABLES
    cloud,    \* Cloud: the delivery it wants and the grants it issued
    st,       \* sync-state-v1.json
    cand,     \* `candidate` pointer: an activation or None
    active,   \* `active` pointer
    proof,    \* active-activation-v1.json: the activation it proves, or None
    ready,    \* activation-ready-v1.json: the agent's receipt, or None
    marker,   \* withdrawal-request-v1.json exists
    grants,   \* grants/<subject>.json
    sync,     \* the sync-once process
    agent,    \* the agent (ActivationAgent)
    settled,  \* history: activations some Core committed
    stopped,  \* user-stopped-v1 exists: the user stopped SD-WAN
    faults

vars == <<cloud, st, cand, active, proof, ready, marker, grants, sync, agent,
          settled, stopped, faults>>

-----------------------------------------------------------------------------
(* Types                                                                   *)

\* An activation is named after its delivery and the grant built into it.
Activations == [etag : Etags, seq : 0..MaxSeq]

INSTANCE ActivationAgent

\* None is told apart from every value a file may hold.
ASSUME NoneAssumption ==
    None \notin Deliveries \cup Activations \cup Receipts \cup (0..2)
                \cup {"prepare", "commit"}

SyncStates ==
    [etag : Opt(Etags), phase : Opt({"prepare", "commit"}),
     required : BOOLEAN, rejected : Opt(Etags), age : 0..1]

NewSyncState == [etag |-> None, phase |-> None, required |-> FALSE,
                 rejected |-> None, age |-> 0]

\* The age of an issued grant, None before Cloud issued it.
Ages == Opt(0..2)

Clouds == [desired : Opt(Deliveries),
           issued : [Subjects -> [1..MaxSeq -> Ages]]]

GrantStates ==
    [completed : 0..MaxSeq, pending : 0..MaxSeq, revoked : BOOLEAN]

NewGrant == [completed |-> 0, pending |-> 0, revoked |-> FALSE]

\* GrantState::validate_for, which every load and store goes through.  The
\* active grant is the one with the completed sequence.
ValidGrant(g) ==
    /\ g.pending # 0 => g.pending = g.completed + 1
    /\ g.revoked => g.completed = 0

Points ==
    {"idle", "promote", "prove", "rejected", "clearReceipt", "storeOutcome",
     "fetch", "mark", "unpoint", "storeWithdrawn", "grant", "issue", "point",
     "store", "reconcile", "clearActive", "clearProof", "clearMarker"}

\* `first` allows one more pass; `dlv` and `seq` are the delivery and the
\* grant in hand.
Processes ==
    [pc : Points, first : BOOLEAN, mem : SyncStates, out : Opt(Receipts),
     dlv : Opt(Etags), seq : 0..MaxSeq]

Idle == [pc |-> "idle", first |-> TRUE, mem |-> NewSyncState, out |-> None,
         dlv |-> None, seq |-> 0]

\* The device starts without state, or with the state file of an older
\* release, which knows no phase.
Init ==
    /\ \E d \in Opt(Deliveries) :
           cloud = [desired |-> d,
                    issued |-> [s \in Subjects |-> [q \in 1..MaxSeq |-> None]]]
    /\ st \in {NewSyncState, [NewSyncState EXCEPT !.etag = Legacy]}
    /\ cand = None /\ active = None /\ proof = None /\ ready = None
    /\ marker = FALSE
    /\ grants = [s \in Subjects |-> NewGrant]
    /\ sync = Idle /\ agent = NoAgent /\ settled = {}
    /\ stopped = FALSE /\ faults = 0

-----------------------------------------------------------------------------
(* Reading the state directory                                             *)

\* Age of the grant an activation was built with; without outbound
\* candidates there is no grant and nothing expires.
AgeOf(a) == IF a.seq = 0 THEN 0
            ELSE cloud.issued[Delivery(a.etag).subject][a.seq]

\* candidate_matches_delivery, candidate_grant_refresh_due.
CandidateMatches(etag) == cand # None /\ cand.etag = etag

CandidateRefreshDue == cand = None \/ AgeOf(cand) >= 1

\* read_activation_ready_receipt deletes a receipt for another candidate, ...
StaleReceipt == ready # None /\ ready.act # cand

\* ... and ignores a commitment whose processes are gone, whose Core no longer
\* proves it, or whose grant expired.
UsableReceipt ==
    /\ ready # None /\ ready.act = cand
    /\ ready.state = "committed" => ready.current /\ AgeOf(cand) < 2

ReadsReceipt == ready' = IF StaleReceipt THEN None ELSE ready

\* read_active_activation fails when the proof names another activation.
ProofConflict == active # None /\ proof # None /\ proof # active

\* read_committed_activation_outcome.
CommittedOutcome ==
    IF active = None \/ proof = None THEN None
    ELSE [act |-> active, state |-> "committed", current |-> FALSE]

\* Variant for a mutation test: every receipt is taken for a commitment.
OutcomeWithoutVerdict ==
    IF UsableReceipt THEN [ready EXCEPT !.state = "committed"]
    ELSE CommittedOutcome

\* The receipt, or else the durable proof.
Outcome == IF UsableReceipt THEN ready ELSE CommittedOutcome

-----------------------------------------------------------------------------
(* sync-once: the agent's verdict                                          *)

At(pc) == sync.pc = pc

Go(pc) == sync' = [sync EXCEPT !.pc = pc]

\* Any error return: what is on disk stays, the rest is forgotten.
Fail == sync' = Idle

\* Success: the service script continues with its own reconciliation.
Finish == sync' = [Idle EXCEPT !.pc = "reconcile"]

\* The state as read.  A server whose own configuration differs from the one
\* its last activation was built with forgets the etag, in memory only; that
\* configuration may be edited, and restored, before any round.
Loaded == {st} \cup IF ServerMode THEN {[st EXCEPT !.etag = None]} ELSE {}

\* Load the state; when an activation is required, look for the verdict on
\* the delivery the state names.
Load ==
    /\ At("idle")
    /\ IF st.required THEN ReadsReceipt ELSE UNCHANGED ready
    /\ IF st.required /\ ~UsableReceipt /\ ProofConflict THEN Fail
       ELSE LET verdict == IF st.required THEN Outcome ELSE None
            IN \E m \in Loaded :
                 sync' =
                   IF verdict = None \/ verdict.act.etag # m.etag
                   THEN [sync EXCEPT !.mem = m, !.pc = "fetch"]
                   ELSE [sync EXCEPT !.mem = m, !.out = verdict,
                             !.pc = IF verdict.state = "committed"
                                    THEN "promote" ELSE "rejected"]
    /\ UNCHANGED <<cloud, st, cand, active, proof, marker, grants, agent,
                   settled, stopped, faults>>

\* promote_committed_activation, when there still is a receipt: the pointer
\* first, then the proof.  Without one the proof is already there.
Promote ==
    /\ At("promote")
    /\ ReadsReceipt
    /\ IF UsableReceipt /\ cand # sync.out.act THEN UNCHANGED active /\ Fail
       ELSE IF UsableReceipt THEN active' = cand /\ Go("prove")
       ELSE UNCHANGED active /\ Go("clearReceipt")
    /\ UNCHANGED <<cloud, st, cand, proof, marker, grants, agent, settled,
                   stopped, faults>>

Prove ==
    /\ At("prove")
    /\ proof' = sync.out.act
    /\ Go("clearReceipt")
    /\ UNCHANGED <<cloud, st, cand, active, ready, marker, grants, agent,
                   settled, stopped, faults>>

\* Cloud takes a status for the delivery it wants and answers 409 to others.
Accepts(etag) == cloud.desired # None /\ cloud.desired.etag = etag

\* A rejection Cloud accepted drops the candidate and is remembered.
DropCandidate ==
    /\ At("rejected")
    /\ LET e == sync.out.act.etag
       IN IF Accepts(e)
          THEN /\ cand' = IF cand = sync.out.act THEN None ELSE cand
               /\ sync' = [sync EXCEPT !.mem.rejected = e, !.mem.age = 0,
                                       !.pc = "clearReceipt"]
          ELSE UNCHANGED cand /\ Go("clearReceipt")
    /\ UNCHANGED <<cloud, st, active, proof, ready, marker, grants, agent,
                   settled, stopped, faults>>

\* After the report, whatever receipt is there now is deleted.
ClearReceipt ==
    /\ At("clearReceipt")
    /\ ready' = None
    /\ Go("storeOutcome")
    /\ UNCHANGED <<cloud, st, cand, active, proof, marker, grants, agent,
                   settled, stopped, faults>>

StoreOutcome ==
    /\ At("storeOutcome")
    /\ LET m == IF sync.out.state = "rejected" THEN sync.mem
                ELSE [sync.mem EXCEPT !.rejected = None, !.age = 0]
       IN st' = m /\ sync' = [sync EXCEPT !.mem = m, !.out = None,
                                          !.pc = "fetch"]
    /\ UNCHANGED <<cloud, cand, active, proof, ready, marker, grants, agent,
                   settled, stopped, faults>>

-----------------------------------------------------------------------------
(* The configuration request and its three answers                         *)

\* Variant for a mutation test: a request on disk counts as finished.
NothingToWithdrawOnceMarked ==
    marker \/ (active = None /\ cand = None /\ proof = None)

\* request_local_activation_withdrawal has nothing to ask for.
NothingToWithdraw ==
    \/ active = None /\ cand = None /\ proof = None
    \/ marker /\ cand = None

NoContent ==
    /\ At("fetch") /\ cloud.desired = None
    /\ Go(IF NothingToWithdraw THEN "storeWithdrawn" ELSE "mark")
    /\ UNCHANGED <<cloud, st, cand, active, proof, ready, marker, grants,
                   agent, settled, stopped, faults>>

\* The withdrawal request is durable before the candidate goes.
Mark ==
    /\ At("mark")
    /\ marker' = TRUE
    /\ Go("unpoint")
    /\ UNCHANGED <<cloud, st, cand, active, proof, ready, grants, agent,
                   settled, stopped, faults>>

Unpoint ==
    /\ At("unpoint")
    /\ cand' = None
    /\ Go(IF sync.dlv = None THEN "storeWithdrawn" ELSE "store")
    /\ UNCHANGED <<cloud, st, active, proof, ready, marker, grants, agent,
                   settled, stopped, faults>>

StoreWithdrawn ==
    /\ At("storeWithdrawn")
    /\ st' = NewSyncState
    /\ Finish
    /\ UNCHANGED <<cloud, cand, active, proof, ready, marker, grants, agent,
                   settled, stopped, faults>>

\* Variants for mutation tests: a rejection is not waited for; a candidate
\* that is gone is not missed.
RevalidatesAtOnce ==
    LET m == sync.mem
    IN \/ /\ m.required /\ m.rejected # m.etag
          /\ ~CandidateMatches(m.etag) \/ CandidateRefreshDue
       \/ m.rejected = m.etag
       \/ m.rejected # m.etag /\ m.phase = None

RevalidatesOnlyGrants ==
    LET m == sync.mem
    IN \/ /\ m.required /\ m.rejected # m.etag
          /\ cand # None /\ CandidateRefreshDue
       \/ m.rejected = m.etag /\ m.age = 1
       \/ m.rejected # m.etag /\ m.phase = None

\* 304 asks for a full download: the required candidate is missing, belongs
\* to another delivery or needs a new grant; a rejection is old; or the state
\* file is too old to say what to report.
Revalidates ==
    LET m == sync.mem
    IN \/ /\ m.required /\ m.rejected # m.etag
          /\ ~CandidateMatches(m.etag) \/ CandidateRefreshDue
       \/ m.rejected = m.etag /\ m.age = 1
       \/ m.rejected # m.etag /\ m.phase = None

\* Forgetting the etag, and an old rejection of it, durably before the second
\* pass.  That pass sends no etag, so it is never answered with 304.
NotModified ==
    /\ At("fetch")
    /\ cloud.desired # None /\ cloud.desired.etag = sync.mem.etag
    /\ IF Revalidates
       THEN /\ st' = IF sync.mem.rejected = sync.mem.etag
                     THEN [sync.mem EXCEPT !.etag = None, !.rejected = None,
                                           !.age = 0]
                     ELSE [sync.mem EXCEPT !.etag = None]
            /\ sync' = [Idle EXCEPT !.first = FALSE]
       ELSE UNCHANGED st /\ Finish
    /\ UNCHANGED <<cloud, cand, active, proof, ready, marker, grants, agent,
                   settled, stopped, faults>>

This == Delivery(sync.dlv)

\* activation_required: there is somebody to connect to or to serve.
ActivationRequired(d) == d.outbound \/ (ServerMode /\ d.inbound)

\* After the grants: a prepared delivery is only stored, one that needs no
\* activation withdraws the local one, any other becomes a candidate.
AfterGrants(d) ==
    IF d.phase = "prepare" THEN "store"
    ELSE IF ActivationRequired(d) THEN "point"
    ELSE IF NothingToWithdraw THEN "store" ELSE "mark"

\* The verdicts on a full delivery, in their order: its envelopes and catalogs
\* decode, the digest of its body is its etag, Core verifies the signed
\* objects and the generations beside them, and reports the peers in them.
Decodes(d) == d.flaw # "body"

MatchesEtag(d) == d.flaw # "etag"

CoreVerifies(d) == d.flaw # "core"

CoreDiscovers(d) == d.flaw # "discovery"

Verified(d) ==
    Decodes(d) /\ MatchesEtag(d) /\ CoreVerifies(d) /\ CoreDiscovers(d)

\* Core compiles the configuration rendered for the activation.
CoreCompiles(d) == d.flaw # "config"

\* Any failed verdict is an error; Cloud learns of it, the state file does not.
Ok ==
    /\ At("fetch")
    /\ cloud.desired # None /\ cloud.desired.etag # sync.mem.etag
    /\ LET d == cloud.desired
       IN IF ~Verified(d) THEN Fail
          ELSE sync' = [sync EXCEPT !.dlv = d.etag,
                          !.pc = IF d.outbound THEN "grant" ELSE AfterGrants(d)]
    /\ UNCHANGED <<cloud, st, cand, active, proof, ready, marker, grants,
                   agent, settled, stopped, faults>>

-----------------------------------------------------------------------------
(* Grants (grant.rs)                                                       *)

Grant == grants[This.subject]

GrantAge(q) == cloud.issued[This.subject][q]

\* The cached grant is usable; it is current when not due for renewal.
Usable == Grant.completed # 0 /\ GrantAge(Grant.completed) < 2

StoreGrant(g) == grants' = [grants EXCEPT ![This.subject] = g]

UseGrant(q) == sync' = [sync EXCEPT !.seq = q, !.pc = AfterGrants(This)]

\* Variant for a mutation test: every attempt is a transaction of its own.
NewTransaction ==
    IF Grant.pending # 0 THEN Grant.pending + 1 ELSE Grant.completed + 1

\* A transaction that was not completed is repeated under its own id.
Transaction ==
    IF Grant.pending # 0 THEN Grant.pending ELSE Grant.completed + 1

\* refresh_with_clock up to the request: the transaction is durable before
\* Cloud is asked.  A revoked grant is final for this authorisation.
RefreshGrant ==
    /\ At("grant")
    /\ IF Grant.revoked THEN Fail /\ UNCHANGED grants
       ELSE IF Usable /\ GrantAge(Grant.completed) = 0
       THEN UseGrant(Grant.completed) /\ UNCHANGED grants
       ELSE /\ Go("issue")
            /\ StoreGrant([Grant EXCEPT !.pending = Transaction])
    /\ UNCHANGED <<cloud, st, cand, active, proof, ready, marker, agent,
                   settled, stopped, faults>>

\* Cloud answers a request id with the grant it issued for it before.
Issued ==
    [cloud EXCEPT !.issued[This.subject][Grant.pending] =
         IF @ = None THEN 0 ELSE @]

\* The answer is verified by Core and bound to its transaction; an expired
\* grant is an error that keeps the transaction.
AnswerExpired == GrantAge(Grant.pending) = 2

Issue ==
    /\ At("issue")
    /\ cloud' = Issued
    /\ IF AnswerExpired THEN Fail /\ UNCHANGED grants
       ELSE /\ UseGrant(Grant.pending)
            /\ StoreGrant([Grant EXCEPT !.completed = Grant.pending,
                                        !.pending = 0])
    /\ UNCHANGED <<st, cand, active, proof, ready, marker, agent, settled,
                   stopped, faults>>

\* The request or its answer is lost: an unexpired grant is kept for now.
IssueFails ==
    /\ At("issue") /\ faults < MaxFaults
    /\ faults' = faults + 1
    /\ cloud' \in {cloud, Issued}
    /\ IF Usable THEN UseGrant(Grant.completed) ELSE Fail
    /\ UNCHANGED <<st, cand, active, proof, ready, marker, grants, agent,
                   settled, stopped>>

\* Variant for a mutation test: the revoked grant stays in the cache.
DenyGrantKeepingIt ==
    /\ At("issue") /\ faults < MaxFaults
    /\ faults' = faults + 1
    /\ StoreGrant([Grant EXCEPT !.pending = 0, !.revoked = TRUE])
    /\ Fail
    /\ UNCHANGED <<cloud, st, cand, active, proof, ready, marker, agent,
                   settled, stopped>>

\* Cloud refuses the identity: the cached grant is invalidated.
DenyGrant ==
    /\ At("issue") /\ faults < MaxFaults
    /\ faults' = faults + 1
    /\ StoreGrant([completed |-> 0, pending |-> 0, revoked |-> TRUE])
    /\ Fail
    /\ UNCHANGED <<cloud, st, cand, active, proof, ready, marker, agent,
                   settled, stopped>>

\* Cloud wants another policy by now: the grant and its transaction are kept,
\* the etag is forgotten and the delivery fetched again, once.
Resync ==
    /\ At("issue") /\ cloud.desired # This
    /\ st' = [sync.mem EXCEPT !.etag = None, !.rejected = None, !.age = 0]
    /\ sync' = [Idle EXCEPT !.first = ~sync.first]
    /\ UNCHANGED <<cloud, cand, active, proof, ready, marker, grants, agent,
                   settled, stopped, faults>>

-----------------------------------------------------------------------------
(* Publishing                                                              *)

\* The digest that names an activation covers the delivery and its grants.
ActivationOf(etag, seq) == [etag |-> etag, seq |-> seq]

\* publish_client_activation, publish_server_activation: the directory is
\* complete and immutable before the pointer names it.
Point ==
    /\ At("point")
    /\ IF CoreCompiles(This)
       THEN cand' = ActivationOf(sync.dlv, sync.seq) /\ Go("store")
       ELSE UNCHANGED cand /\ Fail
    /\ UNCHANGED <<cloud, st, active, proof, ready, marker, grants, agent,
                   settled, stopped, faults>>

Store ==
    /\ At("store")
    /\ st' = [etag |-> This.etag, phase |-> This.phase,
              required |-> This.phase = "commit" /\ ActivationRequired(This),
              rejected |-> None, age |-> 0]
    /\ Finish
    /\ UNCHANGED <<cloud, cand, active, proof, ready, marker, grants, agent,
                   settled, stopped, faults>>

\* A killed process, a failed request or write, an expired budget.
Interrupt ==
    /\ sync.pc \in CrashPoints /\ faults < MaxFaults
    /\ faults' = faults + 1
    /\ Fail
    /\ UNCHANGED <<cloud, st, cand, active, proof, ready, marker, grants,
                   agent, settled, stopped>>

-----------------------------------------------------------------------------
(* The service script, after a successful sync-once                        *)

\* The loop defers its reconciliation to a later round: the service is
\* disabled, in transition or faulted, or only now started again.
Defer ==
    /\ At("reconcile")
    /\ Fail
    /\ UNCHANGED <<cloud, st, cand, active, proof, ready, marker, grants,
                   agent, settled, stopped, faults>>

\* A candidate other than what is active supersedes the user's stop.
Superseded == cand # None /\ active # None /\ cand # active

\* sdwan_reconcile: a stopped SD-WAN is left alone; otherwise, without a
\* candidate, wait for a running agent to take its receipt back, then clear
\* what was active.
Reconcile ==
    /\ At("reconcile")
    /\ IF \/ stopped \/ cand # None
          \/ /\ marker \/ active # None
             /\ agent.state # "down" /\ ready # None
       THEN Fail
       ELSE Go("clearActive")
    /\ stopped' = (stopped /\ ~Superseded)
    /\ UNCHANGED <<cloud, st, cand, active, proof, ready, marker, grants,
                   agent, settled, faults>>

ClearActive ==
    /\ At("clearActive")
    /\ active' = None
    /\ Go("clearProof")
    /\ UNCHANGED <<cloud, st, cand, proof, ready, marker, grants, agent,
                   settled, stopped, faults>>

ClearProof ==
    /\ At("clearProof")
    /\ proof' = None
    /\ Go("clearMarker")
    /\ UNCHANGED <<cloud, st, cand, active, ready, marker, grants, agent,
                   settled, stopped, faults>>

ClearMarker ==
    /\ At("clearMarker")
    /\ marker' = FALSE
    /\ Fail
    /\ UNCHANGED <<cloud, st, cand, active, proof, ready, grants, agent,
                   settled, stopped, faults>>

-----------------------------------------------------------------------------
(* The environment                                                         *)

\* Time passes between two rounds of the loop: issued grants become due for
\* refresh and then expire, a remembered rejection becomes old.
Tick ==
    /\ At("idle")
    /\ cloud' = [cloud EXCEPT !.issued =
           [s \in Subjects |-> [q \in 1..MaxSeq |->
               LET age == cloud.issued[s][q]
               IN IF age \in 0..1 /\ q < MaxSeq THEN age + 1 ELSE age]]]
    /\ st' = IF st.rejected = None THEN st ELSE [st EXCEPT !.age = 1]
    /\ <<cloud', st'>> # <<cloud, st>>
    /\ UNCHANGED <<cand, active, proof, ready, marker, grants, sync, agent,
                   settled, stopped, faults>>

\* Cloud publishes another delivery or withdraws the configuration.  A round
\* sees what Cloud wants when it fetches and when it asks for a grant, so any
\* other moment is the same as the start of the round or just before the grant.
CloudPublishes ==
    /\ At("idle") \/ At("issue")
    /\ \E d \in Opt(Deliveries) \ {cloud.desired} :
           cloud' = [cloud EXCEPT !.desired = d]
    /\ UNCHANGED <<st, cand, active, proof, ready, marker, grants, sync, agent,
                   settled, stopped, faults>>

\* sdwan_stop: the marker, then the agent is ended, by force if need be.  A
\* round looks at the marker once, when it reconciles.
UserStops ==
    /\ At("idle") /\ ~stopped /\ faults < MaxFaults
    /\ stopped' = TRUE /\ faults' = faults + 1
    /\ IF agent.state = "down" THEN UNCHANGED <<cand, ready, agent, settled>>
       ELSE Shutdown
    /\ UNCHANGED <<cloud, st, active, proof, marker, grants, sync>>

\* sdwan_start refuses to end the stop without a candidate.
UserStarts ==
    /\ At("idle") /\ stopped /\ cand # None
    /\ stopped' = FALSE
    /\ UNCHANGED <<cloud, st, cand, active, proof, ready, marker, grants, sync,
                   agent, settled, faults>>

\* wait_for_sdwan_candidate starts no agent while SD-WAN is stopped.
Supervised == stopped => agent.state # "down"

AgentStep(A) ==
    A /\ UNCHANGED <<cloud, st, active, proof, marker, grants, sync, stopped,
                     faults>>

AgentFault ==
    /\ faults < MaxFaults /\ faults' = faults + 1
    /\ AgentFails
    /\ UNCHANGED <<cloud, st, active, proof, marker, grants, sync, stopped>>

-----------------------------------------------------------------------------
SyncOnce ==
    \/ Load \/ Promote \/ Prove \/ DropCandidate \/ ClearReceipt
    \/ StoreOutcome \/ NoContent \/ Mark \/ Unpoint \/ StoreWithdrawn
    \/ NotModified \/ Ok \/ RefreshGrant \/ Issue \/ Resync \/ Point \/ Store
    \/ Defer \/ Reconcile \/ ClearActive \/ ClearProof \/ ClearMarker

Next ==
    \/ SyncOnce \/ IssueFails \/ DenyGrant \/ Interrupt
    \/ Tick \/ CloudPublishes \/ UserStops \/ UserStarts
    \/ AgentStep(Supervised /\ AgentWorks) \/ AgentFault

\* What the agent's loop does by itself: it inspects its pointer in every
\* round, brings an attempt or a replacement it started to an end, and ends a
\* retry whose candidate is gone.
AgentProgress ==
    AgentStep(\/ Leave \/ Withdraw \/ Abandon \/ Replace \/ Commit
              \/ cand # agent.act /\ Stop)

\* The service script runs sync-once again and again; it does not start an
\* agent twice for one candidate.  The agent is one process with one loop.
Fairness == WF_vars(SyncOnce) /\ WF_vars(AgentProgress)

Spec == Init /\ [][Next]_vars /\ Fairness

-----------------------------------------------------------------------------
(* Properties                                                              *)

\* Every file, the process and the agent have the types above, and every
\* grant state on disk would be accepted by GrantState::validate_for.
TypeOK ==
    /\ cloud \in Clouds /\ st \in SyncStates
    /\ {cand, active, proof} \subseteq Opt(Activations)
    /\ ready \in Opt(Receipts) /\ marker \in BOOLEAN
    /\ grants \in [Subjects -> GrantStates]
    /\ \A s \in Subjects : ValidGrant(grants[s])
    /\ sync \in Processes /\ agent \in Agents
    /\ settled \subseteq Activations
    /\ stopped \in BOOLEAN /\ faults \in 0..MaxFaults

\* The active pointer and its proof only ever name an activation some agent
\* brought to a commit: promotion (lib.rs promote_committed_activation) works
\* on files another process rewrites meanwhile.
ActiveIsCommitted == {active, proof} \subseteq Opt(settled)

\* The type invariant, and what the active pointer may name.
ActiveSound == TypeOK /\ ActiveIsCommitted

\* A lost answer, a crash or a failed renewal never makes the device ask for
\* a second grant before the first is stored: the request ids Cloud has seen
\* end with the transaction after the last completed one (grant.rs
\* refresh_with_clock).
IssuanceIdempotent ==
    \A s \in Subjects : \A q \in 1..MaxSeq :
        cloud.issued[s][q] # None /\ ~grants[s].revoked
            => q <= grants[s].completed + 1

\* A recent rejection is neither forgotten nor overtaken by a new candidate
\* for the same delivery, unless sync-once holds another delivery, a later
\* commitment or a withdrawal, whatever is fetched, renewed or interrupted in
\* between (sync_once_with_retry, answer 304).  Only a server that sees its
\* own configuration changed, and therefore has no etag in memory, tries the
\* rejected delivery again at once.
RejectionHolds ==
    [][(/\ st.rejected # None /\ st.age = 0
        /\ \/ st'.rejected # st.rejected
           \/ cand' \notin {cand, None} /\ cand'.etag = st.rejected)
       => \/ sync.dlv \notin {None, st.rejected}
          \/ sync.out # None \/ At("storeWithdrawn")
          \/ ServerMode /\ sync.mem.etag = None]_vars

\* Once Cloud has no configuration for the device, steering ends and the
\* candidate goes; and unless the loop defers for ever, or the user stopped
\* SD-WAN, the active pointer and its proof go as well, wherever sync-once is
\* interrupted (request_local_activation_withdrawal, sdwan_reconcile).
WithdrawalCompletes ==
    <>[](cloud.desired = None)
        => /\ <>[](agent.state \notin {"steering", "fallback"} /\ cand = None)
           /\ \/ <>[][~Reconcile]_vars
              \/ <>[](stopped \/ (active = None /\ proof = None))

\* Without a verdict to report, the configuration request stays responsible
\* for the candidate (sync_once_with_retry, the comment before it reads the
\* receipt): sync-once comes to that request again and again.
ConfigurationRequested == []<>At("fetch")

\* Nothing can be published for a delivery whose grant was refused, or whose
\* transaction Cloud answers with a grant that has expired meanwhile.
Blocked(d) ==
    LET g == grants[d.subject]
    IN g.revoked \/ (g.pending # 0 /\ cloud.issued[d.subject][g.pending] = 2)

\* A sound delivery Cloud keeps asking for keeps coming back as the candidate,
\* unless the agent rejected it or no grant can be had: no crash leaves a
\* state file that claims a delivery without a candidate for it.
DeliveryConverges ==
    \A d \in Deliveries :
        d.phase = "commit" /\ ActivationRequired(d) /\ d.flaw = None =>
            (<>[](cloud.desired = d)
                => []<>(\/ CandidateMatches(d.etag) \/ st.rejected = d.etag
                        \/ Blocked(d)))

=============================================================================
