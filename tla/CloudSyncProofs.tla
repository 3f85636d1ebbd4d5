--------------------------- MODULE CloudSyncProofs ---------------------------
(***************************************************************************)
(* Proofs about cloud synchronisation: the active pointer and its proof    *)
(* only name committed activations, renewals of a grant are idempotent and *)
(* a recent rejection holds, for any set of deliveries, any number of      *)
(* renewals and faults, and wherever sync-once is interrupted.             *)
(***************************************************************************)
EXTENDS CloudSync, TLAPS

-----------------------------------------------------------------------------
(* The inductive invariant                                                 *)

\* Where sync-once works on a verdict of the agent.
VerdictPoints ==
    {"promote", "prove", "rejected", "clearReceipt", "storeOutcome"}

\* Where it works on a delivery.
DeliveryPoints == {"grant", "issue", "point", "store"}

\* An agent that runs serves or tries an activation, and only such an agent
\* works on a replacement.
AgentInv ==
    /\ agent.state # "down" => agent.act # None
    /\ agent.next # None => agent.state # "down"

\* A receipt that reports a commitment is about a committed activation.
ReceiptInv ==
    ready # None /\ ready.state = "committed" => ready.act \in settled

\* So is the verdict sync-once is about to make durable.
VerdictInv ==
    /\ sync.pc \in VerdictPoints => sync.out # None
    /\ sync.pc \in {"promote", "prove"} => sync.out.act \in settled

\* A completed transaction was answered, the request in hand is the one the
\* grant file names, and the last grant stays fresh (the bound MaxSeq).
GrantInv ==
    /\ sync.pc \in DeliveryPoints => sync.dlv # None
    /\ At("issue") => Grant.pending # 0 /\ ~Grant.revoked
    /\ \A s \in Subjects :
           /\ grants[s].completed # 0 =>
                  cloud.issued[s][grants[s].completed] # None
           /\ cloud.issued[s][MaxSeq] \in {None, 0}

\* Only the delivery the state names can be the rejected one.
Remembered(m) == m.rejected \in {None, m.etag}

\* Only a server can have no etag in memory although the state has one.
Forgetful == ServerMode /\ sync.mem.etag = None

\* Until a request was answered there is no delivery in hand.
EarlyPoints == VerdictPoints \cup {"idle", "fetch"}

\* The state in memory is the one on disk until the verdict is stored; the
\* delivery in hand is not the one the state names, unless a server forgot it.
RejectInv ==
    /\ Remembered(st)
    /\ sync.pc \in VerdictPoints =>
           /\ sync.mem.etag = st.etag /\ Remembered(sync.mem)
           /\ sync.out.act.etag = st.etag
    /\ At("fetch") => sync.mem = st \/ (Forgetful /\ sync.mem.rejected = st.rejected)
    /\ sync.pc \in EarlyPoints => sync.dlv = None
    /\ sync.dlv # None => sync.dlv # st.etag \/ Forgetful

Inv ==
    /\ TypeOK /\ ActiveIsCommitted /\ AgentInv /\ ReceiptInv /\ VerdictInv
    /\ GrantInv /\ IssuanceIdempotent /\ RejectInv

-----------------------------------------------------------------------------
(* Values                                                                  *)

\* The etag of a delivery names it.
LEMMA DeliveryShape ==
    ASSUME NEW e \in Etags
    PROVE  /\ Delivery(e) \in Deliveries /\ Delivery(e).etag = e
           /\ Delivery(e).subject \in Subjects
  <1>1. \E d \in Deliveries : d.etag = e
    BY DEF Etags
  <1> QED BY <1>1 DEF Delivery, Subjects

\* A process that starts again.
LEMMA IdleShape ==
    /\ NewSyncState \in SyncStates /\ NewSyncState.rejected = None
    /\ Idle \in Processes /\ Idle.pc = "idle" /\ Idle.dlv = None
    /\ \A b \in BOOLEAN : LET p == [Idle EXCEPT !.first = b]
                          IN p \in Processes /\ p.pc = "idle" /\ p.dlv = None
    /\ LET p == [Idle EXCEPT !.pc = "reconcile"]
       IN p \in Processes /\ p.pc = "reconcile" /\ p.dlv = None
  <1>1. NewSyncState \in SyncStates /\ NewSyncState.rejected = None
    BY DEF NewSyncState, SyncStates, Opt
  <1>2. Idle \in Processes
    <2>1. 0 \in 0..MaxSeq
      BY DeliveryAssumption
    <2> QED BY <1>1, <2>1 DEF Idle, Processes, Points, Opt
  <1>3. Idle.pc = "idle" /\ Idle.dlv = None
    BY DEF Idle
  <1> QED BY <1>1, <1>2, <1>3 DEF Processes, Points

\* A process that goes on.
LEMMA GoShape ==
    ASSUME sync \in Processes, NEW pc \in Points, Go(pc)
    PROVE  /\ sync' \in Processes /\ sync'.pc = pc
           /\ sync'.dlv = sync.dlv /\ sync'.out = sync.out
           /\ sync'.mem = sync.mem /\ sync'.seq = sync.seq
  BY DEF Go, Processes

\* What remains of the state when a rejection, and perhaps its etag, is
\* forgotten.
LEMMA ForgetShape ==
    ASSUME NEW m \in SyncStates
    PROVE  /\ LET n == [m EXCEPT !.rejected = None, !.age = 0]
              IN n \in SyncStates /\ n.etag = m.etag /\ n.rejected = None
           /\ LET n == [m EXCEPT !.etag = None, !.rejected = None, !.age = 0]
              IN n \in SyncStates /\ n.rejected = None
           /\ LET n == [m EXCEPT !.etag = None]
              IN n \in SyncStates /\ n.rejected = m.rejected
  <1>1. 0 \in 0..1
    OBVIOUS
  <1> DEFINE r == [m EXCEPT !.rejected = None]
             e == [m EXCEPT !.etag = None]
             f == [e EXCEPT !.rejected = None]
  <1>a. /\ r \in SyncStates /\ r.etag = m.etag /\ r.rejected = None
        /\ e \in SyncStates /\ e.rejected = m.rejected
    BY DEF SyncStates, Opt
  <1> HIDE DEF r, e
  <1>b. f \in SyncStates /\ f.rejected = None
    BY <1>a DEF SyncStates, Opt
  <1> HIDE DEF f
  <1>c. /\ [r EXCEPT !.age = 0] \in SyncStates /\ [r EXCEPT !.age = 0].etag = m.etag
        /\ [r EXCEPT !.age = 0].rejected = None
        /\ [f EXCEPT !.age = 0] \in SyncStates /\ [f EXCEPT !.age = 0].rejected = None
    BY <1>1, <1>a, <1>b DEF SyncStates
  <1> QED BY <1>a, <1>c DEF r, e, f

-----------------------------------------------------------------------------
(* Grants                                                                  *)

\* The delivery in hand and the grant file of its subject.
LEMMA GrantShape ==
    ASSUME Inv, sync.pc \in DeliveryPoints
    PROVE  /\ sync.dlv \in Etags /\ This.subject \in Subjects
           /\ Grant \in GrantStates /\ ValidGrant(Grant)
  <1>1. sync.dlv \in Etags
    BY DEF Inv, TypeOK, Processes, Opt, GrantInv
  <1> QED BY <1>1, DeliveryShape DEF Inv, TypeOK, This, Grant

\* Storing a grant changes the file of this subject only.
LEMMA StoreShape ==
    ASSUME Inv, sync.pc \in DeliveryPoints, NEW g \in GrantStates, ValidGrant(g),
           StoreGrant(g)
    PROVE  /\ grants' \in [Subjects -> GrantStates]
           /\ \A s \in Subjects : ValidGrant(grants'[s])
           /\ grants'[This.subject] = g
           /\ \A s \in Subjects \ {This.subject} : grants'[s] = grants[s]
  <1>1. grants \in [Subjects -> GrantStates] /\ \A s \in Subjects : ValidGrant(grants[s])
    BY DEF Inv, TypeOK
  <1>2. This.subject \in Subjects
    BY GrantShape
  <1>3. grants' = [grants EXCEPT ![This.subject] = g]
    BY DEF StoreGrant
  <1>4. \A s \in Subjects : grants'[s] = IF s = This.subject THEN g ELSE grants[s]
    BY <1>1, <1>3
  <1> QED BY <1>1, <1>2, <1>3, <1>4

\* sync-once goes on with a grant.
LEMMA UseShape ==
    ASSUME Inv, NEW q \in 0..MaxSeq, UseGrant(q)
    PROVE  /\ sync' \in Processes /\ sync'.pc \in {"store", "point", "mark"}
           /\ sync'.dlv = sync.dlv /\ sync'.mem = sync.mem
  <1>1. sync \in Processes
    BY DEF Inv, TypeOK
  <1>2. AfterGrants(This) \in {"store", "point", "mark"}
    BY DEF AfterGrants
  <1> QED BY <1>1, <1>2 DEF UseGrant, Processes, Points

\* Cloud's answer adds at most the grant of the pending transaction.
LEMMA IssuedShape ==
    ASSUME Inv, At("issue")
    PROVE  /\ Issued \in Clouds
           /\ \A s \in Subjects : \A q \in 1..MaxSeq :
                 /\ cloud.issued[s][q] # None => Issued.issued[s][q] = cloud.issued[s][q]
                 /\ cloud.issued[s][q] = None /\ Issued.issued[s][q] # None =>
                       /\ s = This.subject /\ q = Grant.pending
                       /\ Issued.issued[s][q] = 0
           /\ Issued.issued[This.subject][Grant.pending] # None
           /\ Grant.pending \in 1..MaxSeq /\ Grant.pending = Grant.completed + 1
  <1> DEFINE u == This.subject
             p == Grant.pending
             old == cloud.issued[u][p]
             age == IF old = None THEN 0 ELSE old
  <1>1. /\ cloud \in Clouds /\ u \in Subjects /\ Grant \in GrantStates
        /\ ValidGrant(Grant) /\ p # 0
    BY GrantShape DEF Inv, TypeOK, GrantInv, At, DeliveryPoints
  <1>2. p \in 1..MaxSeq /\ p = Grant.completed + 1
    BY <1>1, DeliveryAssumption DEF GrantStates, ValidGrant
  <1>3. cloud.issued \in [Subjects -> [1..MaxSeq -> Ages]] /\ cloud.desired \in Opt(Deliveries)
    BY <1>1 DEF Clouds
  <1>4. age \in Ages /\ age # None
    <2>1. old \in Ages
      BY <1>1, <1>2, <1>3
    <2>2. 0 \in Ages /\ 0 # None
      BY NoneAssumption DEF Ages, Opt
    <2> QED BY <2>1, <2>2
  <1> DEFINE row == [cloud.issued[u] EXCEPT ![p] = age]
             iss == [cloud.issued EXCEPT ![u] = row]
  <1>5. Issued = [cloud EXCEPT !.issued = iss]
    BY <1>1 DEF Issued, Clouds
  <1> HIDE DEF age
  <1>6. /\ row \in [1..MaxSeq -> Ages] /\ row[p] = age
        /\ \A q \in 1..MaxSeq \ {p} : row[q] = cloud.issued[u][q]
    BY <1>1, <1>2, <1>3, <1>4
  <1> HIDE DEF row
  <1>7. /\ iss \in [Subjects -> [1..MaxSeq -> Ages]] /\ iss[u] = row
        /\ \A s \in Subjects \ {u} : iss[s] = cloud.issued[s]
    BY <1>1, <1>3, <1>6
  <1> HIDE DEF iss
  <1>8. Issued \in Clouds /\ Issued.issued = iss
    BY <1>1, <1>5, <1>7 DEF Clouds
  <1>9. old # None => age = old
    BY DEF age
  <1>10. old = None => age = 0
    BY DEF age
  <1> HIDE DEF u, p
  <1>11. ASSUME NEW s \in Subjects, NEW q \in 1..MaxSeq
         PROVE  /\ cloud.issued[s][q] # None => iss[s][q] = cloud.issued[s][q]
                /\ cloud.issued[s][q] = None /\ iss[s][q] # None =>
                      s = u /\ q = p /\ iss[s][q] = 0
    BY <1>6, <1>7, <1>9, <1>10
  <1> QED BY <1>2, <1>4, <1>6, <1>7, <1>8, <1>11 DEF u, p

-----------------------------------------------------------------------------
(* The agent                                                               *)

\* What the agent does to the files: it leaves the pointer alone, adds to the
\* committed activations, and reports a commitment only for one of them.
LEMMA AgentActs ==
    ASSUME TypeOK, AgentInv, ReceiptInv, AgentWorks \/ AgentFails
    PROVE  /\ cand' = cand /\ agent' \in Agents /\ AgentInv'
           /\ ready' \in Opt(Receipts) /\ ReceiptInv'
           /\ settled \subseteq settled' /\ settled' \subseteq Activations
  <1> USE NoneAssumption
  <1>1. /\ agent \in Agents /\ ready \in Opt(Receipts) /\ cand \in Opt(Activations)
        /\ settled \subseteq Activations
    BY DEF TypeOK
  <1>2. /\ \A a \in Activations :
              /\ Committed(a) \in Receipts /\ Committed(a).act = a
              /\ Rejected(a) \in Receipts /\ Rejected(a).state = "rejected"
        /\ Orphaned(ready) \in Opt(Receipts)
        /\ Orphaned(ready) # None => /\ ready # None
                                     /\ Orphaned(ready).act = ready.act
                                     /\ Orphaned(ready).state = ready.state
    BY <1>1 DEF Committed, Rejected, Orphaned, Receipts, Opt
  <1>3. NoAgent \in Agents /\ NoAgent.state = "down" /\ NoAgent.next = None
    BY DEF NoAgent, Agents, Opt
  <1>4. CASE Launch
    BY <1>1, <1>2, <1>3, <1>4 DEF Launch, AgentInv, ReceiptInv, Agents, Opt, Up
  <1>5. CASE Commit
    BY <1>1, <1>2, <1>3, <1>5 DEF Commit, StartsLeaving, AgentInv, ReceiptInv, Agents, Opt, Up
  <1>6. CASE Retry
    BY <1>1, <1>2, <1>3, <1>6 DEF Retry, Removes, AgentInv, ReceiptInv, Agents, Opt, Up
  <1>7. CASE Stop
    BY <1>1, <1>2, <1>3, <1>7 DEF Stop, Removes, AgentInv, ReceiptInv, Agents, Opt, Up
  <1>8. CASE Confirm
    BY <1>1, <1>2, <1>3, <1>8 DEF Confirm, Up, AgentInv, ReceiptInv, Agents, Opt
  <1>9. CASE Fallback
    BY <1>1, <1>2, <1>3, <1>9 DEF Fallback, AgentInv, ReceiptInv, Agents, Opt, Up
  <1>10. CASE Recover
    BY <1>1, <1>2, <1>3, <1>10 DEF Recover, Publishes, AgentInv, ReceiptInv, Agents, Opt, Up
  <1>11. CASE Notice
    BY <1>1, <1>2, <1>3, <1>11 DEF Notice, Up, AgentInv, ReceiptInv, Agents, Opt
  <1>12. CASE Resteer
    BY <1>1, <1>2, <1>3, <1>12 DEF Resteer, AgentInv, ReceiptInv, Agents, Opt, Up
  <1>13. CASE Abandon
    BY <1>1, <1>2, <1>3, <1>13, ZenonT(30) DEF Abandon, AgentInv, ReceiptInv, Agents, Opt, Up
  <1>14. CASE Replace
    <2>1. agent.next \in Activations /\ agent.state # "down"
      BY <1>1, <1>14 DEF Replace, Agents, Opt, AgentInv
    <2>2. /\ agent' = [state |-> agent.state, act |-> agent.next, next |-> None]
          /\ cand' = cand /\ settled' = settled \cup {agent.next}
          /\ ready' \in {ready, Committed(agent.next)}
      BY <1>1, <1>14 DEF Replace, Replaced, Publishes, Agents
    <2>3. agent' \in Agents /\ AgentInv'
      BY <1>1, <2>1, <2>2 DEF Agents, Opt, AgentInv
    <2> QED BY <1>1, <1>2, <2>1, <2>2, <2>3 DEF ReceiptInv, Opt
  <1>15. CASE Leave
    BY <1>1, <1>2, <1>3, <1>15 DEF Leave, Up, AgentInv, ReceiptInv, Agents, Opt
  <1>16. CASE Withdraw
    BY <1>1, <1>2, <1>3, <1>16 DEF Withdraw, AgentInv, ReceiptInv, Agents, Opt, Up
  <1>17. CASE StartFails
    BY <1>1, <1>2, <1>3, <1>17 DEF StartFails, PublishesFailure, AgentInv, ReceiptInv, Agents, Opt, Up
  <1>18. CASE CommitUnreported
    BY <1>1, <1>2, <1>3, <1>18 DEF CommitUnreported, StartsLeaving, AgentInv, ReceiptInv, Agents, Opt, Up
  <1>19. CASE Interrupted
    <2>1. PICK a \in {agent.act, agent.next} \ {None} :
              agent' = [agent EXCEPT !.state = "retrying", !.act = a, !.next = None]
      BY <1>19 DEF Interrupted
    <2>2. a \in Activations
      BY <1>1, <2>1 DEF Agents, Opt
    <2>3. agent' \in Agents /\ AgentInv'
      BY <1>1, <2>1, <2>2 DEF Agents, Opt, AgentInv
    <2> QED BY <1>1, <1>2, <1>19, <2>3 DEF Interrupted, Removes, ReceiptInv, Opt
  <1>20. CASE ReplaceUnresolved
    <2>1. PICK s \in {"steering", "fallback"} : agent' = Replaced(s)
      BY <1>20 DEF ReplaceUnresolved
    <2>2. agent.next \in Activations
      BY <1>1, <1>20 DEF ReplaceUnresolved, Agents, Opt
    <2>3. agent' = [state |-> s, act |-> agent.next, next |-> None]
      BY <1>1, <2>1 DEF Replaced, Agents
    <2>4. agent' \in Agents /\ AgentInv'
      BY <2>2, <2>3 DEF Agents, Opt, Up, AgentInv
    <2> QED BY <1>1, <1>20, <2>4 DEF ReplaceUnresolved, ReceiptInv
  <1>21. CASE Reject
    BY <1>1, <1>2, <1>3, <1>21 DEF Reject, Publishes, PublishesFailure, AgentInv, ReceiptInv, Agents, Opt, Up
  <1>22. CASE RejectLate
    BY <1>1, <1>2, <1>3, <1>22 DEF RejectLate, Up, AgentInv, ReceiptInv, Agents, Opt
  <1>23. CASE LeaveFails
    BY <1>1, <1>2, <1>3, <1>23 DEF LeaveFails, AgentInv, ReceiptInv, Agents, Opt, Up
  <1>24. CASE Shutdown
    BY <1>1, <1>2, <1>3, <1>24 DEF Shutdown, Removes, AgentInv, ReceiptInv, Agents, Opt, Up
  <1>25. CASE CoreExits
    BY <1>1, <1>2, <1>3, <1>25 DEF CoreExits, Up, AgentInv, ReceiptInv, Agents, Opt
  <1>26. CASE Dies
    BY <1>1, <1>2, <1>3, <1>26 DEF Dies, AgentInv, ReceiptInv, Agents, Opt, Up
  <1> QED BY <1>4, <1>5, <1>6, <1>7, <1>8, <1>9, <1>10, <1>11, <1>12, <1>13, <1>14,
          <1>15, <1>16, <1>17, <1>18, <1>19, <1>20, <1>21, <1>22, <1>23, <1>24,
          <1>25, <1>26 DEF AgentWorks, AgentFails

-----------------------------------------------------------------------------
(* One lemma per action                                                    *)

\* sync-once loads the state and looks for a verdict.
LEMMA LoadStep ==
    ASSUME Inv, Load
    PROVE  Inv'
  <1> USE NoneAssumption
  <1>1. /\ sync \in Processes /\ st \in SyncStates /\ ready \in Opt(Receipts)
        /\ active \in Opt(Activations) /\ ReceiptInv /\ ActiveIsCommitted
        /\ settled \subseteq Activations /\ Remembered(st) /\ sync.dlv = None
    BY DEF Inv, TypeOK, RejectInv, Load, At, EarlyPoints
  <1>2. ready' \in {ready, None}
    BY DEF Load, ReadsReceipt
  <1>3. /\ sync' \in Processes /\ sync'.pc \in {"idle", "fetch", "promote", "rejected"}
        /\ sync'.dlv = None
        /\ sync'.pc = "fetch" =>
              \/ sync'.mem = st
              \/ ServerMode /\ sync'.mem.etag = None /\ sync'.mem.rejected = st.rejected
        /\ sync'.pc \in {"promote", "rejected"} =>
              /\ sync'.out # None /\ sync'.out.act.etag = st.etag /\ sync'.mem = st
              /\ sync'.pc = "promote" => sync'.out.act \in settled
    <2>1. CASE sync' = Idle
      BY <2>1, IdleShape
    <2> DEFINE f(m) == [sync EXCEPT !.mem = m, !.pc = "fetch"]
               p(m, v) == [sync EXCEPT !.mem = m, !.out = v,
                               !.pc = IF v.state = "committed" THEN "promote" ELSE "rejected"]
    <2>2. CASE \E m \in Loaded :
                  \/ sync' = f(m)
                  \/ Outcome # None /\ Outcome.act.etag = m.etag /\ sync' = p(m, Outcome)
      <3>1. PICK m \in Loaded :
                  \/ sync' = f(m)
                  \/ Outcome # None /\ Outcome.act.etag = m.etag /\ sync' = p(m, Outcome)
        BY <2>2
      <3>2. /\ m \in SyncStates /\ m.rejected = st.rejected
            /\ m = st \/ (ServerMode /\ m.etag = None)
        BY <1>1 DEF Loaded, SyncStates, Opt
      <3>3. CASE sync' = f(m)
        BY <1>1, <3>2, <3>3 DEF Processes, Points
      <3>4. CASE Outcome # None /\ Outcome.act.etag = m.etag /\ sync' = p(m, Outcome)
        <4>1. /\ Outcome \in Receipts
              /\ Outcome.state = "committed" => Outcome.act \in settled
          <5>1. CASE UsableReceipt
            BY <1>1, <5>1 DEF Outcome, UsableReceipt, ReceiptInv, Opt
          <5>2. CASE ~UsableReceipt
            BY <1>1, <3>4, <5>2
               DEF Outcome, CommittedOutcome, ActiveIsCommitted, Receipts, Opt
          <5> QED BY <5>1, <5>2
        <4>2. Outcome.act.etag # None
          BY <4>1, DeliveryAssumption DEF Receipts, Activations
        <4> QED BY <1>1, <3>2, <3>4, <4>1, <4>2 DEF Processes, Points, Opt
      <3> QED BY <3>1, <3>3, <3>4
    <2> QED BY <2>1, <2>2 DEF Load, Fail
  <1>4. TypeOK'
    BY <1>2, <1>3 DEF Inv, TypeOK, Load, Opt
  <1>5. ActiveIsCommitted' /\ AgentInv' /\ ReceiptInv'
    BY <1>2 DEF Inv, Load, ActiveIsCommitted, AgentInv, ReceiptInv
  <1>6. GrantInv' /\ IssuanceIdempotent'
    BY <1>3 DEF Inv, Load, GrantInv, IssuanceIdempotent, At, DeliveryPoints
  <1>7. VerdictInv' /\ RejectInv'
    BY <1>1, <1>3 DEF Load, VerdictInv, RejectInv, At, VerdictPoints, Remembered, Forgetful
  <1> QED BY <1>4, <1>5, <1>6, <1>7 DEF Inv

\* The active pointer follows the committed verdict.
LEMMA PromoteStep ==
    ASSUME Inv, Promote
    PROVE  Inv'
  <1>1. /\ sync' \in Processes /\ ready' \in {ready, None}
        /\ \/ sync'.pc = "idle" /\ sync'.dlv = None /\ active' = active
           \/ /\ sync'.dlv = sync.dlv /\ sync'.out = sync.out /\ sync'.mem = sync.mem
              /\ \/ sync'.pc = "prove" /\ active' = sync.out.act
                 \/ sync'.pc = "clearReceipt" /\ active' = active
    BY GoShape, IdleShape DEF Inv, TypeOK, Promote, ReadsReceipt, Fail, Points
  <1>a. sync.out.act \in settled /\ settled \subseteq Activations
    BY DEF Inv, TypeOK, VerdictInv, Promote, At
  <1>2. TypeOK'
    BY <1>1, <1>a DEF Inv, TypeOK, Promote, Opt
  <1>3. ActiveIsCommitted' /\ AgentInv' /\ ReceiptInv'
    BY <1>1, <1>a DEF Inv, Promote, ActiveIsCommitted, AgentInv, ReceiptInv, Opt
  <1>4. GrantInv' /\ IssuanceIdempotent'
    BY <1>1 DEF Inv, Promote, GrantInv, IssuanceIdempotent, At, DeliveryPoints
  <1>5. VerdictInv' /\ RejectInv'
    BY <1>1 DEF Inv, Promote, VerdictInv, RejectInv, Forgetful, EarlyPoints, At, VerdictPoints
  <1> QED BY <1>2, <1>3, <1>4, <1>5 DEF Inv

\* So does the proof.
LEMMA ProveStep ==
    ASSUME Inv, Prove
    PROVE  Inv'
  <1>1. /\ sync' \in Processes /\ sync'.pc = "clearReceipt"
        /\ sync'.dlv = sync.dlv /\ sync'.out = sync.out /\ sync'.mem = sync.mem
    BY GoShape DEF Inv, TypeOK, Prove, Points
  <1>a. sync.out.act \in settled /\ settled \subseteq Activations
    BY DEF Inv, TypeOK, VerdictInv, Prove, At
  <1>2. TypeOK'
    BY <1>1, <1>a DEF Inv, TypeOK, Prove, Opt
  <1>3. ActiveIsCommitted' /\ AgentInv' /\ ReceiptInv'
    BY <1>1, <1>a DEF Inv, Prove, ActiveIsCommitted, AgentInv, ReceiptInv, Opt
  <1>4. GrantInv' /\ IssuanceIdempotent'
    BY <1>1 DEF Inv, Prove, GrantInv, IssuanceIdempotent, At, DeliveryPoints
  <1>5. VerdictInv' /\ RejectInv'
    BY <1>1 DEF Inv, Prove, VerdictInv, RejectInv, Forgetful, EarlyPoints, At, VerdictPoints
  <1> QED BY <1>2, <1>3, <1>4, <1>5 DEF Inv

\* A rejection Cloud accepted.
LEMMA DropCandidateStep ==
    ASSUME Inv, DropCandidate
    PROVE  Inv'
  <1>1. /\ sync' \in Processes /\ sync'.pc = "clearReceipt"
        /\ sync'.dlv = sync.dlv /\ sync'.out = sync.out /\ sync'.mem.etag = sync.mem.etag
        /\ sync'.mem.rejected \in {sync.mem.rejected, sync.out.act.etag}
        /\ cand' \in {cand, None}
    <2>1. CASE Go("clearReceipt")
      BY <2>1, GoShape DEF Inv, TypeOK, DropCandidate, Points
    <2> DEFINE e == sync.out.act.etag
    <2>2. CASE sync' = [sync EXCEPT !.mem.rejected = e, !.mem.age = 0, !.pc = "clearReceipt"]
      <3>1. sync \in Processes /\ sync.out \in Receipts /\ e \in Etags
        BY DEF Inv, TypeOK, DropCandidate, VerdictInv, At, VerdictPoints, Processes, Opt,
               Receipts, Activations
      <3>2. sync' = [pc |-> "clearReceipt", first |-> sync.first, out |-> sync.out,
                     mem |-> [etag |-> sync.mem.etag, phase |-> sync.mem.phase,
                              required |-> sync.mem.required, rejected |-> e, age |-> 0],
                     dlv |-> sync.dlv, seq |-> sync.seq]
        BY <2>2, <3>1 DEF Processes, SyncStates
      <3>3. sync'.mem \in SyncStates
        BY <3>1, <3>2 DEF Processes, SyncStates, Opt
      <3> QED BY <3>1, <3>2, <3>3 DEF DropCandidate, Processes, Points
    <2> QED BY <2>1, <2>2 DEF DropCandidate
  <1>2. TypeOK'
    BY <1>1 DEF Inv, TypeOK, DropCandidate, Opt
  <1>3. ActiveIsCommitted' /\ AgentInv' /\ ReceiptInv'
    BY <1>1 DEF Inv, DropCandidate, ActiveIsCommitted, AgentInv, ReceiptInv, Opt
  <1>4. GrantInv' /\ IssuanceIdempotent'
    BY <1>1 DEF Inv, DropCandidate, GrantInv, IssuanceIdempotent, At, DeliveryPoints
  <1>5. VerdictInv' /\ RejectInv'
    BY <1>1 DEF Inv, DropCandidate, VerdictInv, RejectInv, Forgetful, EarlyPoints, At, VerdictPoints, Remembered
  <1> QED BY <1>2, <1>3, <1>4, <1>5 DEF Inv

\* The receipt goes.
LEMMA ClearReceiptStep ==
    ASSUME Inv, ClearReceipt
    PROVE  Inv'
  <1>1. /\ sync' \in Processes /\ sync'.pc = "storeOutcome"
        /\ sync'.dlv = sync.dlv /\ sync'.out = sync.out /\ sync'.mem = sync.mem
    BY GoShape DEF Inv, TypeOK, ClearReceipt, Points
  <1>2. TypeOK'
    BY <1>1 DEF Inv, TypeOK, ClearReceipt, Opt
  <1>3. ActiveIsCommitted' /\ AgentInv' /\ ReceiptInv'
    BY <1>1 DEF Inv, ClearReceipt, ActiveIsCommitted, AgentInv, ReceiptInv, Opt
  <1>4. GrantInv' /\ IssuanceIdempotent'
    BY <1>1 DEF Inv, ClearReceipt, GrantInv, IssuanceIdempotent, At, DeliveryPoints
  <1>5. VerdictInv' /\ RejectInv'
    BY <1>1 DEF Inv, ClearReceipt, VerdictInv, RejectInv, Forgetful, EarlyPoints, At, VerdictPoints
  <1> QED BY <1>2, <1>3, <1>4, <1>5 DEF Inv

\* The verdict is stored.
LEMMA StoreOutcomeStep ==
    ASSUME Inv, StoreOutcome
    PROVE  Inv'
  <1> DEFINE m == IF sync.out.state = "rejected" THEN sync.mem
                  ELSE [sync.mem EXCEPT !.rejected = None, !.age = 0]
  <1>1. sync \in Processes /\ sync.mem \in SyncStates
    BY DEF Inv, TypeOK, Processes
  <1>2. m \in SyncStates /\ m.etag = sync.mem.etag /\ m.rejected \in {None, sync.mem.rejected}
    BY <1>1, ForgetShape
  <1>3. st' = m /\ sync' = [sync EXCEPT !.mem = m, !.out = None, !.pc = "fetch"]
    BY DEF StoreOutcome
  <1> HIDE DEF m
  <1>4. /\ sync' \in Processes /\ sync'.pc = "fetch" /\ sync'.mem = m
        /\ sync'.dlv = sync.dlv
    BY <1>1, <1>2, <1>3 DEF Processes, Points, Opt
  <1>5. TypeOK'
    BY <1>2, <1>3, <1>4 DEF Inv, TypeOK, StoreOutcome
  <1>6. ActiveIsCommitted' /\ AgentInv' /\ ReceiptInv'
    BY DEF Inv, StoreOutcome, ActiveIsCommitted, AgentInv, ReceiptInv
  <1>7. GrantInv' /\ IssuanceIdempotent'
    BY <1>4 DEF Inv, StoreOutcome, GrantInv, IssuanceIdempotent, At, DeliveryPoints
  <1>8. VerdictInv' /\ RejectInv'
    BY <1>2, <1>3, <1>4 DEF Inv, StoreOutcome, VerdictInv, RejectInv, Forgetful, EarlyPoints, At, VerdictPoints,
                            Remembered
  <1> QED BY <1>5, <1>6, <1>7, <1>8 DEF Inv

\* Cloud has no configuration.
LEMMA NoContentStep ==
    ASSUME Inv, NoContent
    PROVE  Inv'
  <1>1. /\ sync' \in Processes /\ sync'.pc \in {"storeWithdrawn", "mark"}
        /\ sync'.dlv \in {None, sync.dlv}
    BY GoShape, IdleShape DEF Inv, TypeOK, NoContent, Points
  <1>2. TypeOK'
    BY <1>1 DEF Inv, TypeOK, NoContent, Opt
  <1>3. ActiveIsCommitted' /\ AgentInv' /\ ReceiptInv'
    BY DEF Inv, NoContent, ActiveIsCommitted, AgentInv, ReceiptInv, Opt
  <1>4. GrantInv' /\ IssuanceIdempotent'
    BY <1>1 DEF Inv, NoContent, GrantInv, IssuanceIdempotent, At, DeliveryPoints
  <1>5. VerdictInv' /\ RejectInv'
    BY <1>1 DEF Inv, NoContent, VerdictInv, RejectInv, Forgetful, EarlyPoints, At, VerdictPoints
  <1> QED BY <1>2, <1>3, <1>4, <1>5 DEF Inv

\* The withdrawal request.
LEMMA MarkStep ==
    ASSUME Inv, Mark
    PROVE  Inv'
  <1>1. /\ sync' \in Processes /\ sync'.pc \in {"unpoint"}
        /\ \/ sync'.dlv = None
           \/ sync'.pc # "idle" /\ sync'.dlv = sync.dlv /\ sync'.mem = sync.mem
    BY GoShape, IdleShape DEF Inv, TypeOK, Mark, Points
  <1>2. TypeOK'
    BY <1>1 DEF Inv, TypeOK, Mark, Opt
  <1>3. ActiveIsCommitted' /\ AgentInv' /\ ReceiptInv'
    BY DEF Inv, Mark, ActiveIsCommitted, AgentInv, ReceiptInv, Opt
  <1>4. GrantInv' /\ IssuanceIdempotent'
    BY <1>1 DEF Inv, Mark, GrantInv, IssuanceIdempotent, At, DeliveryPoints
  <1>5. VerdictInv' /\ RejectInv'
    BY <1>1 DEF Inv, Mark, VerdictInv, RejectInv, Forgetful, EarlyPoints, At, VerdictPoints
  <1> QED BY <1>2, <1>3, <1>4, <1>5 DEF Inv

\* The candidate goes.
LEMMA UnpointStep ==
    ASSUME Inv, Unpoint
    PROVE  Inv'
  <1>1. /\ sync' \in Processes /\ sync'.pc \in {"storeWithdrawn", "store"}
        /\ \/ sync'.dlv = None
           \/ sync'.pc # "idle" /\ sync'.dlv = sync.dlv /\ sync'.mem = sync.mem
        /\ sync'.pc = "store" => sync'.dlv # None
    BY GoShape, IdleShape DEF Inv, TypeOK, Unpoint, Points
  <1>2. TypeOK'
    BY <1>1 DEF Inv, TypeOK, Unpoint, Opt
  <1>3. ActiveIsCommitted' /\ AgentInv' /\ ReceiptInv'
    BY DEF Inv, Unpoint, ActiveIsCommitted, AgentInv, ReceiptInv, Opt
  <1>4. GrantInv' /\ IssuanceIdempotent'
    BY <1>1 DEF Inv, Unpoint, GrantInv, IssuanceIdempotent, At, DeliveryPoints
  <1>5. VerdictInv' /\ RejectInv'
    BY <1>1 DEF Inv, Unpoint, VerdictInv, RejectInv, Forgetful, EarlyPoints, At, VerdictPoints
  <1> QED BY <1>2, <1>3, <1>4, <1>5 DEF Inv

\* The state of a withdrawn device.
LEMMA StoreWithdrawnStep ==
    ASSUME Inv, StoreWithdrawn
    PROVE  Inv'
  <1>1. /\ sync' \in Processes /\ sync'.pc \in {"reconcile"} /\ sync'.dlv = None
        /\ st' \in SyncStates /\ Remembered(st')
    BY IdleShape DEF StoreWithdrawn, Finish, Remembered
  <1>2. TypeOK'
    BY <1>1 DEF Inv, TypeOK, StoreWithdrawn
  <1>3. ActiveIsCommitted' /\ AgentInv' /\ ReceiptInv'
    BY DEF Inv, StoreWithdrawn, ActiveIsCommitted, AgentInv, ReceiptInv
  <1>4. GrantInv' /\ IssuanceIdempotent'
    BY <1>1 DEF Inv, StoreWithdrawn, GrantInv, IssuanceIdempotent, At, DeliveryPoints
  <1>5. VerdictInv' /\ RejectInv'
    BY <1>1 DEF VerdictInv, RejectInv, Forgetful, EarlyPoints, At, VerdictPoints
  <1> QED BY <1>2, <1>3, <1>4, <1>5 DEF Inv

\* Cloud answers 304.
LEMMA NotModifiedStep ==
    ASSUME Inv, NotModified
    PROVE  Inv'
  <1>1. /\ sync' \in Processes /\ sync'.pc \in {"idle", "reconcile"} /\ sync'.dlv = None
        /\ st' \in SyncStates /\ Remembered(st')
    <2>1. sync.mem \in SyncStates /\ st \in SyncStates /\ sync.mem = st /\ Remembered(st)
      <3>1. /\ sync.mem \in SyncStates /\ st \in SyncStates /\ Remembered(st)
            /\ sync.mem = st \/ sync.mem.etag = None
        BY DEF Inv, TypeOK, RejectInv, Forgetful, NotModified, Processes
      <3>2. sync.mem.etag # None
        BY DeliveryAssumption DEF Inv, TypeOK, Clouds, NotModified, Etags, Opt
      <3> QED BY <3>1, <3>2
    <2>2. \/ sync' = [Idle EXCEPT !.first = FALSE]
          \/ sync' = [Idle EXCEPT !.pc = "reconcile"]
      BY DEF NotModified, Finish
    <2>3. \/ st' = st
          \/ st' = [st EXCEPT !.etag = None, !.rejected = None, !.age = 0]
          \/ st.rejected = None /\ st' = [st EXCEPT !.etag = None]
      BY <2>1 DEF NotModified, Remembered
    <2>4. st' \in SyncStates /\ Remembered(st')
      BY <2>1, <2>3, ForgetShape DEF Remembered
    <2> QED BY <2>2, <2>4, IdleShape
  <1>2. TypeOK'
    BY <1>1 DEF Inv, TypeOK, NotModified
  <1>3. ActiveIsCommitted' /\ AgentInv' /\ ReceiptInv'
    BY DEF Inv, NotModified, ActiveIsCommitted, AgentInv, ReceiptInv
  <1>4. GrantInv' /\ IssuanceIdempotent'
    BY <1>1 DEF Inv, NotModified, GrantInv, IssuanceIdempotent, At, DeliveryPoints
  <1>5. VerdictInv' /\ RejectInv'
    BY <1>1 DEF VerdictInv, RejectInv, Forgetful, EarlyPoints, At, VerdictPoints
  <1> QED BY <1>2, <1>3, <1>4, <1>5 DEF Inv

\* Cloud answers with a delivery.
LEMMA OkStep ==
    ASSUME Inv, Ok
    PROVE  Inv'
  <1>1. AfterGrants(cloud.desired) \in {"store", "point", "mark"}
    BY DEF AfterGrants
  <1>2. /\ sync' \in Processes /\ sync'.pc \in {"idle", "grant", "store", "point", "mark"}
        /\ sync'.pc # "idle" => sync'.dlv # None
        /\ sync'.pc = "idle" => sync'.dlv = None
        /\ sync'.dlv # None =>
              sync'.dlv # st.etag \/ (ServerMode /\ sync'.mem.etag = None)
    <2>1. /\ sync \in Processes /\ cloud.desired.etag \in Etags
          /\ cloud.desired.etag # st.etag \/ (ServerMode /\ sync.mem.etag = None)
      BY DEF Inv, TypeOK, Clouds, Opt, Etags, Ok, RejectInv, Forgetful
    <2> DEFINE pc == IF cloud.desired.outbound THEN "grant" ELSE AfterGrants(cloud.desired)
               p == [sync EXCEPT !.dlv = cloud.desired.etag, !.pc = pc]
    <2>2. pc \in {"grant", "store", "point", "mark"}
      BY <1>1
    <2>3. sync' = Idle \/ sync' = p
      BY DEF Ok, Fail
    <2> HIDE DEF pc
    <2>4. p \in Processes /\ p.pc = pc /\ p.dlv = cloud.desired.etag /\ p.mem = sync.mem
      BY <2>1, <2>2 DEF Processes, Points, Opt
    <2> HIDE DEF p
    <2> QED BY <2>1, <2>2, <2>3, <2>4, IdleShape, DeliveryAssumption
  <1>3. TypeOK'
    BY <1>2 DEF Inv, TypeOK, Ok
  <1>4. ActiveIsCommitted' /\ AgentInv' /\ ReceiptInv'
    BY DEF Inv, Ok, ActiveIsCommitted, AgentInv, ReceiptInv
  <1>5. GrantInv' /\ IssuanceIdempotent'
    BY <1>2 DEF Inv, Ok, GrantInv, IssuanceIdempotent, At, DeliveryPoints
  <1>6. VerdictInv' /\ RejectInv'
    BY <1>2 DEF Inv, Ok, VerdictInv, RejectInv, Forgetful, EarlyPoints, At, VerdictPoints
  <1> QED BY <1>3, <1>4, <1>5, <1>6 DEF Inv

\* A renewal starts.
LEMMA RefreshGrantStep ==
    ASSUME Inv, RefreshGrant
    PROVE  Inv'
  <1> DEFINE u == This.subject
             g == Grant
  <1>1. /\ u \in Subjects /\ g \in GrantStates /\ ValidGrant(g) /\ sync.dlv \in Etags
        /\ sync \in Processes /\ cloud \in Clouds /\ g = grants[u]
    BY GrantShape DEF Inv, TypeOK, RefreshGrant, At, DeliveryPoints, Grant
  <1>2. /\ sync' \in Processes /\ sync'.pc \in {"idle", "store", "point", "mark", "issue"}
        /\ \/ sync'.pc = "idle" /\ sync'.dlv = None
           \/ sync'.pc # "idle" /\ sync'.dlv = sync.dlv /\ sync'.mem = sync.mem
        /\ \/ grants' = grants /\ sync'.pc # "issue"
           \/ /\ ~g.revoked /\ ~(g.completed # 0 /\ cloud.issued[u][g.completed] = 0)
              /\ sync'.dlv = sync.dlv
              /\ StoreGrant([g EXCEPT !.pending = Transaction])
    <2>1. CASE g.revoked
      BY <1>1, <2>1, IdleShape DEF RefreshGrant, Fail
    <2>2. CASE ~g.revoked /\ Usable /\ GrantAge(g.completed) = 0
      <3>1. UseGrant(g.completed) /\ grants' = grants /\ g.completed \in 0..MaxSeq
        BY <1>1, <2>2 DEF RefreshGrant, GrantStates
      <3> QED BY <3>1, UseShape
    <2>3. CASE ~g.revoked /\ ~(Usable /\ GrantAge(g.completed) = 0)
      BY <1>1, <2>3, GoShape DEF RefreshGrant, Usable, GrantAge, Points
    <2> QED BY <2>1, <2>2, <2>3
  <1>3. CASE grants' = grants /\ sync'.pc # "issue"
    <2>1. TypeOK'
      BY <1>2, <1>3 DEF Inv, TypeOK, RefreshGrant
    <2>2. GrantInv' /\ IssuanceIdempotent'
      BY <1>1, <1>2, <1>3, DeliveryAssumption
         DEF Inv, RefreshGrant, GrantInv, IssuanceIdempotent, At, DeliveryPoints
    <2> QED BY <1>2, <2>1, <2>2
            DEF Inv, RefreshGrant, ActiveIsCommitted, AgentInv, ReceiptInv, VerdictInv,
                RejectInv, Forgetful, EarlyPoints, At, VerdictPoints
  <1> DEFINE h == [g EXCEPT !.pending = Transaction]
  <1>4. CASE /\ ~g.revoked /\ ~(g.completed # 0 /\ cloud.issued[u][g.completed] = 0)
             /\ sync'.dlv = sync.dlv /\ StoreGrant(h)
    <2>1. g.completed \in 0..MaxSeq /\ g.pending \in 0..MaxSeq /\ MaxSeq \in Nat
      BY <1>1, DeliveryAssumption DEF GrantStates
    <2>2. g.completed # MaxSeq
      <3>1. cloud.issued[u][MaxSeq] \in {None, 0} /\ MaxSeq # 0
        BY <1>1, DeliveryAssumption DEF Inv, GrantInv
      <3>2. g.completed # 0 => cloud.issued[u][g.completed] # None
        BY <1>1 DEF Inv, GrantInv
      <3> QED BY <1>4, <3>1, <3>2
    <2>3. Transaction = g.completed + 1
      BY <1>1, <2>1 DEF Transaction, ValidGrant
    <2>4. /\ h \in GrantStates /\ h.completed = g.completed /\ h.pending = g.completed + 1
          /\ h.revoked = FALSE
      BY <1>1, <1>4, <2>1, <2>2, <2>3 DEF GrantStates
    <2> HIDE DEF h
    <2>5. ValidGrant(h) /\ h.pending # 0
      BY <2>1, <2>4 DEF ValidGrant
    <2>6. /\ grants' \in [Subjects -> GrantStates] /\ \A s \in Subjects : ValidGrant(grants'[s])
          /\ grants'[u] = h /\ \A s \in Subjects \ {u} : grants'[s] = grants[s]
      BY <1>4, <2>4, <2>5, StoreShape DEF RefreshGrant, At, DeliveryPoints
    <2>7. \A s \in Subjects : /\ grants'[s].completed = grants[s].completed
                              /\ grants'[s].revoked = grants[s].revoked
      BY <1>1, <1>4, <2>4, <2>6 DEF GrantStates
    <2>8. TypeOK'
      BY <1>2, <2>6 DEF Inv, TypeOK, RefreshGrant
    <2>9. IssuanceIdempotent'
      BY <2>7 DEF Inv, IssuanceIdempotent, RefreshGrant
    <2>10. GrantInv'
      <3>1. At("issue")' => Grant'.pending # 0 /\ ~Grant'.revoked
        BY <1>4, <2>4, <2>5, <2>6 DEF Grant, This
      <3>2. sync'.dlv # None
        BY <1>1, <1>4, DeliveryAssumption
      <3> QED BY <3>1, <3>2, <2>7 DEF Inv, GrantInv, RefreshGrant
    <2> QED BY <1>2, <2>8, <2>9, <2>10
            DEF Inv, RefreshGrant, ActiveIsCommitted, AgentInv, ReceiptInv, VerdictInv,
                RejectInv, Forgetful, EarlyPoints, At, VerdictPoints
  <1> QED BY <1>2, <1>3, <1>4

\* A renewal is answered.
LEMMA IssueStep ==
    ASSUME Inv, Issue
    PROVE  Inv'
  <1> DEFINE u == This.subject
             g == Grant
             h == [g EXCEPT !.completed = g.pending, !.pending = 0]
  <1>1. /\ u \in Subjects /\ g \in GrantStates /\ sync.dlv \in Etags /\ ~g.revoked
        /\ g = grants[u]
    BY GrantShape DEF Inv, GrantInv, Issue, At, DeliveryPoints, Grant
  <1>2. /\ g.pending \in 1..MaxSeq /\ g.pending = g.completed + 1
        /\ cloud' \in Clouds
        /\ \A s \in Subjects : \A q \in 1..MaxSeq :
              /\ cloud.issued[s][q] # None => cloud'.issued[s][q] = cloud.issued[s][q]
              /\ cloud.issued[s][q] = None /\ cloud'.issued[s][q] # None =>
                    s = u /\ q = g.pending /\ cloud'.issued[s][q] = 0
        /\ cloud'.issued[u][g.pending] # None
    BY IssuedShape DEF Issue
  <1>3. /\ h \in GrantStates /\ h.completed = g.pending /\ h.pending = 0 /\ ~h.revoked
    <2>1. g.pending \in 0..MaxSeq /\ 0 \in 0..MaxSeq
      BY <1>1, DeliveryAssumption DEF GrantStates
    <2> DEFINE c == [g EXCEPT !.completed = g.pending]
    <2> HIDE DEF g
    <2>2. c \in GrantStates /\ c.completed = g.pending /\ c.revoked = g.revoked
      BY <1>1, <2>1 DEF GrantStates
    <2> HIDE DEF c
    <2>3. /\ [c EXCEPT !.pending = 0] \in GrantStates
          /\ [c EXCEPT !.pending = 0].completed = g.pending
          /\ [c EXCEPT !.pending = 0].pending = 0
          /\ [c EXCEPT !.pending = 0].revoked = g.revoked
      BY <2>1, <2>2 DEF GrantStates
    <2> QED BY <1>1, <2>3 DEF c
  <1> HIDE DEF h
  <1>4. ValidGrant(h)
    BY <1>3 DEF ValidGrant
  <1>5. /\ sync' \in Processes /\ sync'.pc \in {"idle", "store", "point", "mark"}
        /\ \/ sync'.pc = "idle" /\ sync'.dlv = None
           \/ sync'.pc # "idle" /\ sync'.dlv = sync.dlv /\ sync'.mem = sync.mem
        /\ \/ grants' = grants
           \/ StoreGrant(h)
    <2>1. CASE AnswerExpired
      BY <2>1, IdleShape DEF Issue, Fail
    <2>2. CASE ~AnswerExpired
      <3>1. UseGrant(g.pending) /\ StoreGrant(h) /\ g.pending \in 0..MaxSeq
        BY <1>2, <2>2, DeliveryAssumption DEF Issue, h
      <3> QED BY <3>1, UseShape
    <2> QED BY <2>1, <2>2
  <1>6. /\ grants' \in [Subjects -> GrantStates] /\ \A s \in Subjects : ValidGrant(grants'[s])
        /\ grants'[u] = g \/ grants'[u] = h
        /\ \A s \in Subjects \ {u} : grants'[s] = grants[s]
    <2>1. CASE grants' = grants
      BY <1>1, <2>1 DEF Inv, TypeOK
    <2>2. CASE StoreGrant(h)
      BY <1>3, <1>4, <2>2, StoreShape DEF Issue, At, DeliveryPoints
    <2> QED BY <1>5, <2>1, <2>2
  <1>7. TypeOK'
    BY <1>2, <1>5, <1>6 DEF Inv, TypeOK, Issue
  <1>8. MaxSeq \in 1..MaxSeq /\ \A s \in Subjects : grants[s].completed \in 0..MaxSeq
    BY DeliveryAssumption DEF Inv, TypeOK, GrantStates
  <1>9. IssuanceIdempotent'
    <2> SUFFICES ASSUME NEW s \in Subjects, NEW q \in 1..MaxSeq,
                        cloud'.issued[s][q] # None, ~grants'[s].revoked
                 PROVE  q <= grants'[s].completed + 1
      BY DEF IssuanceIdempotent
    <2>1. CASE s # u
      BY <1>2, <1>6, <2>1 DEF Inv, IssuanceIdempotent
    <2>2. CASE s = u
      <3>1. q <= g.completed + 1
        BY <1>1, <1>2, <2>2 DEF Inv, IssuanceIdempotent
      <3> QED BY <1>1, <1>2, <1>3, <1>6, <1>8, <2>2, <3>1
    <2> QED BY <2>1, <2>2
  <1>10. GrantInv'
    <2>1. ASSUME NEW s \in Subjects
          PROVE  /\ grants'[s].completed # 0 => cloud'.issued[s][grants'[s].completed] # None
                 /\ cloud'.issued[s][MaxSeq] \in {None, 0}
      <3>1. cloud'.issued[s][MaxSeq] \in {None, 0}
        BY <1>2, <1>8 DEF Inv, GrantInv
      <3>2. grants[s].completed # 0 => cloud'.issued[s][grants[s].completed] # None
        BY <1>2, <1>8 DEF Inv, GrantInv
      <3> QED BY <1>1, <1>2, <1>3, <1>6, <3>1, <3>2
    <2> QED BY <1>1, <1>5, <2>1, DeliveryAssumption DEF GrantInv, At, DeliveryPoints
  <1> QED BY <1>5, <1>7, <1>9, <1>10
          DEF Inv, Issue, ActiveIsCommitted, AgentInv, ReceiptInv, VerdictInv, RejectInv, Forgetful, EarlyPoints, At,
              VerdictPoints

\* A request or its answer is lost.
LEMMA IssueFailsStep ==
    ASSUME Inv, IssueFails
    PROVE  Inv'
  <1> DEFINE u == This.subject
             g == Grant
  <1>1. /\ u \in Subjects /\ g \in GrantStates /\ sync.dlv \in Etags /\ g = grants[u]
    BY GrantShape DEF Inv, IssueFails, At, DeliveryPoints, Grant
  <1>2. /\ g.pending = g.completed + 1
        /\ cloud' \in Clouds
        /\ \A s \in Subjects : \A q \in 1..MaxSeq :
              /\ cloud.issued[s][q] # None => cloud'.issued[s][q] = cloud.issued[s][q]
              /\ cloud.issued[s][q] = None /\ cloud'.issued[s][q] # None =>
                    s = u /\ q = g.pending /\ cloud'.issued[s][q] = 0
    BY IssuedShape DEF IssueFails, Inv, TypeOK
  <1>3. /\ sync' \in Processes /\ sync'.pc \in {"idle", "store", "point", "mark"}
        /\ \/ sync'.pc = "idle" /\ sync'.dlv = None
           \/ sync'.pc # "idle" /\ sync'.dlv = sync.dlv /\ sync'.mem = sync.mem
    <2>1. CASE Usable
      <3>1. UseGrant(g.completed) /\ g.completed \in 0..MaxSeq
        BY <1>1, <2>1 DEF IssueFails, GrantStates
      <3> QED BY <3>1, UseShape
    <2>2. CASE ~Usable
      BY <2>2, IdleShape DEF IssueFails, Fail
    <2> QED BY <2>1, <2>2
  <1>4. TypeOK'
    BY <1>2, <1>3, DeliveryAssumption DEF Inv, TypeOK, IssueFails
  <1>5. MaxSeq \in 1..MaxSeq /\ \A s \in Subjects : grants[s].completed \in 0..MaxSeq
    BY DeliveryAssumption DEF Inv, TypeOK, GrantStates
  <1>6. IssuanceIdempotent'
    <2> SUFFICES ASSUME NEW s \in Subjects, NEW q \in 1..MaxSeq,
                        cloud'.issued[s][q] # None, ~grants[s].revoked
                 PROVE  q <= grants[s].completed + 1
      BY DEF IssuanceIdempotent, IssueFails
    <2> QED BY <1>1, <1>2, <1>5 DEF Inv, IssuanceIdempotent
  <1>7. GrantInv'
    <2>1. ASSUME NEW s \in Subjects
          PROVE  /\ grants[s].completed # 0 => cloud'.issued[s][grants[s].completed] # None
                 /\ cloud'.issued[s][MaxSeq] \in {None, 0}
      BY <1>2, <1>5 DEF Inv, GrantInv
    <2> QED BY <1>1, <1>3, <2>1, DeliveryAssumption DEF GrantInv, At, DeliveryPoints, IssueFails
  <1> QED BY <1>3, <1>4, <1>6, <1>7
          DEF Inv, IssueFails, ActiveIsCommitted, AgentInv, ReceiptInv, VerdictInv, RejectInv, Forgetful, EarlyPoints,
              At, VerdictPoints

\* Cloud refuses the identity.
LEMMA DenyGrantStep ==
    ASSUME Inv, DenyGrant
    PROVE  Inv'
  <1> DEFINE u == This.subject
             h == [completed |-> 0, pending |-> 0, revoked |-> TRUE]
  <1>1. h \in GrantStates /\ ValidGrant(h) /\ u \in Subjects
    BY GrantShape, DeliveryAssumption
       DEF GrantStates, ValidGrant, DenyGrant, At, DeliveryPoints
  <1>2. h.revoked /\ h.completed = 0
    OBVIOUS
  <1>3. StoreGrant(h)
    BY DEF DenyGrant
  <1> HIDE DEF h
  <1>4. /\ grants' \in [Subjects -> GrantStates] /\ \A s \in Subjects : ValidGrant(grants'[s])
        /\ grants'[u] = h /\ \A s \in Subjects \ {u} : grants'[s] = grants[s]
    BY <1>1, <1>3, StoreShape DEF DenyGrant, At, DeliveryPoints
  <1>5. sync' \in Processes /\ sync'.pc = "idle" /\ sync'.dlv = None
    BY IdleShape DEF DenyGrant, Fail
  <1>6. TypeOK'
    BY <1>4, <1>5, DeliveryAssumption DEF Inv, TypeOK, DenyGrant
  <1>7. IssuanceIdempotent' /\ GrantInv'
    BY <1>2, <1>4, <1>5 DEF Inv, IssuanceIdempotent, GrantInv, DenyGrant, At, DeliveryPoints
  <1> QED BY <1>5, <1>6, <1>7
          DEF Inv, DenyGrant, ActiveIsCommitted, AgentInv, ReceiptInv, VerdictInv, RejectInv, Forgetful, EarlyPoints,
              At, VerdictPoints

\* Cloud wants another policy.
LEMMA ResyncStep ==
    ASSUME Inv, Resync
    PROVE  Inv'
  <1>1. /\ sync' \in Processes /\ sync'.pc \in {"idle"} /\ sync'.dlv = None
        /\ st' \in SyncStates /\ Remembered(st')
    <2>1. sync.mem \in SyncStates /\ sync.first \in BOOLEAN
      BY DEF Inv, TypeOK, Processes
    <2>2. st' \in SyncStates /\ Remembered(st')
      BY <2>1, ForgetShape DEF Resync, Remembered
    <2> QED BY <2>1, <2>2, IdleShape DEF Resync
  <1>2. TypeOK'
    BY <1>1 DEF Inv, TypeOK, Resync
  <1>3. ActiveIsCommitted' /\ AgentInv' /\ ReceiptInv'
    BY DEF Inv, Resync, ActiveIsCommitted, AgentInv, ReceiptInv
  <1>4. GrantInv' /\ IssuanceIdempotent'
    BY <1>1 DEF Inv, Resync, GrantInv, IssuanceIdempotent, At, DeliveryPoints
  <1>5. VerdictInv' /\ RejectInv'
    BY <1>1 DEF VerdictInv, RejectInv, Forgetful, EarlyPoints, At, VerdictPoints
  <1> QED BY <1>2, <1>3, <1>4, <1>5 DEF Inv

\* A candidate is published.
LEMMA PointStep ==
    ASSUME Inv, Point
    PROVE  Inv'
  <1>1. /\ sync' \in Processes /\ sync'.pc \in {"idle", "store"}
        /\ \/ sync'.dlv = None
           \/ sync'.pc # "idle" /\ sync'.dlv = sync.dlv /\ sync'.mem = sync.mem
        /\ sync.dlv \in Etags
        /\ sync'.pc = "store" => sync'.dlv = sync.dlv
        /\ cand' \in Opt(Activations)
    <2>1. sync \in Processes /\ sync.dlv \in Etags /\ sync.seq \in 0..MaxSeq /\ cand \in Opt(Activations)
      BY DEF Inv, TypeOK, Processes, Opt, GrantInv, Point, At, DeliveryPoints
    <2>2. ActivationOf(sync.dlv, sync.seq) \in Activations
      BY <2>1 DEF ActivationOf, Activations
    <2> QED BY <2>1, <2>2, GoShape, IdleShape DEF Point, Fail, Points, Opt
  <1>2. TypeOK'
    BY <1>1 DEF Inv, TypeOK, Point
  <1>3. ActiveIsCommitted' /\ AgentInv' /\ ReceiptInv'
    BY DEF Inv, Point, ActiveIsCommitted, AgentInv, ReceiptInv
  <1>4. GrantInv' /\ IssuanceIdempotent'
    BY <1>1, DeliveryAssumption DEF Inv, Point, GrantInv, IssuanceIdempotent, At, DeliveryPoints
  <1>5. VerdictInv' /\ RejectInv'
    BY <1>1 DEF Inv, Point, VerdictInv, RejectInv, Forgetful, EarlyPoints, At, VerdictPoints
  <1> QED BY <1>2, <1>3, <1>4, <1>5 DEF Inv

\* The delivery is stored.
LEMMA StoreStep ==
    ASSUME Inv, Store
    PROVE  Inv'
  <1>1. /\ sync' \in Processes /\ sync'.pc \in {"reconcile"} /\ sync'.dlv = None
        /\ st' \in SyncStates /\ Remembered(st')
    <2>1. sync.dlv \in Etags
      BY DEF Inv, TypeOK, Processes, Opt, GrantInv, Store, At, DeliveryPoints
    <2>2. This \in Deliveries /\ This.etag \in Etags
      BY <2>1, DeliveryShape DEF This
    <2>3. This.phase \in {"prepare", "commit"}
      BY <2>2, DeliveryAssumption
    <2>4. st' \in SyncStates /\ Remembered(st')
      BY <2>2, <2>3 DEF Store, SyncStates, Opt, Remembered
    <2> QED BY <2>4, IdleShape DEF Store, Finish
  <1>2. TypeOK'
    BY <1>1 DEF Inv, TypeOK, Store
  <1>3. ActiveIsCommitted' /\ AgentInv' /\ ReceiptInv'
    BY DEF Inv, Store, ActiveIsCommitted, AgentInv, ReceiptInv
  <1>4. GrantInv' /\ IssuanceIdempotent'
    BY <1>1 DEF Inv, Store, GrantInv, IssuanceIdempotent, At, DeliveryPoints
  <1>5. VerdictInv' /\ RejectInv'
    BY <1>1 DEF VerdictInv, RejectInv, Forgetful, EarlyPoints, At, VerdictPoints
  <1> QED BY <1>2, <1>3, <1>4, <1>5 DEF Inv

\* sync-once ends where it is.
LEMMA InterruptStep ==
    ASSUME Inv, Interrupt
    PROVE  Inv'
  <1>1. /\ sync' \in Processes /\ sync'.pc \in {"idle"}
        /\ \/ sync'.dlv = None
           \/ sync'.pc # "idle" /\ sync'.dlv = sync.dlv /\ sync'.mem = sync.mem
    BY GoShape, IdleShape DEF Inv, TypeOK, Interrupt, Fail, Points
  <1>2. TypeOK'
    BY <1>1, DeliveryAssumption DEF Inv, TypeOK, Interrupt, Opt
  <1>3. ActiveIsCommitted' /\ AgentInv' /\ ReceiptInv'
    BY DEF Inv, Interrupt, ActiveIsCommitted, AgentInv, ReceiptInv, Opt
  <1>4. GrantInv' /\ IssuanceIdempotent'
    BY <1>1 DEF Inv, Interrupt, GrantInv, IssuanceIdempotent, At, DeliveryPoints
  <1>5. VerdictInv' /\ RejectInv'
    BY <1>1 DEF Inv, Interrupt, VerdictInv, RejectInv, Forgetful, EarlyPoints, At, VerdictPoints
  <1> QED BY <1>2, <1>3, <1>4, <1>5 DEF Inv

\* The service script looks at the pointers.
LEMMA ReconcileStep ==
    ASSUME Inv, Reconcile
    PROVE  Inv'
  <1>1. /\ sync' \in Processes /\ sync'.pc \in {"idle", "clearActive"}
        /\ \/ sync'.dlv = None
           \/ sync'.pc # "idle" /\ sync'.dlv = sync.dlv /\ sync'.mem = sync.mem
    BY GoShape, IdleShape DEF Inv, TypeOK, Reconcile, Fail, Points
  <1>2. TypeOK'
    BY <1>1 DEF Inv, TypeOK, Reconcile, Opt
  <1>3. ActiveIsCommitted' /\ AgentInv' /\ ReceiptInv'
    BY DEF Inv, Reconcile, ActiveIsCommitted, AgentInv, ReceiptInv, Opt
  <1>4. GrantInv' /\ IssuanceIdempotent'
    BY <1>1 DEF Inv, Reconcile, GrantInv, IssuanceIdempotent, At, DeliveryPoints
  <1>5. VerdictInv' /\ RejectInv'
    BY <1>1 DEF Inv, Reconcile, VerdictInv, RejectInv, Forgetful, EarlyPoints, At, VerdictPoints
  <1> QED BY <1>2, <1>3, <1>4, <1>5 DEF Inv

\* The loop defers its reconciliation.
LEMMA DeferStep ==
    ASSUME Inv, Defer
    PROVE  Inv'
  <1>1. sync' \in Processes /\ sync'.pc = "idle" /\ sync'.dlv = None
    BY IdleShape DEF Defer, Fail
  <1>2. TypeOK'
    BY <1>1 DEF Inv, TypeOK, Defer
  <1>3. ActiveIsCommitted' /\ AgentInv' /\ ReceiptInv'
    BY DEF Inv, Defer, ActiveIsCommitted, AgentInv, ReceiptInv
  <1>4. GrantInv' /\ IssuanceIdempotent'
    BY <1>1 DEF Inv, Defer, GrantInv, IssuanceIdempotent, At, DeliveryPoints
  <1>5. VerdictInv' /\ RejectInv'
    BY <1>1 DEF Inv, Defer, VerdictInv, RejectInv, Forgetful, EarlyPoints, At, VerdictPoints
  <1> QED BY <1>2, <1>3, <1>4, <1>5 DEF Inv

\* The active pointer goes.
LEMMA ClearActiveStep ==
    ASSUME Inv, ClearActive
    PROVE  Inv'
  <1>1. /\ sync' \in Processes /\ sync'.pc \in {"clearProof"}
        /\ \/ sync'.dlv = None
           \/ sync'.pc # "idle" /\ sync'.dlv = sync.dlv /\ sync'.mem = sync.mem
    BY GoShape, IdleShape DEF Inv, TypeOK, ClearActive, Points
  <1>2. TypeOK'
    BY <1>1 DEF Inv, TypeOK, ClearActive, Opt
  <1>3. ActiveIsCommitted' /\ AgentInv' /\ ReceiptInv'
    BY DEF Inv, ClearActive, ActiveIsCommitted, AgentInv, ReceiptInv, Opt
  <1>4. GrantInv' /\ IssuanceIdempotent'
    BY <1>1 DEF Inv, ClearActive, GrantInv, IssuanceIdempotent, At, DeliveryPoints
  <1>5. VerdictInv' /\ RejectInv'
    BY <1>1 DEF Inv, ClearActive, VerdictInv, RejectInv, Forgetful, EarlyPoints, At, VerdictPoints
  <1> QED BY <1>2, <1>3, <1>4, <1>5 DEF Inv

\* The proof goes.
LEMMA ClearProofStep ==
    ASSUME Inv, ClearProof
    PROVE  Inv'
  <1>1. /\ sync' \in Processes /\ sync'.pc \in {"clearMarker"}
        /\ \/ sync'.dlv = None
           \/ sync'.pc # "idle" /\ sync'.dlv = sync.dlv /\ sync'.mem = sync.mem
    BY GoShape, IdleShape DEF Inv, TypeOK, ClearProof, Points
  <1>2. TypeOK'
    BY <1>1 DEF Inv, TypeOK, ClearProof, Opt
  <1>3. ActiveIsCommitted' /\ AgentInv' /\ ReceiptInv'
    BY DEF Inv, ClearProof, ActiveIsCommitted, AgentInv, ReceiptInv, Opt
  <1>4. GrantInv' /\ IssuanceIdempotent'
    BY <1>1 DEF Inv, ClearProof, GrantInv, IssuanceIdempotent, At, DeliveryPoints
  <1>5. VerdictInv' /\ RejectInv'
    BY <1>1 DEF Inv, ClearProof, VerdictInv, RejectInv, Forgetful, EarlyPoints, At, VerdictPoints
  <1> QED BY <1>2, <1>3, <1>4, <1>5 DEF Inv

\* The withdrawal is finished.
LEMMA ClearMarkerStep ==
    ASSUME Inv, ClearMarker
    PROVE  Inv'
  <1>1. /\ sync' \in Processes /\ sync'.pc \in {"idle"}
        /\ \/ sync'.dlv = None
           \/ sync'.pc # "idle" /\ sync'.dlv = sync.dlv /\ sync'.mem = sync.mem
    BY GoShape, IdleShape DEF Inv, TypeOK, ClearMarker, Fail, Points
  <1>2. TypeOK'
    BY <1>1 DEF Inv, TypeOK, ClearMarker, Opt
  <1>3. ActiveIsCommitted' /\ AgentInv' /\ ReceiptInv'
    BY DEF Inv, ClearMarker, ActiveIsCommitted, AgentInv, ReceiptInv, Opt
  <1>4. GrantInv' /\ IssuanceIdempotent'
    BY <1>1 DEF Inv, ClearMarker, GrantInv, IssuanceIdempotent, At, DeliveryPoints
  <1>5. VerdictInv' /\ RejectInv'
    BY <1>1 DEF Inv, ClearMarker, VerdictInv, RejectInv, Forgetful, EarlyPoints, At, VerdictPoints
  <1> QED BY <1>2, <1>3, <1>4, <1>5 DEF Inv

\* Time passes.
LEMMA TickStep ==
    ASSUME Inv, Tick
    PROVE  Inv'
  <1> DEFINE iss == [s \in Subjects |-> [q \in 1..MaxSeq |->
                        LET age == cloud.issued[s][q]
                        IN IF age \in 0..1 /\ q < MaxSeq THEN age + 1 ELSE age]]
  <1>1. cloud \in Clouds /\ st \in SyncStates /\ MaxSeq \in Nat \ {0}
    BY DeliveryAssumption DEF Inv, TypeOK
  <1>2. cloud' = [cloud EXCEPT !.issued = iss]
    BY DEF Tick
  <1>3. ASSUME NEW s \in Subjects, NEW q \in 1..MaxSeq
        PROVE  /\ iss[s][q] \in Ages
               /\ iss[s][q] = None <=> cloud.issued[s][q] = None
               /\ q = MaxSeq => iss[s][q] = cloud.issued[s][q]
    <2>1. iss[s][q] = IF cloud.issued[s][q] \in 0..1 /\ q < MaxSeq
                      THEN cloud.issued[s][q] + 1 ELSE cloud.issued[s][q]
      OBVIOUS
    <2>2. cloud.issued[s][q] \in Ages
      BY <1>1 DEF Clouds
    <2> QED BY <1>1, <2>1, <2>2, NoneAssumption DEF Ages, Opt
  <1>4. iss \in [Subjects -> [1..MaxSeq -> Ages]]
    BY <1>3
  <1> HIDE DEF iss
  <1>5. cloud' \in Clouds /\ cloud'.issued = iss
    BY <1>1, <1>2, <1>4 DEF Clouds
  <1>6. st' \in SyncStates /\ st'.etag = st.etag /\ st'.rejected = st.rejected
    BY <1>1 DEF Tick, SyncStates
  <1>7. TypeOK'
    BY <1>5, <1>6 DEF Inv, TypeOK, Tick
  <1>8. IssuanceIdempotent'
    BY <1>3, <1>5 DEF Inv, IssuanceIdempotent, Tick
  <1>9. GrantInv'
    <2>1. ASSUME NEW s \in Subjects
          PROVE  /\ grants[s].completed # 0 => iss[s][grants[s].completed] # None
                 /\ iss[s][MaxSeq] \in {None, 0}
      <3>1. grants[s].completed \in 0..MaxSeq
        BY DEF Inv, TypeOK, GrantStates
      <3> QED BY <1>1, <1>3, <3>1 DEF Inv, GrantInv
    <2> QED BY <1>5, <2>1 DEF Inv, GrantInv, Tick, At, DeliveryPoints
  <1>10. VerdictInv' /\ RejectInv'
    BY <1>6 DEF Inv, VerdictInv, RejectInv, Forgetful, EarlyPoints, Remembered, Tick, At, VerdictPoints
  <1> QED BY <1>7, <1>8, <1>9, <1>10 DEF Inv, Tick, ActiveIsCommitted, AgentInv, ReceiptInv

\* Cloud publishes another delivery.
LEMMA CloudPublishesStep ==
    ASSUME Inv, CloudPublishes
    PROVE  Inv'
  <1>1. cloud' \in Clouds /\ cloud'.issued = cloud.issued
    BY DEF Inv, TypeOK, CloudPublishes, Clouds, Opt
  <1>2. TypeOK'
    BY <1>1 DEF Inv, TypeOK, CloudPublishes
  <1>3. GrantInv' /\ IssuanceIdempotent'
    BY <1>1 DEF Inv, CloudPublishes, GrantInv, IssuanceIdempotent, At, Grant, This
  <1> QED BY <1>2, <1>3
          DEF Inv, CloudPublishes, ActiveIsCommitted, AgentInv, ReceiptInv, VerdictInv, RejectInv, Forgetful, EarlyPoints, At

\* The user ends a stop.
LEMMA UserStartsStep ==
    ASSUME Inv, UserStarts
    PROVE  Inv'
  BY DEF Inv, UserStarts, TypeOK, ActiveIsCommitted, AgentInv, ReceiptInv, VerdictInv, GrantInv,
         IssuanceIdempotent, RejectInv, Forgetful, At, Grant, This

\* The agent at work beside sync-once, or ended by the user.
LEMMA AgentLaneStep ==
    ASSUME Inv, AgentStep(Supervised /\ AgentWorks) \/ AgentFault \/ UserStops
    PROVE  Inv'
  <1>1. /\ UNCHANGED <<cloud, st, active, proof, marker, grants, sync>>
        /\ faults' \in 0..MaxFaults /\ stopped' \in BOOLEAN
    <2>1. CASE AgentStep(Supervised /\ AgentWorks)
      BY <2>1 DEF Inv, TypeOK, AgentStep
    <2>2. CASE AgentFault \/ UserStops
      <3>1. /\ UNCHANGED <<cloud, st, active, proof, marker, grants, sync>>
            /\ faults < MaxFaults /\ faults' = faults + 1
            /\ stopped' = stopped \/ stopped' = TRUE
        BY <2>2, Zenon DEF AgentFault, UserStops
      <3>2. faults' \in 0..MaxFaults
        BY <3>1, DeliveryAssumption DEF Inv, TypeOK
      <3> QED BY <3>1, <3>2 DEF Inv, TypeOK
    <2> QED BY <2>1, <2>2
  <1>2. /\ cand' = cand /\ agent' \in Agents /\ AgentInv'
        /\ ready' \in Opt(Receipts) /\ ReceiptInv'
        /\ settled \subseteq settled' /\ settled' \subseteq Activations
    <2>1. CASE AgentWorks \/ AgentFails
      BY <2>1, AgentActs DEF Inv
    <2>2. CASE UNCHANGED <<cand, ready, agent, settled>>
      BY <2>2 DEF Inv, TypeOK, AgentInv, ReceiptInv
    <2> QED BY <2>1, <2>2 DEF AgentStep, AgentFault, UserStops, AgentFails
  <1>3. TypeOK'
    BY <1>1, <1>2 DEF Inv, TypeOK
  <1>4. GrantInv' /\ IssuanceIdempotent'
    BY <1>1 DEF Inv, GrantInv, IssuanceIdempotent, At, Grant, This
  <1>5. ActiveIsCommitted' /\ VerdictInv' /\ RejectInv'
    BY <1>1, <1>2 DEF Inv, ActiveIsCommitted, VerdictInv, RejectInv, Forgetful, EarlyPoints, At, Opt
  <1> QED BY <1>2, <1>3, <1>4, <1>5 DEF Inv

-----------------------------------------------------------------------------
(* The theorems                                                            *)

\* The invariant holds when the device starts.
LEMMA InitInv == Init => Inv
  <1> SUFFICES ASSUME Init PROVE Inv
    OBVIOUS
  <1>1. PICK d \in Opt(Deliveries) :
            cloud = [desired |-> d,
                     issued |-> [s \in Subjects |-> [q \in 1..MaxSeq |-> None]]]
    BY DEF Init
  <1>2. /\ cloud \in Clouds
        /\ \A s \in Subjects : \A q \in 1..MaxSeq : cloud.issued[s][q] = None
    BY <1>1 DEF Clouds, Ages, Opt
  <1>3. NewGrant \in GrantStates /\ ValidGrant(NewGrant) /\ NewGrant.completed = 0
    BY DeliveryAssumption DEF NewGrant, GrantStates, ValidGrant
  <1>4. st \in SyncStates /\ st.rejected = None
    BY IdleShape, DeliveryAssumption DEF Init, SyncStates, Opt
  <1>5. NoAgent \in Agents /\ NoAgent.state = "down" /\ NoAgent.next = None
    BY DEF NoAgent, Agents, Opt
  <1>6. TypeOK
    <2>1. /\ grants \in [Subjects -> GrantStates]
          /\ \A s \in Subjects : ValidGrant(grants[s])
      BY <1>3 DEF Init
    <2>2. 0 \in 0..MaxFaults
      BY DeliveryAssumption
    <2> QED BY <1>2, <1>4, <1>5, <2>1, <2>2, IdleShape DEF Init, TypeOK, Opt
  <1>7. GrantInv /\ IssuanceIdempotent
    BY <1>2, <1>3, IdleShape, DeliveryAssumption
       DEF Init, GrantInv, IssuanceIdempotent, At, DeliveryPoints
  <1> QED BY <1>4, <1>5, <1>6, <1>7, IdleShape
          DEF Init, Inv, ActiveIsCommitted, AgentInv, ReceiptInv, VerdictInv, RejectInv, Forgetful, EarlyPoints,
              Remembered, At, VerdictPoints, Opt

\* Every step of sync-once, the agent, Cloud and time preserves it.
LEMMA NextInv == Inv /\ [Next]_vars => Inv'
  <1> SUFFICES ASSUME Inv, [Next]_vars PROVE Inv'
    OBVIOUS
  <1>1. CASE UNCHANGED vars
    BY <1>1 DEF vars, Inv, TypeOK, ActiveIsCommitted, AgentInv, ReceiptInv, VerdictInv,
                GrantInv, IssuanceIdempotent, RejectInv, Forgetful, EarlyPoints, At, Grant, This
  <1>2. CASE SyncOnce
    BY <1>2, LoadStep, PromoteStep, ProveStep, DropCandidateStep, ClearReceiptStep,
       StoreOutcomeStep, NoContentStep, MarkStep, UnpointStep, StoreWithdrawnStep,
       NotModifiedStep, OkStep, RefreshGrantStep, IssueStep, ResyncStep, PointStep,
       StoreStep, DeferStep, ReconcileStep, ClearActiveStep, ClearProofStep, ClearMarkerStep
       DEF SyncOnce
  <1>3. CASE IssueFails \/ DenyGrant \/ Interrupt \/ Tick \/ CloudPublishes \/ UserStarts
    BY <1>3, IssueFailsStep, DenyGrantStep, InterruptStep, TickStep, CloudPublishesStep,
       UserStartsStep
  <1>4. CASE AgentStep(Supervised /\ AgentWorks) \/ AgentFault \/ UserStops
    BY <1>4, AgentLaneStep
  <1> QED BY <1>1, <1>2, <1>3, <1>4 DEF Next

\* The inductive invariant.
LEMMA SpecInv == Spec => []Inv
  BY InitInv, NextInv, PTL DEF Spec

\* Whatever the agent rewrites while sync-once promotes a verdict, and
\* wherever sync-once is cut short, the active pointer and its proof only name
\* activations some agent committed, and every file stays well formed
\* (promote_committed_activation, write_active_activation_proof).
THEOREM Promotion == Spec => []ActiveSound
  <1>1. Inv => ActiveSound
    BY DEF Inv, ActiveSound
  <1> QED BY <1>1, SpecInv, PTL

\* However often a renewal is lost, interrupted or repeated, and for any
\* number of subjects and renewals, Cloud has never seen a request id beyond
\* the transaction after the last completed one (refresh_with_clock).
THEOREM Renewal == Spec => []IssuanceIdempotent
  <1>1. Inv => IssuanceIdempotent
    BY DEF Inv
  <1> QED BY <1>1, SpecInv, PTL

\* A recent rejection is forgotten or overtaken only when sync-once holds
\* another delivery, a later verdict or a withdrawal, or when a server found
\* its own configuration changed (sync_once_with_retry).
THEOREM Rejection == Spec => RejectionHolds
  <1> DEFINE P == (/\ st.rejected # None /\ st.age = 0
                   /\ \/ st'.rejected # st.rejected
                      \/ cand' \notin {cand, None} /\ cand'.etag = st.rejected)
                  => \/ sync.dlv \notin {None, st.rejected}
                     \/ sync.out # None \/ At("storeWithdrawn")
                     \/ ServerMode /\ sync.mem.etag = None
  <1>1. ASSUME Inv, [Next]_vars PROVE [P]_vars
    <2> SUFFICES ASSUME Next, st.rejected # None, st.age = 0,
                        \/ st'.rejected # st.rejected
                        \/ cand' \notin {cand, None} /\ cand'.etag = st.rejected
                 PROVE  \/ sync.dlv \notin {None, st.rejected}
                        \/ sync.out # None \/ At("storeWithdrawn")
                        \/ ServerMode /\ sync.mem.etag = None
      BY <1>1
    <2>1. /\ st \in SyncStates /\ sync \in Processes /\ st.rejected = st.etag
          /\ sync.dlv # None =>
                 sync.dlv # st.etag \/ (ServerMode /\ sync.mem.etag = None)
          /\ At("fetch") => sync.mem = st \/ (ServerMode /\ sync.mem.etag = None)
          /\ sync.pc \in VerdictPoints => sync.out # None
          /\ sync.pc \in DeliveryPoints => sync.dlv # None
      BY <1>1 DEF Inv, TypeOK, RejectInv, Forgetful, EarlyPoints, VerdictInv, GrantInv, Remembered
    <2>2. \/ StoreOutcome \/ StoreWithdrawn \/ NotModified \/ Resync \/ Store \/ Point
          \/ st'.rejected = st.rejected /\ cand' \in {cand, None}
      <3>1. CASE Tick
        BY <2>1, <3>1 DEF Tick, SyncStates
      <3>2. CASE AgentStep(Supervised /\ AgentWorks) \/ AgentFault \/ UserStops
        BY <1>1, <3>2, AgentActs DEF Inv, AgentStep, AgentFault, UserStops, AgentFails
      <3>3. CASE DropCandidate
        BY <3>3 DEF DropCandidate
      <3>4. CASE Unpoint
        BY <3>4 DEF Unpoint
      <3> QED BY <3>1, <3>2, <3>3, <3>4
              DEF Next, SyncOnce, Load, Promote, Prove, ClearReceipt, NoContent, Mark, Ok,
                  RefreshGrant, Issue, Defer, Reconcile, ClearActive, ClearProof, ClearMarker,
                  IssueFails, DenyGrant, Interrupt, CloudPublishes, UserStarts
    <2>3. CASE StoreOutcome
      BY <2>1, <2>3 DEF StoreOutcome, At, VerdictPoints
    <2>4. CASE StoreWithdrawn
      BY <2>4 DEF StoreWithdrawn
    <2>5. CASE NotModified
      BY <2>1, <2>5 DEF NotModified, Revalidates
    <2>6. CASE Resync \/ Store \/ Point
      BY <2>1, <2>6 DEF Resync, Store, Point, At, DeliveryPoints
    <2> QED BY <2>2, <2>3, <2>4, <2>5, <2>6
  <1> QED BY <1>1, SpecInv, PTL DEF Spec, RejectionHolds

=============================================================================
