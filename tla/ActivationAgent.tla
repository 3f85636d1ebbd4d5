-------------------------- MODULE ActivationAgent --------------------------
(***************************************************************************)
(* What the SD-WAN agent promises to the processes that share its state    *)
(* directory: which activation its tunnel serves, when traffic is steered  *)
(* into it, and which receipts it leaves.  CloudSync composes this         *)
(* contract with the synchroniser; SdwanAgent, the detailed model of the   *)
(* agent, is shown to implement it.                                        *)
(***************************************************************************)
CONSTANTS
    None,
    Activations   \* immutable activations the candidate pointer may name

VARIABLES
    cand,     \* `candidate` pointer: an activation or None
    ready,    \* activation-ready-v1.json: the agent's receipt, or None
    agent,    \* the agent process and its tunnel
    settled   \* history: activations some Core committed

agentVars == <<cand, ready, agent, settled>>

Opt(S) == S \cup {None}

\* `current` is what the receipt's process proofs still show: the agent and
\* the Core it names run.
Receipts == [act : Activations, state : {"committed", "rejected"},
             current : BOOLEAN]

\* `steering`, `fallback` and `parked` differ in the policy rule and in what
\* ends the fallback: a report of readiness ends `fallback`, only a new
\* candidate ends `parked`.  `leaving`: the agent saw that the pointer is gone.
Up == {"steering", "fallback", "parked", "leaving"}

Agents ==
    [state : {"down", "starting", "retrying"} \cup Up,
     act : Opt(Activations),    \* the activation it serves or tries
     next : Opt(Activations)]   \* a replacement it is working on

NoAgent == [state |-> "down", act |-> None, next |-> None]

Committed(a) == [act |-> a, state |-> "committed", current |-> TRUE]

Rejected(a) == [act |-> a, state |-> "rejected", current |-> TRUE]

\* The receipt once a process it names is gone; a rejection names none.
Orphaned(r) ==
    IF r = None \/ r = Rejected(r.act) THEN r ELSE [r EXCEPT !.current = FALSE]

\* A receipt that is to be written, now or after the next retry.
Publishes(r) == ready' \in {ready, r}

\* write_failed_activation_receipt: only for the candidate still pointed to.
PublishesFailure(a) == ready' = IF cand = a THEN Rejected(a) ELSE None

\* Receipt removal is best effort; the processes are gone in any case.
Removes == ready' \in {Orphaned(ready), None}

AgentInit ==
    /\ cand \in Opt(Activations) /\ ready = None
    /\ agent = NoAgent /\ settled = {}

-----------------------------------------------------------------------------
Launch ==
    /\ agent.state = "down" /\ cand # None
    /\ agent' = [state |-> "starting", act |-> cand, next |-> None]
    /\ UNCHANGED <<cand, ready, settled>>

\* The start succeeds; `receipt` is what the agent leaves.
StartsLeaving(receipt) ==
    /\ agent.state = "starting"
    /\ agent' = [agent EXCEPT !.state = "steering"]
    /\ settled' = settled \cup {agent.act}
    /\ ready' = receipt
    /\ UNCHANGED cand

Commit == StartsLeaving(Committed(agent.act))

\* The receipt cannot be written; the agent tries again (Confirm).
CommitUnreported == StartsLeaving(ready)

\* The activation cannot work: one rejection, then the process ends.
StartFails ==
    /\ agent.state = "starting"
    /\ agent' = NoAgent
    /\ ready' = Orphaned(ready) \/ PublishesFailure(agent.act)
    /\ UNCHANGED <<cand, settled>>

\* A transient failure, before or after the commit: everything is to be
\* rolled back and the latest activation tried again.
Interrupted ==
    /\ agent.state \in Up \cup {"starting"}
    /\ \E a \in {agent.act, agent.next} \ {None} :
           agent' = [agent EXCEPT !.state = "retrying", !.act = a,
                                  !.next = None]
    /\ Removes \/ UNCHANGED ready
    /\ UNCHANGED <<cand, settled>>

Retry ==
    /\ agent.state = "retrying"
    /\ \/ cand = agent.act /\ agent' = [agent EXCEPT !.state = "starting"]
       \/ UNCHANGED agent
    /\ Removes
    /\ UNCHANGED <<cand, settled>>

\* A changed pointer or an expired grant ends the retries and the process.
Stop ==
    /\ agent.state = "retrying"
    /\ agent' = NoAgent
    /\ Removes
    /\ UNCHANGED <<cand, settled>>

Shutdown ==
    /\ agent.state # "down"
    /\ agent' = NoAgent
    /\ Removes
    /\ UNCHANGED <<cand, settled>>

\* A receipt that could not be written is written while the pointer still
\* names its activation.
Confirm ==
    /\ agent.state \in Up /\ cand \in settled
    /\ ready' = Committed(cand)
    /\ UNCHANGED <<cand, agent, settled>>

Fallback ==
    /\ agent.state = "steering"
    /\ agent' = [agent EXCEPT !.state = "fallback"]
    /\ UNCHANGED <<cand, ready, settled>>

\* Core reports the activation ready.
Recover ==
    /\ agent.state \in {"steering", "fallback"}
    /\ agent' = [agent EXCEPT !.state = "steering"]
    /\ settled' = settled \cup {agent.act}
    /\ Publishes(Committed(agent.act))
    /\ UNCHANGED cand

\* The pointer names another activation; while a replacement is worked on, that
\* may also be the one being served.
Notice ==
    /\ agent.state \in Up \ {"leaving"} /\ cand # None
    /\ cand # agent.act \/ agent.next # None
    /\ agent' = [agent EXCEPT !.next = cand]
    /\ UNCHANGED <<cand, ready, settled>>

\* Steering may be stopped or resumed while a replacement is worked on, for
\* the last-good activation as well.
Resteer ==
    /\ agent.next # None
    /\ \E s \in {"steering", "fallback", "parked"} :
           agent' = [agent EXCEPT !.state = s]
    /\ UNCHANGED <<cand, ready, settled>>

\* A replacement is given up; the last-good activation may be steered again.
Abandon ==
    /\ agent.next # None
    /\ \E s \in {agent.state, "steering"} :
           agent' = [agent EXCEPT !.state = s, !.next = None]
    /\ UNCHANGED <<cand, ready, settled>>

Replaced(s) == [agent EXCEPT !.state = s, !.act = agent.next, !.next = None]

\* Core committed the replacement.
Replace ==
    /\ agent.next # None
    /\ agent' = Replaced(agent.state)
    /\ settled' = settled \cup {agent.next}
    /\ Publishes(Committed(agent.next))
    /\ UNCHANGED cand

\* The commit was sent and what became of it is not known: the agent goes on
\* with the replacement and reports it once Core does (Recover).
ReplaceUnresolved ==
    /\ agent.next # None
    /\ \E s \in {"steering", "fallback"} : agent' = Replaced(s)
    /\ UNCHANGED <<cand, ready, settled>>

Reject ==
    /\ agent.next # None
    /\ agent' = [agent EXCEPT !.next = None]
    /\ \/ Publishes(Rejected(agent.next))
       \/ PublishesFailure(agent.next)
    /\ UNCHANGED <<cand, settled>>

\* A rejection that could not be written before.
RejectLate ==
    /\ agent.state \in Up /\ cand # None
    /\ ready' = Rejected(cand)
    /\ UNCHANGED <<cand, agent, settled>>

\* The pointer is gone: steering stops before the receipt is removed.
Leave ==
    /\ agent.state \in Up \ {"leaving"} /\ agent.next = None /\ cand = None
    /\ agent' = [agent EXCEPT !.state = "leaving"]
    /\ UNCHANGED <<cand, ready, settled>>

Withdraw ==
    /\ agent.state = "leaving"
    /\ agent' = [agent EXCEPT !.state = "parked"]
    /\ ready' = None
    /\ UNCHANGED <<cand, settled>>

\* Steering could not be stopped or the receipt not removed; the agent tries
\* again.
LeaveFails ==
    /\ agent.state = "leaving"
    /\ \E s \in {"steering", "parked"} : agent' = [agent EXCEPT !.state = s]
    /\ UNCHANGED <<cand, ready, settled>>

CoreExits ==
    /\ agent.state \in Up
    /\ ready # None
    /\ ready' = Orphaned(ready)
    /\ UNCHANGED <<cand, agent, settled>>

Dies ==
    /\ agent.state # "down"
    /\ agent' = NoAgent
    /\ ready' = Orphaned(ready)
    /\ UNCHANGED <<cand, settled>>

AgentWorks ==
    \/ Launch \/ Commit \/ Retry \/ Stop \/ Confirm \/ Fallback \/ Recover
    \/ Notice \/ Resteer \/ Abandon \/ Replace \/ Leave \/ Withdraw

\* What goes wrong: an activation that is refused, interrupted or cannot be
\* reported, a process that ends.
AgentFails ==
    \/ StartFails \/ CommitUnreported \/ Interrupted \/ ReplaceUnresolved
    \/ Reject \/ RejectLate \/ LeaveFails \/ Shutdown \/ CoreExits \/ Dies

\* What the other processes do to the files: they move the pointer and
\* remove receipts.
OthersAct ==
    /\ cand' \in Opt(Activations) /\ ready' \in {ready, None}
    /\ UNCHANGED <<agent, settled>>

AgentSpec ==
    AgentInit /\ [][AgentWorks \/ AgentFails \/ OthersAct]_agentVars

=============================================================================
