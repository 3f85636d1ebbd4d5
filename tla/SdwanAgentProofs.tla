-------------------------- MODULE SdwanAgentProofs --------------------------
(***************************************************************************)
(* Proofs about the SD-WAN agent: what it does to the files and to its     *)
(* tunnel is what ActivationAgent promises, step by step, for any set of   *)
(* activations, any calls that fail or lose their answer, and any number   *)
(* of such faults; and traffic is not steered into a Core that does not    *)
(* forward as long as two answers are not lost.                            *)
(***************************************************************************)
EXTENDS SdwanAgent, TLAPS

-----------------------------------------------------------------------------
(* The inductive invariant                                                 *)

TypeInv ==
    /\ cand \in Opt(Activations) /\ ready \in Opt(Contract!Receipts)
    /\ settled \subseteq Activations /\ faults \in 0..MaxFaults
    /\ proc \in Processes /\ core \in Cores /\ net \in Nets

\* A session of netd always has a transaction record.
RecordInv == net.phase # "Stopped" => net.live # None

\* Where the agent works on a replacement.
Replacing ==
    {"policy", "polNetd", "polCore", "polRestore", "corePrep", "stage", "bind",
     "undo", "coreCommit", "netCommit", "hotReady", "drain", "report", "reject"}

\* A process that runs has an activation, and nothing else before its commit.
StartInv(p) ==
    /\ p.pc # "off" => p.act # None
    /\ p.pc \notin Serving =>
           /\ p.next = None /\ p.policy = None /\ p.receipt = None
           /\ ~p.steer /\ ~p.susp

\* When there is a replacement or a pending policy, and what the steps shared
\* by several callers return to.
NextInv(p) ==
    /\ p.pc \in Replacing => p.next # None
    /\ p.pc = "undo" => p.then \in {"restored", "conflict"}
    /\ p.pc \in {"fbNetd", "fbCore"} =>
           \/ p.then \in {"pending", "failed"} /\ p.next # None
           \/ p.then \in {"withdrawn", "loss", "routes"} /\ p.next = None
    /\ p.pc \in {"lvCore", "lvNetd"} =>
           \/ p.then = "recover" /\ p.next = None
           \/ p.then \in {"refused", "conflict", "restored", "done"} /\ p.next # None
    /\ p.pc \in {"renew", "confirm", "pointer", "unlink", "health", "routes"} =>
           p.next = None
    /\ p.pc = "confirm" => p.policy # None
    /\ p.policy # None => p.pc \in {"renew", "confirm"}

\* What the agent knows of steering and of Core's forwarding, by step.
SteerInv(p) ==
    /\ p.steer => p.phase = "suspended"
    /\ p.susp => p.steer
    /\ p.pc \in {"netCommit", "drain", "report"} => ~p.steer
    /\ p.pc \in {"bind", "undo", "coreCommit", "hotReady"} => (p.steer => p.susp)
    /\ p.pc \in {"fbCore", "unlink"} => p.steer
    /\ p.pc = "fbCore" => p.then \notin SteeringOnly
    /\ p.pc = "lvNetd" => ~p.susp

\* Why steering is, or is about to be, suspended.
FallbackInv(p) ==
    /\ p.pc = "unlink" => p.then = "withdrawn"
    /\ p.pc \in {"fbNetd", "fbCore", "unlink"} /\ p.then = "withdrawn" =>
           ~p.loss /\ ~p.integ
    /\ p.pc = "fbNetd" /\ p.then = "loss" => (p.steer => p.integ)
    /\ p.pc = "fbNetd" /\ p.then = "routes" => ~p.steer
    /\ p.pc \in {"lvCore", "lvNetd"} /\ p.then = "recover" => p.loss

ProcInv(p) ==
    /\ p \in Processes /\ StartInv(p) /\ NextInv(p) /\ SteerInv(p) /\ FallbackInv(p)

\* A receipt that waits to be written is a rejection or reports what is
\* committed; before the commit the file names no running process.
ReceiptInv ==
    /\ proc.receipt # None =>
           \/ proc.receipt = Rejected(proc.receipt.act)
           \/ /\ proc.receipt = Committed(proc.receipt.act)
              /\ proc.receipt.act \in settled
    /\ proc.pc \in {"off", "wait"} \cup Starting => Contract!Orphaned(ready) = ready

Inv == TypeInv /\ RecordInv /\ ProcInv(proc) /\ ReceiptInv
-----------------------------------------------------------------------------
(* netd's answers                                                          *)

Ruled(n) == n.live # None /\ n.live.rule

\* Whatever netd accepts leaves a well formed state, and only a commit or a
\* resumption adds the steering rule.
LEMMA NetAfterShape ==
    ASSUME TypeInv, RecordInv, NEW op, NEW g \in Generations, NEW d \in Opt(Decls),
           NetAfter(op, g, d) # None
    PROVE  LET n == NetAfter(op, g, d)
           IN /\ n \in Nets /\ (n.phase # "Stopped" => n.live # None)
              /\ Ruled(n) => Ruled(net) \/ op \in {"Commit", "Resume"}
              /\ op = "Suspend" => ~Ruled(n)
  <1> DEFINE n == NetAfter(op, g, d)
             own == net.mine /\ net.gen = g
             sole == net.live # None /\ net.live.gen = g
             to(phase) == [net EXCEPT !.phase = phase]
             rule(m, on) == [m EXCEPT !.live.rule = on]
             installed == [net EXCEPT !.gen = g, !.decl = d, !.live.gen = g, !.live.decl = d]
             fresh == [phase |-> "Prepared", gen |-> g, mine |-> TRUE, decl |-> d,
                       live |-> [gen |-> g, decl |-> d, rule |-> FALSE]]
             Goal(m) == /\ m \in Nets /\ (m.phase # "Stopped" => m.live # None)
                        /\ Ruled(m) => Ruled(net) \/ op \in {"Commit", "Resume"}
                        /\ op = "Suspend" => ~Ruled(m)
  <1>1. net \in Nets /\ (net.phase # "Stopped" => net.live \in Records)
    BY DEF TypeInv, RecordInv, Nets, Opt
  <1>2. \/ op = "Prepare" /\ n = fresh
        \/ op \in {"Prepare", "Renew", "Withdraw"} /\ n = net
        \/ op = "Commit" /\ net.phase = "Prepared" /\ n = rule(to("Active"), TRUE)
        \/ op = "Commit" /\ net.phase = "Staged" /\ n = to("Draining")
        \/ op \in {"Commit", "Renew"} /\ net.phase = "Active" /\ n = [net EXCEPT !.gen = g]
        \/ /\ op = "Drain" /\ net.phase = "Draining"
           /\ n = [to("Active") EXCEPT !.live.gen = g, !.live.decl = net.decl]
        \/ op = "Rollback" /\ n = to("Stopped")
        \/ op = "Rollback" /\ n = [to("Stopped") EXCEPT !.live = None]
        \/ op = "Suspend" /\ net.phase = "Active" /\ n = rule(to("Suspended"), FALSE)
        \/ op = "Resume" /\ net.phase = "Suspended" /\ n = rule(to("Active"), TRUE)
        \/ /\ op = "Reconfigure" /\ net.phase = "Active"
           /\ n = [to("Staged") EXCEPT !.gen = g, !.decl = d]
        \/ /\ op \in {"Reconfigure", "Policy"} /\ net.phase \in {"Active", "Suspended"}
           /\ n = installed
    <2>1. CASE op = "Prepare"
      BY <2>1 DEF NetAfter
    <2>2. CASE op = "Commit"
      BY <2>2 DEF NetAfter
    <2>3. CASE op = "Drain"
      BY <2>3 DEF NetAfter
    <2>4. CASE op = "Rollback"
      BY <2>4 DEF NetAfter
    <2>5. CASE op = "Renew"
      BY <2>5 DEF NetAfter
    <2>6. CASE op = "Suspend"
      BY <2>6 DEF NetAfter
    <2>7. CASE op = "Resume"
      BY <2>7 DEF NetAfter
    <2>8. CASE op = "Reconfigure"
      BY <2>8 DEF NetAfter
    <2>9. CASE op = "Withdraw"
      BY <2>9 DEF NetAfter
    <2>10. CASE op = "Policy"
      BY <2>10 DEF NetAfter
    <2>11. CASE op \notin {"Prepare", "Commit", "Drain", "Rollback", "Renew", "Suspend", "Resume", "Reconfigure", "Withdraw", "Policy"}
      BY <2>11 DEF NetAfter
    <2> QED BY <2>1, <2>2, <2>3, <2>4, <2>5, <2>6, <2>7, <2>8, <2>9, <2>10, <2>11
  <1> SUFFICES Goal(n)
    OBVIOUS
  <1> HIDE DEF n
  <1>3. CASE n = net /\ op # "Suspend"
    BY <1>1, <1>3, NoneAssumption
  <1>4. CASE op = "Prepare" /\ n = fresh
    <2>1. fresh.live \in Records /\ ~fresh.live.rule
      BY DEF Records
    <2> QED BY <1>4, <2>1, NoneAssumption DEF Nets, Opt, Ruled
  <1>5. CASE op = "Commit" /\ net.phase = "Staged" /\ n = to("Draining")
    BY <1>1, <1>5, NoneAssumption DEF Nets, Opt, Ruled
  <1>6. CASE op \in {"Commit", "Renew"} /\ net.phase = "Active" /\ n = [net EXCEPT !.gen = g]
    BY <1>1, <1>6, NoneAssumption DEF Nets, Opt, Ruled
  <1>7. CASE op = "Rollback" /\ (n = to("Stopped") \/ n = [to("Stopped") EXCEPT !.live = None])
    BY <1>1, <1>7, NoneAssumption DEF Nets, Opt, Ruled
  <1>8. CASE /\ op = "Reconfigure" /\ net.phase = "Active"
             /\ n = [to("Staged") EXCEPT !.gen = g, !.decl = d]
    BY <1>1, <1>8, NoneAssumption DEF Nets, Opt, Ruled
  <1>9. CASE net.phase # "Stopped" /\ op \in {"Commit", "Resume"} /\ n = rule(to("Active"), TRUE)
    <2>1. n = [phase |-> "Active", gen |-> net.gen, mine |-> net.mine, decl |-> net.decl,
               live |-> [net.live EXCEPT !.rule = TRUE]]
      BY <1>1, <1>9 DEF Nets
    <2>2. [net.live EXCEPT !.rule = TRUE] \in Records
      BY <1>1, <1>9 DEF Records
    <2> QED BY <1>1, <1>9, <2>1, <2>2, NoneAssumption DEF Nets, Opt
  <1>10. CASE net.phase # "Stopped" /\ op = "Suspend" /\ n = rule(to("Suspended"), FALSE)
    <2>1. n = [phase |-> "Suspended", gen |-> net.gen, mine |-> net.mine, decl |-> net.decl,
               live |-> [net.live EXCEPT !.rule = FALSE]]
      BY <1>1, <1>10 DEF Nets
    <2>2. [net.live EXCEPT !.rule = FALSE] \in Records /\ ~[net.live EXCEPT !.rule = FALSE].rule
      BY <1>1, <1>10 DEF Records
    <2> QED BY <1>1, <1>10, <2>1, <2>2, NoneAssumption DEF Nets, Opt, Ruled
  <1>11. CASE /\ net.phase # "Stopped" /\ op = "Drain"
              /\ n = [to("Active") EXCEPT !.live.gen = g, !.live.decl = net.decl]
    <2> DEFINE l == [net.live EXCEPT !.gen = g, !.decl = net.decl]
    <2>1. l \in Records /\ l.rule = net.live.rule
      BY <1>1, <1>11 DEF Records, Nets
    <2>2. n = [phase |-> "Active", gen |-> net.gen, mine |-> net.mine, decl |-> net.decl, live |-> l]
      BY <1>1, <1>11 DEF Nets
    <2> QED BY <1>1, <1>11, <2>1, <2>2, NoneAssumption DEF Nets, Opt, Ruled
  <1>12. CASE net.phase # "Stopped" /\ op \in {"Reconfigure", "Policy"} /\ n = installed
    <2> DEFINE l == [net.live EXCEPT !.gen = g, !.decl = d]
    <2>1. l \in Records /\ l.rule = net.live.rule
      BY <1>1, <1>12 DEF Records
    <2>2. n = [phase |-> net.phase, gen |-> g, mine |-> net.mine, decl |-> d, live |-> l]
      BY <1>1, <1>12 DEF Nets
    <2> QED BY <1>1, <1>12, <2>1, <2>2, NoneAssumption, ZenonT(30) DEF Nets, Opt, Ruled
  <1> HIDE DEF fresh, to, rule, installed
  <1> HIDE DEF Goal
  <1> QED BY <1>2, <1>3, <1>4, <1>5, <1>6, <1>7, <1>8, <1>9, <1>10, <1>11, <1>12

\* What the agent may be answered.
LEMMA AnswersShape ==
    ASSUME TypeInv, RecordInv, NEW op, NEW g \in Generations, NEW d \in Opt(Decls),
           NEW r \in Answers(op, g, d)
    PROVE  /\ r.net \in Nets /\ (r.net.phase # "Stopped" => r.net.live # None)
           /\ r.ok \in BOOLEAN /\ r.hard \in BOOLEAN /\ r.cost \in {0, 1}
           /\ r.ok => Allowed(op)
           /\ Ruled(r.net) => Ruled(net) \/ op \in {"Commit", "Resume"}
           /\ op = "Suspend" /\ r.ok => ~Ruled(r.net)
           /\ op \notin LostReplies /\ ~r.ok => r.net = net
  <1> DEFINE o == IF op = "Stage" THEN "Reconfigure" ELSE op
             n == IF ~Allowed(op) THEN None ELSE NetAfter(o, g, d)
  <1>1. net \in Nets /\ (net.phase # "Stopped" => net.live # None)
    BY DEF TypeInv, RecordInv
  <1>2. n # None =>
            /\ n \in Nets /\ (n.phase # "Stopped" => n.live # None)
            /\ Ruled(n) => Ruled(net) \/ op \in {"Commit", "Resume"}
            /\ op = "Suspend" => ~Ruled(n)
            /\ Allowed(op)
    <2> SUFFICES ASSUME n # None PROVE n = NetAfter(o, g, d) /\ Allowed(op)
      BY NetAfterShape
    <2> QED OBVIOUS
  <1>3. \/ /\ n = None /\ r.net = net /\ r.ok = FALSE /\ r.cost = 0
           /\ r.hard \in BOOLEAN
        \/ n # None /\ r = [net |-> n, ok |-> TRUE, hard |-> FALSE, cost |-> 0]
        \/ n # None /\ \E h \in BOOLEAN : r = [net |-> net, ok |-> FALSE, hard |-> h, cost |-> 1]
        \/ n # None /\ op \in LostReplies /\ r = [net |-> n, ok |-> FALSE, hard |-> FALSE, cost |-> 1]
    <2>1. CASE n = None
      <3>1. \E h \in BOOLEAN : r = [net |-> net, ok |-> FALSE, hard |-> h, cost |-> 0]
        BY <2>1 DEF Answers
      <3> QED BY <2>1, <3>1
    <2>2. CASE n # None
      <3> DEFINE X == [net |-> n, ok |-> TRUE, hard |-> FALSE, cost |-> 0]
                 F == {[net |-> net, ok |-> FALSE, hard |-> h, cost |-> 1] : h \in BOOLEAN}
                 L == [net |-> n, ok |-> FALSE, hard |-> FALSE, cost |-> 1]
      <3>1. Answers(op, g, d) = {X} \cup (IF faults = MaxFaults THEN {}
                                        ELSE F \cup (IF op \in LostReplies THEN {L} ELSE {}))
        BY <2>2 DEF Answers
      <3>2. r = X \/ r \in F \/ (op \in LostReplies /\ r = L)
        BY <3>1
      <3> QED BY <2>2, <3>2
    <2> QED BY <2>1, <2>2
  <1> HIDE DEF n
  <1>4. CASE n = None /\ r.net = net /\ r.ok = FALSE /\ r.cost = 0 /\ r.hard \in BOOLEAN
    BY <1>1, <1>4
  <1>5. CASE n # None /\ r = [net |-> n, ok |-> TRUE, hard |-> FALSE, cost |-> 0]
    BY <1>2, <1>5
  <1>6. CASE \E h \in BOOLEAN : r = [net |-> net, ok |-> FALSE, hard |-> h, cost |-> 1]
    BY <1>1, <1>6
  <1>7. CASE /\ n # None /\ op \in LostReplies
             /\ r = [net |-> n, ok |-> FALSE, hard |-> FALSE, cost |-> 1]
    BY <1>2, <1>7
  <1> QED BY <1>3, <1>4, <1>5, <1>6, <1>7

\* What a request to Core may come to.
LEMMA CoreAnswersShape ==
    ASSUME TypeInv, NEW op, NEW after \in Cores, NEW c \in CoreAnswers(op, after)
    PROVE  /\ c.core \in {core, after} /\ c.core \in Cores /\ c.ok \in BOOLEAN
           /\ c.cost \in {0, 1}
           /\ c.ok => c.core = after
           /\ op \notin LostReplies /\ ~c.ok => c.core = core
  <1>1. core \in Cores
    BY DEF TypeInv
  <1>2. \/ c = [core |-> core, ok |-> FALSE, cost |-> 0]
        \/ c = [core |-> after, ok |-> TRUE, cost |-> 0]
        \/ c = [core |-> core, ok |-> FALSE, cost |-> 1]
        \/ op \in LostReplies /\ c = [core |-> after, ok |-> FALSE, cost |-> 1]
    BY DEF CoreAnswers
  <1>3. CASE \E k \in {0, 1} : c = [core |-> core, ok |-> FALSE, cost |-> k]
    BY <1>1, <1>3
  <1>4. CASE c = [core |-> after, ok |-> TRUE, cost |-> 0]
    BY <1>1, <1>4
  <1>5. CASE op \in LostReplies /\ c = [core |-> after, ok |-> FALSE, cost |-> 1]
    BY <1>1, <1>5
  <1> QED BY <1>2, <1>3, <1>4, <1>5

\* The faults spent stay within the bound.
LEMMA SpendShape ==
    ASSUME faults \in 0..MaxFaults, NEW cost \in Nat, Spend(cost)
    PROVE  faults' \in 0..MaxFaults
  BY ActivationAssumption DEF Spend

-----------------------------------------------------------------------------
(* The process                                                             *)

\* A process that has ended, and one that is to try again.
LEMMA OffShape ==
    /\ ProcInv(Off) /\ Off.pc = "off" /\ Off.act = None /\ Off.next = None
    /\ Off.policy = None /\ Off.receipt = None
  <1>1. Off \in Processes
    BY DEF Off, Processes, Opt, Generations, Returns
  <1> QED BY <1>1 DEF Off, ProcInv, StartInv, NextInv, SteerInv, FallbackInv, Serving,
                      Replacing

\* A retry keeps the activation, the generation and netd's owner.
LEMMA RetriesShape ==
    ASSUME NEW p \in Processes, NEW a \in Activations
    PROVE  LET q == Retries(p, a)
           IN ProcInv(q) /\ q.pc = "cleanup" /\ q.act = a /\ q.next = None
              /\ q.policy = None /\ q.receipt = None
  <1> DEFINE q == Retries(p, a)
             g == IF a = p.act THEN p.gen ELSE a.gen
  <1>1. g \in Generations /\ p.owner \in Generations
        /\ p.phase \in {"stopped", "prepared", "active", "suspended"}
    BY DEF Processes, Generations
  <1>2. /\ q.pc = "cleanup" /\ q.act = a /\ q.next = None /\ q.policy = None
        /\ q.receipt = None /\ q.steer = FALSE /\ q.susp = FALSE
    BY DEF Retries, Off
  <1>3. q \in Processes
    <2>1. Off \in Processes
      BY OffShape DEF ProcInv
    <2> DEFINE q1 == [Off EXCEPT !.pc = "cleanup", !.act = a]
               q2 == [q1 EXCEPT !.gen = g]
               q3 == [q2 EXCEPT !.phase = p.phase]
    <2>2. q1 \in Processes
      BY <2>1 DEF Processes, Opt, Retrying
    <2> HIDE DEF q1, g
    <2>3. q2 \in Processes
      BY <1>1, <2>2 DEF Processes
    <2> HIDE DEF q2
    <2>4. q3 \in Processes
      BY <1>1, <2>3 DEF Processes
    <2> HIDE DEF q3
    <2>5. [q3 EXCEPT !.owner = p.owner] \in Processes
      BY <1>1, <2>4 DEF Processes
    <2> QED BY <2>5 DEF q3, q2, q1, g, Retries
  <1> HIDE DEF q
  <1>4. a # None
    BY ActivationAssumption
  <1>5. ProcInv(q)
    BY <1>2, <1>3, <1>4
       DEF ProcInv, StartInv, NextInv, SteerInv, FallbackInv, Serving, Replacing
  <1> QED BY <1>2, <1>5 DEF q

-----------------------------------------------------------------------------
(* Steps of the contract                                                   *)

\* The state, and the replacement in hand, that the contract shows of a
\* process.
StateOf(p) ==
    IF p.pc = "off" THEN "down"
    ELSE IF p.pc \in Starting THEN "starting"
    ELSE IF p.pc \in Retrying THEN "retrying"
    ELSE IF p.pc \in {"fbNetd", "fbCore", "unlink"} /\ p.then = "withdrawn" THEN "leaving"
    ELSE IF ~p.steer THEN "steering"
    ELSE IF p.loss \/ p.integ \/ (p.pc = "fbCore" /\ p.then = "loss") THEN "fallback"
    ELSE "parked"

NextOf(p) == IF p.policy = None THEN p.next ELSE p.policy

\* What the contract shows of a process.
Shown(p, s, a, m) == StateOf(p) = s /\ p.act = a /\ NextOf(p) = m

\* A step the contract allows.
ContractStep ==
    \/ Contract!AgentWorks \/ Contract!AgentFails \/ Contract!OthersAct
    \/ UNCHANGED Contract!agentVars

\* The refinement mapping reads the process only.
LEMMA Views ==
    /\ AgentView = [state |-> StateOf(proc), act |-> proc.act, next |-> NextOf(proc)]
    /\ AgentView' = [state |-> StateOf(proc'), act |-> proc'.act, next |-> NextOf(proc')]
    /\ AgentView.state = StateOf(proc) /\ AgentView.act = proc.act
    /\ AgentView.next = NextOf(proc)
  BY DEF AgentView, StateOf, NextOf

\* How the contract changes an agent.
LEMMA AgentExcept ==
    ASSUME NEW x, NEW b, NEW m, Shown(proc', x, b, m)
    PROVE  /\ AgentView' = [state |-> x, act |-> b, next |-> m]
           /\ AgentView' = [AgentView EXCEPT !.state = x, !.act = b, !.next = m]
           /\ b = proc.act => AgentView' = [AgentView EXCEPT !.state = x, !.next = m]
           /\ b = proc.act /\ x = StateOf(proc) => AgentView' = [AgentView EXCEPT !.next = m]
           /\ b = proc.act /\ m = NextOf(proc) => AgentView' = [AgentView EXCEPT !.state = x]
           /\ b = proc.act /\ m = NextOf(proc) /\ x = StateOf(proc) => AgentView' = AgentView
  <1> DEFINE v == AgentView
             v1 == [state |-> x, act |-> proc.act, next |-> NextOf(proc)]
             v2 == [state |-> x, act |-> b, next |-> NextOf(proc)]
             w == AgentView'
  <1>0. v = [state |-> StateOf(proc), act |-> proc.act, next |-> NextOf(proc)]
    BY Views
  <1>a. w = [state |-> x, act |-> b, next |-> m]
    BY Views DEF Shown
  <1> HIDE DEF v, w
  <1>1. /\ [v EXCEPT !.state = x] = v1
        /\ [v EXCEPT !.next = m] = [state |-> StateOf(proc), act |-> proc.act, next |-> m]
    BY <1>0
  <1>2. [v1 EXCEPT !.act = b] = v2 /\ [v1 EXCEPT !.next = m] = [state |-> x, act |-> proc.act, next |-> m]
    OBVIOUS
  <1>3. [v2 EXCEPT !.next = m] = [state |-> x, act |-> b, next |-> m]
    OBVIOUS
  <1>5. b = proc.act /\ m = NextOf(proc) => w = v1
    BY <1>a
  <1>6. b = proc.act /\ m = NextOf(proc) /\ x = StateOf(proc) => w = v
    BY <1>a, <1>0
  <1> HIDE DEF v1, v2
  <1>4. /\ [v EXCEPT !.state = x, !.next = m] = [v1 EXCEPT !.next = m]
        /\ [v EXCEPT !.state = x, !.act = b, !.next = m] = [[v1 EXCEPT !.act = b] EXCEPT !.next = m]
    BY <1>1
  <1>7. /\ w = [v EXCEPT !.state = x, !.act = b, !.next = m]
        /\ b = proc.act => w = [v EXCEPT !.state = x, !.next = m]
        /\ b = proc.act /\ x = StateOf(proc) => w = [v EXCEPT !.next = m]
        /\ b = proc.act /\ m = NextOf(proc) => w = [v EXCEPT !.state = x]
    BY <1>a, <1>1, <1>2, <1>3, <1>4, <1>5
  <1> QED BY <1>a, <1>6, <1>7 DEF v, w

\* Nothing the others see has changed.
LEMMA Stutters ==
    ASSUME UNCHANGED <<cand, ready, settled>>,
           Shown(proc', StateOf(proc), proc.act, NextOf(proc))
    PROVE  ContractStep
  <1>1. AgentView' = AgentView
    BY AgentExcept, Zenon
  <1> QED BY <1>1 DEF ContractStep, Contract!agentVars

\* The process starts.
LEMMA Launches ==
    ASSUME StateOf(proc) = "down", cand # None, UNCHANGED <<cand, ready, settled>>,
           Shown(proc', "starting", cand, None)
    PROVE  ContractStep
  <1>1. AgentView' = [state |-> "starting", act |-> cand, next |-> None]
    BY AgentExcept, Zenon
  <1>2. Contract!Launch
    BY <1>1, Views, Zenon DEF Contract!Launch
  <1> QED BY <1>2, Zenon DEF ContractStep, Contract!AgentWorks

\* Everything is to be rolled back.
LEMMA Interrupts ==
    ASSUME NEW a, UNCHANGED <<cand, settled>>,
           StateOf(proc) \in Contract!Up \cup {"starting"},
           a \in {proc.act, NextOf(proc)} \ {None},
           ready' \in {ready, Contract!Orphaned(ready), None},
           Shown(proc', "retrying", a, None)
    PROVE  ContractStep
  <1>1. AgentView' = [AgentView EXCEPT !.state = "retrying", !.act = a, !.next = None]
    BY AgentExcept, Zenon
  <1>2. a \in {AgentView.act, AgentView.next} \ {None}
    BY Views
  <1>3. \E b \in {AgentView.act, AgentView.next} \ {None} :
            AgentView' = [AgentView EXCEPT !.state = "retrying", !.act = b, !.next = None]
    BY <1>1, <1>2, Zenon
  <1>4. AgentView.state \in Contract!Up \cup {"starting"}
    BY Views
  <1>5. Contract!Removes \/ UNCHANGED ready
    BY DEF Contract!Removes
  <1>6. Contract!Interrupted
    BY <1>3, <1>4, <1>5, Zenon DEF Contract!Interrupted
  <1> QED BY <1>6, Zenon DEF ContractStep, Contract!AgentFails

\* The start succeeds and is reported, or is to be reported.
LEMMA Commits ==
    ASSUME StateOf(proc) = "starting", UNCHANGED cand,
           settled' = settled \cup {proc.act},
           ready' \in {ready, Committed(proc.act)},
           Shown(proc', "steering", proc.act, NextOf(proc))
    PROVE  ContractStep
  <1>1. AgentView' = [AgentView EXCEPT !.state = "steering"]
    BY AgentExcept, Zenon
  <1>2. AgentView.state = "starting" /\ AgentView.act = proc.act
    BY Views
  <1>3. CASE ready' = ready
    <2>1. Contract!CommitUnreported
      BY <1>1, <1>2, <1>3, Zenon DEF Contract!CommitUnreported, Contract!StartsLeaving
    <2> QED BY <2>1, Zenon DEF ContractStep, Contract!AgentFails
  <1>4. CASE ready' = Committed(proc.act)
    <2>1. Contract!Commit
      BY <1>1, <1>2, <1>4, Zenon DEF Contract!Commit, Contract!StartsLeaving, Committed
    <2> QED BY <2>1, Zenon DEF ContractStep, Contract!AgentWorks
  <1> QED BY <1>3, <1>4

\* The activation cannot work.
LEMMA FailsToStart ==
    ASSUME StateOf(proc) = "starting", UNCHANGED <<cand, settled>>,
           ready' \in {Contract!Orphaned(ready), FailureReceipt(proc.act)},
           Shown(proc', "down", None, None)
    PROVE  ContractStep
  <1>1. AgentView' = Contract!NoAgent
    BY AgentExcept, Zenon DEF Contract!NoAgent
  <1>2. AgentView.state = "starting" /\ AgentView.act = proc.act
    BY Views
  <1>3. ready' = Contract!Orphaned(ready) \/ Contract!PublishesFailure(AgentView.act)
    BY <1>2 DEF Contract!PublishesFailure, FailureReceipt, Rejected
  <1>4. Contract!StartFails
    BY <1>1, <1>2, <1>3, Zenon DEF Contract!StartFails
  <1> QED BY <1>4, Zenon DEF ContractStep, Contract!AgentFails

\* What is left is rolled back, or the start is tried again.
LEMMA CleansUp ==
    ASSUME NEW s, StateOf(proc) = "retrying", UNCHANGED <<cand, settled>>,
           s = "retrying" \/ (s = "starting" /\ cand = proc.act),
           ready' \in {Contract!Orphaned(ready), None},
           Shown(proc', s, proc.act, NextOf(proc))
    PROVE  ContractStep
  <1>1. /\ s = "starting" => AgentView' = [AgentView EXCEPT !.state = "starting"]
        /\ s = "retrying" => AgentView' = AgentView
    BY AgentExcept, Zenon
  <1>2. AgentView.state = "retrying" /\ AgentView.act = proc.act
    BY Views
  <1>3. Contract!Removes
    BY DEF Contract!Removes
  <1>4. \/ cand = AgentView.act /\ AgentView' = [AgentView EXCEPT !.state = "starting"]
        \/ UNCHANGED AgentView
    BY <1>1, <1>2, Zenon
  <1>5. Contract!Retry
    BY <1>2, <1>3, <1>4, Zenon DEF Contract!Retry
  <1> QED BY <1>5, Zenon DEF ContractStep, Contract!AgentWorks

\* The process ends of its own accord, or is killed.
LEMMA Finishes ==
    ASSUME StateOf(proc) # "down", UNCHANGED <<cand, settled>>,
           ready' \in {Contract!Orphaned(ready), None},
           Shown(proc', "down", None, None)
    PROVE  ContractStep
  <1>1. AgentView' = Contract!NoAgent
    BY AgentExcept, Zenon DEF Contract!NoAgent
  <1>2. AgentView.state # "down"
    BY Views
  <1>3. Contract!Removes
    BY DEF Contract!Removes
  <1>4. Contract!Shutdown
    BY <1>1, <1>2, <1>3, Zenon DEF Contract!Shutdown
  <1> QED BY <1>4, Zenon DEF ContractStep, Contract!AgentFails

\* A receipt that waited is written.
LEMMA Reports ==
    ASSUME StateOf(proc) \in Contract!Up, UNCHANGED <<cand, settled>>, cand # None,
           ready' = Rejected(cand) \/ (ready' = Committed(cand) /\ cand \in settled),
           Shown(proc', StateOf(proc), proc.act, NextOf(proc))
    PROVE  ContractStep
  <1>1. AgentView' = AgentView
    BY AgentExcept, Zenon
  <1>2. AgentView.state \in Contract!Up
    BY Views
  <1>3. CASE ready' = Rejected(cand)
    <2>1. Contract!RejectLate
      BY <1>1, <1>2, <1>3, Zenon DEF Contract!RejectLate, Rejected
    <2> QED BY <2>1, Zenon DEF ContractStep, Contract!AgentFails
  <1>4. CASE ready' = Committed(cand) /\ cand \in settled
    <2>1. Contract!Confirm
      BY <1>1, <1>2, <1>4, Zenon DEF Contract!Confirm, Committed
    <2> QED BY <2>1, Zenon DEF ContractStep, Contract!AgentWorks
  <1> QED BY <1>3, <1>4

\* Peers or routes are lost.
LEMMA FallsBack ==
    ASSUME StateOf(proc) = "steering", UNCHANGED <<cand, ready, settled>>,
           Shown(proc', "fallback", proc.act, NextOf(proc))
    PROVE  ContractStep
  <1>1. AgentView' = [AgentView EXCEPT !.state = "fallback"]
    BY AgentExcept, Zenon
  <1>2. Contract!Fallback
    BY <1>1, Views, Zenon DEF Contract!Fallback
  <1> QED BY <1>2, Zenon DEF ContractStep, Contract!AgentWorks

\* Core reports the activation ready.
LEMMA Recovers ==
    ASSUME StateOf(proc) \in {"steering", "fallback"}, UNCHANGED cand,
           settled' = settled \cup {proc.act},
           ready' \in {ready, Committed(proc.act)},
           Shown(proc', "steering", proc.act, NextOf(proc))
    PROVE  ContractStep
  <1>1. AgentView' = [AgentView EXCEPT !.state = "steering"]
    BY AgentExcept, Zenon
  <1>2. AgentView.state \in {"steering", "fallback"} /\ AgentView.act = proc.act
    BY Views
  <1>3. Contract!Publishes(Contract!Committed(AgentView.act))
    BY <1>2 DEF Contract!Publishes, Committed
  <1>4. Contract!Recover
    BY <1>1, <1>2, <1>3, Zenon DEF Contract!Recover
  <1> QED BY <1>4, Zenon DEF ContractStep, Contract!AgentWorks

\* The pointer names another activation.
LEMMA Notices ==
    ASSUME StateOf(proc) \in Contract!Up \ {"leaving"}, cand # None,
           cand # proc.act \/ NextOf(proc) # None, UNCHANGED <<cand, ready, settled>>,
           Shown(proc', StateOf(proc), proc.act, cand)
    PROVE  ContractStep
  <1>1. AgentView' = [AgentView EXCEPT !.next = cand]
    BY AgentExcept, Zenon
  <1>2. /\ AgentView.state \in Contract!Up \ {"leaving"}
        /\ cand # AgentView.act \/ AgentView.next # None
    BY Views
  <1>3. Contract!Notice
    BY <1>1, <1>2, Zenon DEF Contract!Notice
  <1> QED BY <1>3, Zenon DEF ContractStep, Contract!AgentWorks

\* Steering changes under a replacement.
LEMMA Resteers ==
    ASSUME NEW s, NextOf(proc) # None, s \in {"steering", "fallback", "parked"},
           UNCHANGED <<cand, ready, settled>>,
           Shown(proc', s, proc.act, NextOf(proc))
    PROVE  ContractStep
  <1>1. AgentView' = [AgentView EXCEPT !.state = s]
    BY AgentExcept, Zenon
  <1>2. AgentView.next # None
    BY Views
  <1>3. Contract!Resteer
    BY <1>1, <1>2, Zenon DEF Contract!Resteer
  <1> QED BY <1>3, Zenon DEF ContractStep, Contract!AgentWorks

\* A replacement is given up.
LEMMA Abandons ==
    ASSUME NEW s, NextOf(proc) # None, s \in {StateOf(proc), "steering"},
           UNCHANGED <<cand, ready, settled>>,
           Shown(proc', s, proc.act, None)
    PROVE  ContractStep
  <1>1. AgentView' = [AgentView EXCEPT !.state = s, !.next = None]
    BY AgentExcept, Zenon
  <1>2. AgentView.next # None /\ s \in {AgentView.state, "steering"}
    BY Views
  <1>3. Contract!Abandon
    BY <1>1, <1>2, Zenon DEF Contract!Abandon
  <1> QED BY <1>3, Zenon DEF ContractStep, Contract!AgentWorks

\* The replacement is taken over and reported, or is to be.
LEMMA Replaces ==
    ASSUME NextOf(proc) # None, UNCHANGED cand,
           settled' = settled \cup {NextOf(proc)},
           ready' \in {ready, Committed(NextOf(proc))},
           Shown(proc', StateOf(proc), NextOf(proc), None)
    PROVE  ContractStep
  <1>1. AgentView.next = NextOf(proc) /\ AgentView.state = StateOf(proc)
    BY Views
  <1>2. AgentView' = [AgentView EXCEPT !.state = StateOf(proc), !.act = NextOf(proc), !.next = None]
    BY AgentExcept, Zenon
  <1>3. AgentView' = Contract!Replaced(AgentView.state)
    BY <1>1, <1>2, Zenon DEF Contract!Replaced
  <1>4. Contract!Publishes(Contract!Committed(AgentView.next))
    BY <1>1 DEF Contract!Publishes, Committed
  <1>5. Contract!Replace
    BY <1>1, <1>3, <1>4, Zenon DEF Contract!Replace
  <1> QED BY <1>5, Zenon DEF ContractStep, Contract!AgentWorks

\* The replacement is taken over without Core's word.
LEMMA Assumes ==
    ASSUME NEW s, NextOf(proc) # None, s \in {"steering", "fallback"},
           UNCHANGED <<cand, ready, settled>>,
           Shown(proc', s, NextOf(proc), None)
    PROVE  ContractStep
  <1>1. AgentView.next = NextOf(proc)
    BY Views
  <1>2. AgentView' = [AgentView EXCEPT !.state = s, !.act = NextOf(proc), !.next = None]
    BY AgentExcept, Zenon
  <1>3. AgentView' = Contract!Replaced(s)
    BY <1>1, <1>2, Zenon DEF Contract!Replaced
  <1>4. Contract!ReplaceUnresolved
    BY <1>1, <1>3, Zenon DEF Contract!ReplaceUnresolved
  <1> QED BY <1>4, Zenon DEF ContractStep, Contract!AgentFails

\* The replacement is rejected.
LEMMA Rejects ==
    ASSUME NextOf(proc) # None, UNCHANGED <<cand, settled>>,
           ready' \in {ready, Rejected(NextOf(proc)), FailureReceipt(NextOf(proc))},
           Shown(proc', StateOf(proc), proc.act, None)
    PROVE  ContractStep
  <1>1. AgentView.next = NextOf(proc)
    BY Views
  <1>2. AgentView' = [AgentView EXCEPT !.next = None]
    BY AgentExcept, Zenon
  <1>3. \/ Contract!Publishes(Contract!Rejected(AgentView.next))
        \/ Contract!PublishesFailure(AgentView.next)
    BY <1>1 DEF Contract!Publishes, Contract!PublishesFailure, FailureReceipt, Rejected
  <1>4. Contract!Reject
    BY <1>1, <1>2, <1>3, Zenon DEF Contract!Reject
  <1> QED BY <1>4, Zenon DEF ContractStep, Contract!AgentFails

\* The pointer is gone.
LEMMA Leaves ==
    ASSUME StateOf(proc) \in Contract!Up \ {"leaving"}, NextOf(proc) = None, cand = None,
           UNCHANGED <<cand, ready, settled>>,
           Shown(proc', "leaving", proc.act, NextOf(proc))
    PROVE  ContractStep
  <1>1. AgentView' = [AgentView EXCEPT !.state = "leaving"]
    BY AgentExcept, Zenon
  <1>2. AgentView.next = None /\ AgentView.state \in Contract!Up \ {"leaving"}
    BY Views
  <1>3. Contract!Leave
    BY <1>1, <1>2, Zenon DEF Contract!Leave
  <1> QED BY <1>3, Zenon DEF ContractStep, Contract!AgentWorks

\* The receipt of a withdrawn activation is removed.
LEMMA Withdraws ==
    ASSUME StateOf(proc) = "leaving", ready' = None, UNCHANGED <<cand, settled>>,
           Shown(proc', "parked", proc.act, NextOf(proc))
    PROVE  ContractStep
  <1>1. AgentView' = [AgentView EXCEPT !.state = "parked"]
    BY AgentExcept, Zenon
  <1>2. Contract!Withdraw
    BY <1>1, Views, Zenon DEF Contract!Withdraw
  <1> QED BY <1>2, Zenon DEF ContractStep, Contract!AgentWorks

\* Steering is not stopped, or the receipt not removed.
LEMMA FailsToLeave ==
    ASSUME NEW s, StateOf(proc) = "leaving", s \in {"steering", "parked"},
           UNCHANGED <<cand, ready, settled>>,
           Shown(proc', s, proc.act, NextOf(proc))
    PROVE  ContractStep
  <1>1. AgentView' = [AgentView EXCEPT !.state = s]
    BY AgentExcept, Zenon
  <1>2. AgentView.state = "leaving"
    BY Views
  <1>3. Contract!LeaveFails
    BY <1>1, <1>2, Zenon DEF Contract!LeaveFails
  <1> QED BY <1>3, Zenon DEF ContractStep, Contract!AgentFails

\* Core exits.
LEMMA LosesCore ==
    ASSUME StateOf(proc) \in Contract!Up, ready # None, ready' = Contract!Orphaned(ready),
           UNCHANGED <<cand, settled>>,
           Shown(proc', StateOf(proc), proc.act, NextOf(proc))
    PROVE  ContractStep
  <1>1. AgentView' = AgentView
    BY AgentExcept, Zenon
  <1>2. AgentView.state \in Contract!Up
    BY Views
  <1>3. Contract!CoreExits
    BY <1>1, <1>2, Zenon DEF Contract!CoreExits
  <1> QED BY <1>3, Zenon DEF ContractStep, Contract!AgentFails

\* The other processes move the pointer or remove a receipt.
LEMMA OthersMove ==
    ASSUME cand' \in Opt(Activations), ready' \in {ready, None}, UNCHANGED settled,
           Shown(proc', StateOf(proc), proc.act, NextOf(proc))
    PROVE  ContractStep
  <1>1. AgentView' = AgentView
    BY AgentExcept, Zenon
  <1>2. cand' \in Contract!Opt(Activations)
    BY DEF Contract!Opt, Opt
  <1>3. Contract!OthersAct
    BY <1>1, <1>2, Zenon DEF Contract!OthersAct
  <1> QED BY <1>3, Zenon DEF ContractStep

-----------------------------------------------------------------------------
(* What every step keeps                                                   *)

\* netd has its state, and a record with every session.
Held(n) == n \in Nets /\ (n.phase # "Stopped" => n.live # None)

\* A step that keeps the invariant and that the contract allows.
StepOK == Inv' /\ ContractStep

\* A receipt whose process is gone stays as it is; a rejection names none.
LEMMA OrphanedShape ==
    ASSUME NEW r \in Opt(Contract!Receipts)
    PROVE  /\ Contract!Orphaned(r) \in Opt(Contract!Receipts)
           /\ Contract!Orphaned(Contract!Orphaned(r)) = Contract!Orphaned(r)
           /\ Contract!Orphaned(None) = None
  <1>1. Contract!Orphaned(None) = None
    BY DEF Contract!Orphaned
  <1>2. CASE r = None
    BY <1>1, <1>2 DEF Opt
  <1>3. CASE r # None /\ r = Contract!Rejected(r.act)
    BY <1>1, <1>3 DEF Contract!Orphaned
  <1>4. CASE r # None /\ r # Contract!Rejected(r.act)
    <2> DEFINE q == [r EXCEPT !.current = FALSE]
    <2>1. Contract!Orphaned(r) = q
      BY <1>4 DEF Contract!Orphaned
    <2>2. r \in Contract!Receipts
      BY <1>4 DEF Opt
    <2>3. q \in Contract!Receipts /\ q.current = FALSE /\ [q EXCEPT !.current = FALSE] = q
      BY <2>2 DEF Contract!Receipts
    <2> HIDE DEF q
    <2>4. q # None
      BY <2>3, NoneAssumption
    <2>5. q # Contract!Rejected(q.act)
      BY <2>3 DEF Contract!Rejected
    <2>6. Contract!Orphaned(q) = q
      BY <2>3, <2>4, <2>5 DEF Contract!Orphaned
    <2> QED BY <1>1, <2>1, <2>3, <2>6 DEF Opt
  <1> QED BY <1>2, <1>3, <1>4

\* The receipts of an activation.
LEMMA ReceiptShape ==
    ASSUME NEW a \in Activations
    PROVE  /\ Committed(a) \in Contract!Receipts /\ Committed(a).act = a /\ Committed(a) # None
           /\ Rejected(a) \in Contract!Receipts /\ Rejected(a).act = a /\ Rejected(a) # None
           /\ Contract!Orphaned(Rejected(a)) = Rejected(a)
           /\ FailureReceipt(a) \in Opt(Contract!Receipts)
           /\ Contract!Orphaned(FailureReceipt(a)) = FailureReceipt(a)
  <1>1. /\ Committed(a) \in Contract!Receipts /\ Committed(a).act = a
        /\ Rejected(a) \in Contract!Receipts /\ Rejected(a).act = a
    BY DEF Committed, Rejected, Contract!Committed, Contract!Rejected, Contract!Receipts
  <1>2. Committed(a) # None /\ Rejected(a) # None
    BY <1>1, NoneAssumption
  <1>3. Contract!Orphaned(Rejected(a)) = Rejected(a)
    BY <1>1 DEF Contract!Orphaned, Rejected
  <1>4. Contract!Orphaned(None) = None
    BY DEF Contract!Orphaned
  <1> QED BY <1>1, <1>2, <1>3, <1>4 DEF FailureReceipt, Opt

\* What a step has to keep besides the process.
LEMMA Preserves ==
    ASSUME Inv, cand' \in Opt(Activations), ready' \in Opt(Contract!Receipts),
           settled' \subseteq Activations, settled \subseteq settled',
           faults' \in 0..MaxFaults, core' \in Cores, Held(net'), ProcInv(proc'),
           \/ proc'.receipt \in {None, proc.receipt}
           \/ proc'.receipt = Rejected(proc'.receipt.act)
           \/ proc'.receipt = Committed(proc'.receipt.act) /\ proc'.receipt.act \in settled',
           proc'.pc \in {"off", "wait"} \cup Starting => Contract!Orphaned(ready') = ready'
    PROVE  Inv'
  <1>1. TypeInv' /\ RecordInv'
    BY DEF TypeInv, RecordInv, Held, ProcInv
  <1>2. proc'.receipt # None =>
           \/ proc'.receipt = Rejected(proc'.receipt.act)
           \/ /\ proc'.receipt = Committed(proc'.receipt.act)
              /\ proc'.receipt.act \in settled'
    BY DEF Inv, ReceiptInv
  <1>3. ReceiptInv'
    BY <1>2 DEF ReceiptInv, Rejected, Committed
  <1> QED BY <1>1, <1>3 DEF Inv, ProcInv, StartInv, NextInv, SteerInv, FallbackInv

\* The files stay as they are, and the process is not back at its start.
LEMMA Goes ==
    ASSUME Inv, UNCHANGED <<cand, ready, settled>>, faults' \in 0..MaxFaults,
           core' \in Cores, Held(net'), ProcInv(proc'),
           proc'.receipt \in {None, proc.receipt},
           proc'.pc \in {"off", "wait"} \cup Starting =>
               proc.pc \in {"off", "wait"} \cup Starting
    PROVE  Inv'
  <1>1. cand' \in Opt(Activations) /\ ready' \in Opt(Contract!Receipts)
        /\ settled' \subseteq Activations /\ settled \subseteq settled'
    BY DEF Inv, TypeInv
  <1>2. proc'.pc \in {"off", "wait"} \cup Starting => Contract!Orphaned(ready') = ready'
    BY DEF Inv, ReceiptInv
  <1> QED BY <1>1, <1>2, Preserves

\* The rest of the state when nothing of it changes, and netd's and Core's
\* answers.
LEMMA Known ==
    ASSUME Inv
    PROVE  /\ proc \in Processes /\ ProcInv(proc) /\ core \in Cores /\ Held(net)
           /\ faults \in 0..MaxFaults /\ cand \in Opt(Activations)
           /\ ready \in Opt(Contract!Receipts) /\ settled \subseteq Activations
           /\ proc.owner \in Generations /\ proc.gen \in Generations
           /\ proc.act \in Opt(Activations) /\ proc.next \in Opt(Activations)
           /\ proc.policy \in Opt(Activations) /\ None \in Opt(Decls)
           /\ (proc.pc # "off" => proc.act \in Activations)
           /\ (proc.pc \in Replacing => proc.next \in Activations)
  BY DEF Inv, TypeInv, RecordInv, Held, ProcInv, StartInv, NextInv, Processes, Opt

\* What a call to netd leaves, in the form the steps below use.
LEMMA NetAnswers ==
    ASSUME Inv, NEW op, NEW g \in Generations, NEW d \in Opt(Decls),
           NEW r \in Answers(op, g, d)
    PROVE  /\ Held(r.net) /\ r.ok \in BOOLEAN /\ r.hard \in BOOLEAN
           /\ r.cost \in Nat /\ r.cost + 1 \in Nat /\ (r.ok => Allowed(op))
  BY AnswersShape, SMTT(30) DEF Inv, Held

\* What a request to Core leaves, in the form the steps below use.
LEMMA CoreReplies ==
    ASSUME Inv, NEW op, NEW after \in Cores, NEW c \in CoreAnswers(op, after)
    PROVE  c.core \in Cores /\ c.ok \in BOOLEAN /\ c.cost \in Nat
  BY CoreAnswersShape DEF Inv

\* A declaration has its type, and so has the generation beside it.
LEMMA DeclShape ==
    ASSUME NEW a \in Activations PROVE Decl(a) \in Opt(Decls) /\ a.gen \in Generations
  BY DEF Decls, Opt, Generations

\* The process ends, its Core with it.
LEMMA EndsShape ==
    ASSUME Inv, NEW n, Held(n), Ends(n)
    PROVE  /\ ProcInv(proc') /\ proc'.receipt = None /\ proc'.pc = "off"
           /\ Held(net') /\ core' \in Cores
           /\ Shown(proc', "down", None, None)
  <1>1. proc' = Off /\ ProcInv(proc') /\ proc'.receipt = None /\ proc'.pc = "off"
        /\ Shown(proc', "down", None, None)
    BY OffShape DEF Ends, Shown, StateOf, NextOf
  <1>2. Held(net')
    BY DEF Ends, Held, Nets
  <1>3. NoCore \in Cores
    BY DEF NoCore, Cores, Opt, Generations
  <1> QED BY <1>1, <1>2, <1>3 DEF Ends

\* The process ends and leaves no receipt that names it.
LEMMA EndsStep ==
    ASSUME Inv, NEW n, Held(n), Ends(n), faults' \in 0..MaxFaults, proc.pc # "off",
           ready' \in {Contract!Orphaned(ready), None}, UNCHANGED <<cand, settled>>
    PROVE  StepOK
  <1>1. ready' \in Opt(Contract!Receipts) /\ Contract!Orphaned(ready') = ready'
    BY Known, OrphanedShape DEF Opt
  <1>2. StateOf(proc) # "down"
    BY DEF StateOf
  <1>3. ContractStep
    BY <1>2, EndsShape, Finishes
  <1>4. Inv'
    BY <1>1, EndsShape, Preserves, Known
  <1> QED BY <1>3, <1>4 DEF StepOK

\* The process is to try again with the activation it serves or with the
\* replacement in hand.
LEMMA RetriesStep ==
    ASSUME Inv, NEW p \in Processes, NEW a \in {proc.act, NextOf(proc)} \ {None},
           proc' = Retries(p, a), StateOf(proc) \in Contract!Up \cup {"starting"},
           core' \in Cores, Held(net'), faults' \in 0..MaxFaults,
           UNCHANGED <<cand, ready, settled>>
    PROVE  StepOK
  <1>1. a \in Activations
    BY Known DEF NextOf, Opt
  <1>2. /\ ProcInv(proc') /\ proc'.pc = "cleanup" /\ proc'.act = a /\ proc'.next = None
        /\ proc'.policy = None /\ proc'.receipt = None
    BY <1>1, RetriesShape
  <1>3. Shown(proc', "retrying", a, None)
    BY <1>2 DEF Shown, StateOf, NextOf, Starting, Retrying
  <1>4. ContractStep
    BY <1>3, Interrupts
  <1>5. Inv'
    BY <1>2, Goes DEF Starting
  <1> QED BY <1>4, <1>5 DEF StepOK

\* A step that the others do not see.
LEMMA StutterStep ==
    ASSUME Inv, UNCHANGED <<cand, ready, settled>>, faults' \in 0..MaxFaults,
           core' \in Cores, Held(net'), ProcInv(proc'),
           proc'.receipt \in {None, proc.receipt},
           proc'.pc \in {"off", "wait"} \cup Starting =>
               proc.pc \in {"off", "wait"} \cup Starting,
           Shown(proc', StateOf(proc), proc.act, NextOf(proc))
    PROVE  StepOK
  BY Goes, Stutters DEF StepOK

\* A receipt that is written, or kept for the loop to write.
LEMMA PublishShape ==
    ASSUME faults \in 0..MaxFaults, NEW r, NEW p, NEW cost \in Nat, Publish(r, p, cost)
    PROVE  /\ faults' \in 0..MaxFaults
           /\ \/ ready' = r /\ proc' = [p EXCEPT !.receipt = None]
              \/ ready' = ready /\ proc' = [p EXCEPT !.receipt = r]
  BY SpendShape DEF Publish

-----------------------------------------------------------------------------
(* The start                                                               *)

\* The process that `Launch` leaves.
LEMMA LaunchShape ==
    ASSUME NEW a \in Activations
    PROVE  LET q == [Off EXCEPT !.pc = "prepare", !.act = a, !.gen = a.gen, !.owner = a.gen]
           IN ProcInv(q) /\ q.pc = "prepare" /\ q.act = a /\ q.next = None
              /\ q.policy = None /\ q.receipt = None
  <1> DEFINE q1 == [Off EXCEPT !.pc = "prepare", !.act = a]
             q2 == [q1 EXCEPT !.gen = a.gen]
             q == [q2 EXCEPT !.owner = a.gen]
  <1>1. Off \in Processes /\ a.gen \in Generations
    BY OffShape, DeclShape DEF ProcInv
  <1>2. q1 \in Processes
    BY <1>1 DEF Processes, Opt, Starting
  <1>3. q1.pc = "prepare" /\ q1.act = a /\ q1.next = None /\ q1.policy = None
        /\ q1.receipt = None /\ q1.steer = FALSE /\ q1.susp = FALSE
    BY DEF Off
  <1> HIDE DEF q1
  <1>4. q2 \in Processes
    BY <1>1, <1>2 DEF Processes
  <1>5. q2.pc = "prepare" /\ q2.act = a /\ q2.next = None /\ q2.policy = None
        /\ q2.receipt = None /\ q2.steer = FALSE /\ q2.susp = FALSE
    BY <1>2, <1>3 DEF Processes
  <1> HIDE DEF q2
  <1>6. q \in Processes
    BY <1>1, <1>4 DEF Processes
  <1>7. q.pc = "prepare" /\ q.act = a /\ q.next = None /\ q.policy = None
        /\ q.receipt = None /\ q.steer = FALSE /\ q.susp = FALSE
    BY <1>4, <1>5 DEF Processes
  <1> HIDE DEF q
  <1>8. ProcInv(q)
    BY <1>6, <1>7, ActivationAssumption
       DEF ProcInv, StartInv, NextInv, SteerInv, FallbackInv, Serving, Replacing
  <1> QED BY <1>7, <1>8 DEF q, q2, q1

\* Launch starts the process the contract starts.
LEMMA LaunchStep == ASSUME Inv, Launch PROVE StepOK
  <1>1. cand \in Activations
    BY Known DEF Launch, Opt
  <1>2. /\ ProcInv(proc') /\ proc'.pc = "prepare" /\ proc'.act = cand /\ proc'.next = None
        /\ proc'.policy = None /\ proc'.receipt = None
    BY <1>1, LaunchShape DEF Launch
  <1>3. Shown(proc', "starting", cand, None) /\ StateOf(proc) = "down"
    BY <1>2 DEF Shown, StateOf, NextOf, Starting, Retrying, Launch, At
  <1>4. ContractStep
    BY <1>3, Launches DEF Launch
  <1>5. Inv'
    BY <1>2, Goes, Known DEF Launch, At
  <1> QED BY <1>4, <1>5 DEF StepOK

\* A start that fails without a Core is retried or rejects its activation.
LEMMA FailsWithoutCoreStep ==
    ASSUME Inv, proc.pc \in Starting, NEW n, Held(n), NEW hard, NEW cost \in Nat,
           FailsWithoutCore(n, hard, cost), UNCHANGED <<cand, settled>>
    PROVE  StepOK
  <1>1. StateOf(proc) = "starting" /\ proc.act \in Activations /\ proc.pc # "off"
    BY Known DEF StateOf, Starting
  <1>2. CASE hard
    <2>1. /\ Ends(n) /\ faults' \in 0..MaxFaults
          /\ ready' \in {FailureReceipt(proc.act), Contract!Orphaned(ready)}
      BY <1>2, SpendShape, Known DEF FailsWithoutCore
    <2>2. ready' \in Opt(Contract!Receipts) /\ Contract!Orphaned(ready') = ready'
      BY <1>1, <2>1, ReceiptShape, OrphanedShape, Known
    <2>3. ContractStep
      BY <1>1, <2>1, EndsShape, FailsToStart
    <2>4. Inv'
      BY <2>1, <2>2, EndsShape, Preserves, Known
    <2> QED BY <2>3, <2>4 DEF StepOK
  <1>3. CASE ~hard
    <2> DEFINE q == Retries(proc, proc.act)
    <2>1. /\ proc' = [q EXCEPT !.pc = "wait"] /\ net' = n /\ UNCHANGED core
          /\ RemoveReceipt(cost)
      BY <1>3 DEF FailsWithoutCore
    <2>2. faults' \in 0..MaxFaults /\ ready' \in {None, Contract!Orphaned(ready)}
      BY <2>1, SpendShape, Known DEF RemoveReceipt
    <2>3. ready' \in Opt(Contract!Receipts) /\ Contract!Orphaned(ready') = ready'
      BY <2>2, OrphanedShape, Known DEF Opt
    <2>4. ProcInv(q) /\ q.pc = "cleanup" /\ q.act = proc.act /\ q.next = None
          /\ q.policy = None /\ q.receipt = None
      BY <1>1, RetriesShape, Known
    <2> HIDE DEF q
    <2>5. ProcInv(proc')
      BY <2>1, <2>4 DEF ProcInv, StartInv, NextInv, SteerInv, FallbackInv, Serving, Replacing, Processes,
                   Returns, Opt, SteeringOnly, Starting, Retrying
    <2>6. proc'.receipt = None /\ Shown(proc', "retrying", proc.act, None)
      BY <2>1, <2>4 DEF ProcInv, Processes, Shown, StateOf, NextOf, Starting, Retrying
    <2>7. ContractStep
      BY <1>1, <2>2, <2>6, Interrupts, ActivationAssumption
    <2>8. Inv'
      BY <2>1, <2>2, <2>3, <2>5, <2>6, Preserves, Known
    <2> QED BY <2>7, <2>8 DEF StepOK
  <1> QED BY <1>2, <1>3

\* netd prepares the tunnel, or the start fails without a Core.
LEMMA PrepareNetworkStep == ASSUME Inv, PrepareNetwork PROVE StepOK
  <1>1. proc.pc = "prepare" /\ proc.act \in Activations /\ Decl(proc.act) \in Opt(Decls)
        /\ proc.gen \in Generations /\ UNCHANGED <<cand, settled>>
    BY Known, DeclShape DEF PrepareNetwork, At
  <1>2. PICK r \in Answers("Prepare", proc.gen, Decl(proc.act)) :
            IF r.ok
            THEN /\ proc' = [Answered("Prepare", r) EXCEPT !.pc = "spawn"]
                 /\ net' = r.net /\ Spend(r.cost) /\ UNCHANGED <<ready, core>>
            ELSE FailsWithoutCore(r.net, r.hard, r.cost)
    BY DEF PrepareNetwork
  <1>3. Held(r.net) /\ r.cost \in Nat
    BY <1>1, NetAnswers, Zenon
  <1>4. CASE r.ok
    <2>1. /\ proc' = [[proc EXCEPT !.phase = "prepared"] EXCEPT !.pc = "spawn"]
          /\ net' = r.net /\ faults' \in 0..MaxFaults /\ UNCHANGED <<ready, core>>
      BY <1>2, <1>3, <1>4, SpendShape, Known DEF Answered, PhaseAfter
    <2>2. ProcInv(proc') /\ proc'.receipt = proc.receipt
      BY <1>1, <2>1, Known DEF ProcInv, StartInv, NextInv, SteerInv, FallbackInv, Serving, Replacing, Processes,
                   Returns, Opt, SteeringOnly, Starting, Retrying
    <2>3. Shown(proc', StateOf(proc), proc.act, NextOf(proc))
      BY <1>1, <2>1, Known DEF Processes, Shown, StateOf, NextOf, Starting, Retrying
    <2> QED BY <1>1, <1>3, <2>1, <2>2, <2>3, StutterStep, Known DEF Starting
  <1>5. CASE ~r.ok
    BY <1>1, <1>2, <1>3, <1>5, FailsWithoutCoreStep DEF Starting
  <1> QED BY <1>4, <1>5

\* Core is started; the contract sees nothing of it.
LEMMA SpawnCoreStep == ASSUME Inv, SpawnCore PROVE StepOK
  <1>1. proc.pc = "spawn" /\ proc' = [proc EXCEPT !.pc = "await"]
        /\ UNCHANGED <<cand, ready, settled, net, faults>>
    BY DEF SpawnCore, At, Go
  <1>2. core' \in Cores
    <2>1. core' = [alive |-> TRUE, act |-> proc.act, gen |-> proc.gen, prep |-> None,
                   susp |-> FALSE, up |-> FALSE]
      BY DEF SpawnCore, NoCore
    <2> QED BY <2>1, Known DEF Cores, Opt
  <1>3. ProcInv(proc') /\ proc'.receipt = proc.receipt
    BY <1>1, Known DEF ProcInv, StartInv, NextInv, SteerInv, FallbackInv, Serving, Replacing, Processes,
                   Returns, Opt, SteeringOnly, Starting, Retrying
  <1>4. Shown(proc', StateOf(proc), proc.act, NextOf(proc))
    BY <1>1, Known DEF Processes, Shown, StateOf, NextOf, Starting, Retrying
  <1> QED BY <1>1, <1>2, <1>3, <1>4, StutterStep, Known DEF Starting

\* Core does not start: the tunnel is rolled back.
LEMMA SpawnFailsStep == ASSUME Inv, SpawnFails PROVE StepOK
  <1>1. proc.pc = "spawn" /\ UNCHANGED <<cand, settled>> /\ proc.owner \in Generations
        /\ None \in Opt(Decls)
    BY Known DEF SpawnFails, At
  <1>2. PICK r \in Answers("Rollback", proc.owner, None), hard \in BOOLEAN :
            FailsWithoutCore(r.net, hard, r.cost + 1)
    BY DEF SpawnFails
  <1>3. Held(r.net) /\ r.cost + 1 \in Nat
    BY <1>1, NetAnswers, Zenon
  <1> QED BY <1>1, <1>2, <1>3, FailsWithoutCoreStep DEF Starting

\* The wait for Core ends in a commit, a retry or a rejection.
LEMMA AwaitReadinessStep == ASSUME Inv, AwaitReadiness PROVE StepOK
  <1>1. proc.pc = "await" /\ UNCHANGED <<cand, ready, settled, core, net>>
        /\ StateOf(proc) = "starting" /\ proc.act \in Activations
    BY Known DEF AwaitReadiness, At, StateOf, Starting
  <1>2. faults' \in 0..MaxFaults
    BY SpendShape, Known DEF AwaitReadiness
  <1>3. CASE \E q \in {"commit", "fail"} : Go(q)
    <2>1. ProcInv(proc') /\ proc'.receipt = proc.receipt
      BY <1>1, <1>3, Known DEF Go, ProcInv, StartInv, NextInv, SteerInv, FallbackInv, Serving, Replacing, Processes,
                   Returns, Opt, SteeringOnly, Starting, Retrying
    <2>2. Shown(proc', StateOf(proc), proc.act, NextOf(proc))
      BY <1>1, <1>3, Known DEF Go, Processes, Shown, StateOf, NextOf, Starting, Retrying
    <2> QED BY <1>1, <1>2, <2>1, <2>2, StutterStep, Known DEF Starting
  <1>4. CASE proc' = Retries(proc, proc.act)
    BY <1>1, <1>2, <1>4, RetriesStep, Known, ActivationAssumption
  <1> QED BY <1>3, <1>4 DEF AwaitReadiness

\* An activation is rejected and the process ends.
LEMMA FailAfterRollbackStep == ASSUME Inv, FailAfterRollback PROVE StepOK
  <1>1. proc.pc = "fail" /\ UNCHANGED <<cand, settled>> /\ proc.owner \in Generations
        /\ None \in Opt(Decls) /\ proc.act \in Activations
    BY Known DEF FailAfterRollback, At
  <1>2. PICK r \in Answers("Rollback", proc.owner, None) :
           /\ Ends(r.net)
           /\ \/ ready' = FailureReceipt(proc.act) /\ Spend(r.cost)
              \/ ready' = Contract!Orphaned(ready) /\ Spend(r.cost + 1)
    BY DEF FailAfterRollback
  <1>3. Held(r.net) /\ r.cost \in Nat /\ r.cost + 1 \in Nat
    BY <1>1, NetAnswers, Zenon
  <1>4. faults' \in 0..MaxFaults
    BY <1>2, <1>3, SpendShape, Known
  <1>5. ready' \in Opt(Contract!Receipts) /\ Contract!Orphaned(ready') = ready'
    BY <1>1, <1>2, ReceiptShape, OrphanedShape, Known
  <1>6. StateOf(proc) = "starting"
    BY <1>1 DEF StateOf, Starting
  <1>7. ContractStep
    BY <1>1, <1>2, <1>3, <1>6, EndsShape, FailsToStart
  <1>8. Inv'
    BY <1>1, <1>2, <1>3, <1>4, <1>5, EndsShape, Preserves, Known
  <1> QED BY <1>7, <1>8 DEF StepOK

\* The commit is the step at which an activation is settled.
LEMMA CommitNetworkStep == ASSUME Inv, CommitNetwork PROVE StepOK
  <1>1. proc.pc = "commit" /\ UNCHANGED <<cand, core>> /\ proc.owner \in Generations
        /\ None \in Opt(Decls) /\ proc.act \in Activations /\ StateOf(proc) = "starting"
    BY Known DEF CommitNetwork, At, StateOf, Starting
  <1> DEFINE p == [[proc EXCEPT !.phase = "active"] EXCEPT !.pc = "renew", !.recovery = FALSE]
  <1>2. PICK r \in Answers("Commit", proc.owner, None) :
           /\ net' = r.net
           /\ IF r.ok
              THEN /\ settled' = settled \cup {proc.act}
                   /\ Publish(Committed(proc.act), p, r.cost)
              ELSE /\ IF proc.recovery \/ ~r.hard
                      THEN proc' = Retries(proc, proc.act) ELSE Go("fail")
                   /\ Spend(r.cost) /\ UNCHANGED <<ready, settled>>
    <2>1. PICK r \in Answers("Commit", proc.owner, None) :
           /\ net' = r.net
           /\ IF r.ok
              THEN /\ settled' = settled \cup {proc.act}
                   /\ Publish(Committed(proc.act),
                              [Answered("Commit", r) EXCEPT !.pc = "renew",
                                                            !.recovery = FALSE],
                              r.cost)
              ELSE /\ IF proc.recovery \/ ~r.hard
                      THEN proc' = Retries(proc, proc.act) ELSE Go("fail")
                   /\ Spend(r.cost) /\ UNCHANGED <<ready, settled>>
      BY Zenon DEF CommitNetwork
    <2>2. r.ok => Answered("Commit", r) = [proc EXCEPT !.phase = "active"]
      BY DEF Answered, PhaseAfter
    <2> QED BY <2>1, <2>2, Zenon
  <1>3. Held(r.net) /\ r.cost \in Nat
    BY <1>1, NetAnswers, Zenon
  <1>4. p \in Processes /\ p.pc = "renew" /\ p.act = proc.act /\ p.next = None
        /\ p.policy = None /\ p.steer = FALSE /\ p.susp = FALSE
    BY <1>1, Known, ZenonT(30) DEF ProcInv, StartInv, NextInv, SteerInv, FallbackInv, Serving, Replacing, Processes,
                   Returns, Opt, SteeringOnly, Starting, Retrying
  <1> HIDE DEF p
  <1>5. CASE r.ok
    <2>1. Publish(Committed(proc.act), p, r.cost) /\ settled' = settled \cup {proc.act}
      BY <1>2, <1>5
    <2>2. /\ faults' \in 0..MaxFaults
          /\ \/ ready' = Committed(proc.act) /\ proc' = [p EXCEPT !.receipt = None]
             \/ ready' = ready /\ proc' = [p EXCEPT !.receipt = Committed(proc.act)]
      BY <1>3, <2>1, PublishShape, Known
    <2>3. Committed(proc.act) \in Contract!Receipts /\ Committed(proc.act).act = proc.act
      BY <1>1, ReceiptShape
    <2>4. ProcInv(proc')
      BY <1>1, <1>4, <2>2, <2>3, ActivationAssumption DEF ProcInv, StartInv, NextInv, SteerInv, FallbackInv, Serving, Replacing, Processes,
                   Returns, Opt, SteeringOnly, Starting, Retrying
    <2>5. /\ proc'.pc = "renew" /\ proc'.receipt \in {None, Committed(proc.act)}
          /\ Shown(proc', "steering", proc.act, None) /\ NextOf(proc) = None
      BY <1>1, <1>4, <2>2, Known DEF ProcInv, StartInv, Serving, Processes, Shown, StateOf, NextOf, Starting, Retrying
    <2>6. ContractStep
      BY <1>1, <2>1, <2>2, <2>5, Commits
    <2>7. ready' \in Opt(Contract!Receipts) /\ settled' \subseteq Activations
          /\ settled \subseteq settled' /\ proc.act \in settled'
      BY <1>1, <2>1, <2>2, <2>3, Known DEF Opt
    <2>8. Inv'
      BY <1>1, <1>2, <1>3, <2>2, <2>3, <2>4, <2>5, <2>7, Preserves, Known DEF Starting
    <2> QED BY <2>6, <2>8 DEF StepOK
  <1>6. CASE ~r.ok
    <2>1. /\ faults' \in 0..MaxFaults /\ UNCHANGED <<ready, settled>>
          /\ proc' = Retries(proc, proc.act) \/ Go("fail")
      BY <1>2, <1>3, <1>6, SpendShape, Known
    <2>2. CASE proc' = Retries(proc, proc.act)
      BY <1>1, <1>2, <1>3, <2>1, <2>2, RetriesStep, Known, ActivationAssumption
    <2>3. CASE Go("fail")
      <3>1. ProcInv(proc') /\ proc'.receipt = proc.receipt
        BY <1>1, <2>3, Known DEF Go, ProcInv, StartInv, NextInv, SteerInv, FallbackInv, Serving, Replacing, Processes,
                   Returns, Opt, SteeringOnly, Starting, Retrying
      <3>2. Shown(proc', StateOf(proc), proc.act, NextOf(proc))
        BY <1>1, <2>3, Known DEF Go, Processes, Shown, StateOf, NextOf, Starting, Retrying
      <3> QED BY <1>1, <1>2, <1>3, <2>1, <3>1, <3>2, StutterStep, Known DEF Starting
    <2> QED BY <2>1, <2>2, <2>3
  <1> QED BY <1>5, <1>6

\* Core and the tunnel go, and the receipt no longer names a process.
LEMMA CleanupStep == ASSUME Inv, Cleanup PROVE StepOK
  <1>1. proc.pc = "cleanup" /\ UNCHANGED <<cand, settled>> /\ proc.owner \in Generations
        /\ None \in Opt(Decls) /\ core' = NoCore
        /\ proc' = [proc EXCEPT !.pc = "wait", !.phase = "stopped", !.owner = proc.gen]
    BY Known DEF Cleanup, At
  <1>2. PICK r \in Answers("Rollback", proc.owner, None) :
            net' = r.net /\ RemoveReceipt(r.cost)
    BY DEF Cleanup
  <1>3. Held(r.net) /\ r.cost \in Nat /\ r.cost + 1 \in Nat
    BY <1>1, NetAnswers, Zenon
  <1>4. faults' \in 0..MaxFaults /\ ready' \in {None, Contract!Orphaned(ready)}
    BY <1>2, <1>3, SpendShape, Known DEF RemoveReceipt
  <1>5. ready' \in Opt(Contract!Receipts) /\ Contract!Orphaned(ready') = ready'
    BY <1>4, OrphanedShape, Known DEF Opt
  <1>6. ProcInv(proc') /\ proc'.receipt = proc.receipt
    BY <1>1, Known, ZenonT(30) DEF ProcInv, StartInv, NextInv, SteerInv, FallbackInv, Serving, Replacing, Processes,
                   Returns, Opt, SteeringOnly, Starting, Retrying
  <1>7. Shown(proc', "retrying", proc.act, NextOf(proc)) /\ StateOf(proc) = "retrying"
    BY <1>1, Known DEF Processes, Shown, StateOf, NextOf, Starting, Retrying
  <1>8. ContractStep
    BY <1>1, <1>4, <1>7, CleansUp
  <1>9. core' \in Cores
    BY <1>1 DEF NoCore, Cores, Opt, Generations
  <1>10. Inv'
    BY <1>1, <1>2, <1>3, <1>4, <1>5, <1>6, <1>9, Preserves, Known
  <1> QED BY <1>8, <1>10 DEF StepOK

\* Another attempt at the same activation, or the end of the process.
LEMMA WaitBeforeRetryStep == ASSUME Inv, WaitBeforeRetry PROVE StepOK
  <1>1. proc.pc = "wait" /\ UNCHANGED <<cand, settled>>
    BY DEF WaitBeforeRetry, At
  <1>2. CASE /\ cand = proc.act /\ RemoveReceipt(0)
             /\ proc' = [proc EXCEPT !.pc = "prepare", !.recovery = TRUE]
             /\ UNCHANGED <<core, net>>
    <2>1. faults' \in 0..MaxFaults /\ ready' \in {None, Contract!Orphaned(ready)}
      BY <1>2, SpendShape, Known DEF RemoveReceipt
    <2>2. ready' \in Opt(Contract!Receipts) /\ Contract!Orphaned(ready') = ready'
      BY <2>1, OrphanedShape, Known DEF Opt
    <2>3. ProcInv(proc') /\ proc'.receipt = proc.receipt
      BY <1>1, <1>2, Known DEF ProcInv, StartInv, NextInv, SteerInv, FallbackInv, Serving, Replacing, Processes,
                   Returns, Opt, SteeringOnly, Starting, Retrying
    <2>4. Shown(proc', "starting", proc.act, NextOf(proc)) /\ StateOf(proc) = "retrying"
      BY <1>1, <1>2, Known DEF Processes, Shown, StateOf, NextOf, Starting, Retrying
    <2>5. ContractStep
      BY <1>1, <1>2, <2>1, <2>4, CleansUp
    <2>6. Inv'
      BY <1>1, <1>2, <2>1, <2>2, <2>3, Preserves, Known
    <2> QED BY <2>5, <2>6 DEF StepOK
  <1>3. CASE Ends(net) /\ RemoveReceipt(IF cand = proc.act THEN 1 ELSE 0)
    <2>1. faults' \in 0..MaxFaults /\ ready' \in {None, Contract!Orphaned(ready)}
      BY <1>3, SpendShape, Known DEF RemoveReceipt
    <2> QED BY <1>1, <1>3, <2>1, EndsStep, Known
  <1> QED BY <1>2, <1>3 DEF WaitBeforeRetry

-----------------------------------------------------------------------------
(* The loop                                                                *)

\* Between the commit and the rollback the contract sees a tunnel.
LEMMA ServingState ==
    ASSUME proc.pc \in Serving
    PROVE  StateOf(proc) \in Contract!Up /\ proc.pc # "off" /\ proc.pc # "wait" /\ proc.pc \notin Starting
  BY DEF Serving, StateOf, Starting, Retrying, Contract!Up

\* The lease is renewed and a receipt that was kept is written.
LEMMA RenewStep == ASSUME Inv, Renew PROVE StepOK
  <1> DEFINE q == IF proc.policy = None THEN "pointer" ELSE "confirm"
             p == [proc EXCEPT !.then = None, !.pc = q]
  <1>1. proc.pc = "renew" /\ UNCHANGED <<cand, settled, core>> /\ proc.owner \in Generations
        /\ None \in Opt(Decls) /\ proc.act \in Activations
    BY Known DEF Renew, At
  <1>2. PICK r \in Answers("Renew", proc.owner, None) :
              /\ net' = r.net
              /\ IF ~r.ok
                 THEN /\ proc' = Retries(proc, proc.act)
                      /\ Spend(r.cost) /\ UNCHANGED ready
                 ELSE IF proc.receipt # None /\ proc.receipt.act = cand
                 THEN Publish(proc.receipt, p, r.cost)
                 ELSE /\ proc' = [p EXCEPT !.receipt = None]
                      /\ Spend(r.cost) /\ UNCHANGED ready
    BY DEF Renew
  <1>3. Held(r.net) /\ r.cost \in Nat
    BY <1>1, NetAnswers, Zenon
  <1>4. StateOf(proc) \in Contract!Up
    BY <1>1, ServingState DEF Serving
  <1>5. /\ ProcInv(p) /\ p.receipt = proc.receipt /\ p.pc \in {"pointer", "confirm"}
        /\ Shown(p, StateOf(proc), proc.act, NextOf(proc))
    <2>0. q \in {"pointer", "confirm"} /\ (q = "pointer" <=> proc.policy = None)
      OBVIOUS
    <2> HIDE DEF q
    <2>a. p \in Processes
      BY <2>0, Known, ZenonT(30) DEF Processes, Returns, Serving
    <2>b. p.pc = q /\ p.act = proc.act /\ p.next = proc.next /\ p.policy = proc.policy
          /\ p.steer = proc.steer /\ p.susp = proc.susp /\ p.phase = proc.phase
          /\ p.loss = proc.loss /\ p.integ = proc.integ
      BY Known DEF Processes
    <2> HIDE DEF p
    <2>1. ProcInv(p)
      BY <1>1, <2>0, <2>a, <2>b, Known
         DEF ProcInv, StartInv, NextInv, SteerInv, FallbackInv, Serving, Replacing
    <2>2. p.receipt = proc.receipt /\ p.pc \in {"pointer", "confirm"}
      BY <2>0, Known DEF p, Processes
    <2>3. Shown(p, StateOf(proc), proc.act, NextOf(proc))
      BY <1>1, <2>0, <2>b, Known DEF Processes, Shown, StateOf, NextOf, Starting, Retrying
    <2> QED BY <2>1, <2>2, <2>3
  <1> HIDE DEF p
  <1>6. ASSUME NEW x \in Opt(Contract!Receipts), proc' = [p EXCEPT !.receipt = x]
        PROVE  /\ ProcInv(proc') /\ proc'.receipt = x /\ proc'.pc \in {"pointer", "confirm"}
               /\ Shown(proc', StateOf(proc), proc.act, NextOf(proc))
    <2>1. ProcInv(proc')
      BY <1>5, <1>6 DEF ProcInv, StartInv, NextInv, SteerInv, FallbackInv, Serving, Replacing, Processes,
                   Returns, Opt, SteeringOnly, Starting, Retrying
    <2>2. proc'.receipt = x /\ proc'.pc \in {"pointer", "confirm"}
      BY <1>5, <1>6 DEF ProcInv, Processes
    <2>3. Shown(proc', StateOf(proc), proc.act, NextOf(proc))
      BY <1>5, <1>6 DEF ProcInv, Processes, Shown, StateOf, NextOf, Starting, Retrying
    <2> QED BY <2>1, <2>2, <2>3
  <1>7. CASE ~r.ok
    <2>1. proc' = Retries(proc, proc.act) /\ faults' \in 0..MaxFaults /\ UNCHANGED ready
      BY <1>2, <1>3, <1>7, SpendShape, Known
    <2> QED BY <1>1, <1>2, <1>3, <1>4, <2>1, RetriesStep, Known, ActivationAssumption
  <1>8. CASE r.ok /\ proc.receipt # None /\ proc.receipt.act = cand
    <2>1. Publish(proc.receipt, p, r.cost)
      BY <1>2, <1>8
    <2>2. /\ faults' \in 0..MaxFaults
          /\ \/ ready' = proc.receipt /\ proc' = [p EXCEPT !.receipt = None]
             \/ ready' = ready /\ proc' = [p EXCEPT !.receipt = proc.receipt]
      BY <1>3, <2>1, PublishShape, Known
    <2>3. proc.receipt \in Opt(Contract!Receipts) /\ None \in Opt(Contract!Receipts)
      BY Known DEF Processes, Opt
    <2>4. CASE ready' = proc.receipt /\ proc' = [p EXCEPT !.receipt = None]
      <3>1. cand # None
        BY <1>8, <2>3, ActivationAssumption DEF Opt, Contract!Receipts
      <3>2. ready' = Rejected(cand) \/ (ready' = Committed(cand) /\ cand \in settled)
        BY <1>8, <2>4 DEF Inv, ReceiptInv
      <3>3. /\ ProcInv(proc') /\ proc'.receipt = None /\ proc'.pc \in {"pointer", "confirm"}
            /\ Shown(proc', StateOf(proc), proc.act, NextOf(proc))
        BY <1>6, <2>3, <2>4
      <3>4. ContractStep
        BY <1>1, <1>4, <3>1, <3>2, <3>3, Reports
      <3>5. Inv'
        BY <1>1, <1>2, <1>3, <2>2, <2>3, <2>4, <3>3, Preserves, Known DEF Starting
      <3> QED BY <3>4, <3>5 DEF StepOK
    <2>5. CASE ready' = ready /\ proc' = [p EXCEPT !.receipt = proc.receipt]
      <3>1. /\ ProcInv(proc') /\ proc'.receipt = proc.receipt
            /\ proc'.pc \in {"pointer", "confirm"}
            /\ Shown(proc', StateOf(proc), proc.act, NextOf(proc))
        BY <1>6, <2>3, <2>5
      <3> QED BY <1>1, <1>2, <1>3, <2>2, <2>5, <3>1, StutterStep, Known DEF Starting
    <2> QED BY <2>2, <2>4, <2>5
  <1>9. CASE r.ok /\ ~(proc.receipt # None /\ proc.receipt.act = cand)
    <2>1. proc' = [p EXCEPT !.receipt = None] /\ faults' \in 0..MaxFaults /\ UNCHANGED ready
      BY <1>2, <1>3, <1>9, SpendShape, Known
    <2>2. /\ ProcInv(proc') /\ proc'.receipt = None /\ proc'.pc \in {"pointer", "confirm"}
          /\ Shown(proc', StateOf(proc), proc.act, NextOf(proc))
      BY <1>6, <2>1 DEF Opt
    <2> QED BY <1>1, <1>2, <1>3, <2>1, <2>2, StutterStep, Known DEF Starting
  <1> QED BY <1>7, <1>8, <1>9

\* The policy in hand is adopted and reported, or is to be reported.
LEMMA AdoptStep ==
    ASSUME Inv, proc.pc \in {"confirm", "polCore"}, NEW a \in Activations, NextOf(proc) = a,
           NEW p \in Processes, p.pc \in {"pointer", "renew"}, p.steer = proc.steer,
           p.susp = proc.susp, p.loss = proc.loss, p.integ = proc.integ,
           p.phase = proc.phase, NEW cost \in Nat, Adopt(a, p, cost), UNCHANGED cand,
           core' \in Cores, Held(net')
    PROVE  StepOK
  <1> DEFINE q == [p EXCEPT !.act = a, !.next = None, !.policy = None, !.retry = None]
  <1>1. settled' = settled \cup {a} /\ Publish(Committed(a), q, cost)
    BY DEF Adopt
  <1>2. q \in Processes /\ q.pc = p.pc /\ q.act = a /\ q.next = None /\ q.policy = None
        /\ q.steer = p.steer /\ q.susp = p.susp /\ q.loss = p.loss /\ q.integ = p.integ
        /\ q.phase = p.phase
    BY DEF Processes, Opt
  <1> HIDE DEF q
  <1>3. /\ faults' \in 0..MaxFaults
        /\ \/ ready' = Committed(a) /\ proc' = [q EXCEPT !.receipt = None]
           \/ ready' = ready /\ proc' = [q EXCEPT !.receipt = Committed(a)]
    BY <1>1, PublishShape, Known
  <1>4. Committed(a) \in Contract!Receipts /\ Committed(a).act = a
    BY ReceiptShape
  <1>5. ProcInv(proc')
    BY <1>2, <1>3, <1>4, Known, ActivationAssumption DEF ProcInv, StartInv, NextInv, SteerInv, FallbackInv, Serving, Replacing, Processes,
                   Returns, Opt, SteeringOnly, Starting, Retrying
  <1>6. /\ proc'.pc \in {"pointer", "renew"} /\ proc'.receipt \in {None, Committed(a)}
        /\ Shown(proc', StateOf(proc), a, None)
    BY <1>2, <1>3, Known DEF Processes, Shown, StateOf, NextOf, Starting, Retrying
  <1>7. a # None
    BY ActivationAssumption
  <1>8. ContractStep
    BY <1>1, <1>3, <1>6, <1>7, Replaces
  <1>9. ready' \in Opt(Contract!Receipts) /\ settled' \subseteq Activations
        /\ settled \subseteq settled' /\ a \in settled'
    BY <1>1, <1>3, <1>4, Known DEF Opt
  <1>10. Inv'
    BY <1>3, <1>4, <1>5, <1>6, <1>9, Preserves, Known DEF Starting
  <1> QED BY <1>8, <1>10 DEF StepOK

\* Core has exited while an update was uncertain: start again.
LEMMA ConfirmCoreGoneStep == ASSUME Inv, ConfirmCoreGone PROVE StepOK
  <1>1. proc.pc = "confirm" /\ UNCHANGED <<cand, ready, settled, core, net, faults>>
        /\ proc' = Retries(proc, proc.act) /\ proc.act \in Activations
    BY Known DEF ConfirmCoreGone, At
  <1>2. StateOf(proc) \in Contract!Up
    BY <1>1, ServingState DEF Serving
  <1> QED BY <1>1, <1>2, RetriesStep, Known, ActivationAssumption

\* What an adoption starts from.
LEMMA ConfirmFacts ==
    ASSUME Inv, proc.pc = "confirm"
    PROVE  LET p == [proc EXCEPT !.pc = "pointer"]
           IN /\ p \in Processes /\ p.pc \in {"pointer", "renew"} /\ p.steer = proc.steer
              /\ p.susp = proc.susp /\ p.loss = proc.loss /\ p.integ = proc.integ
              /\ p.phase = proc.phase
              /\ proc.policy \in Activations /\ NextOf(proc) = proc.policy
  BY Known DEF ProcInv, StartInv, NextInv, SteerInv, FallbackInv, Serving, Replacing, Processes,
                   Returns, Opt, SteeringOnly, Starting, Retrying, NextOf

\* Core shows the uncertain update: it is adopted and reported.
LEMMA ConfirmAppliedStep == ASSUME Inv, ConfirmApplied PROVE StepOK
  <1>1. proc.pc = "confirm" /\ UNCHANGED <<cand, core, net>>
        /\ Adopt(proc.policy, [proc EXCEPT !.pc = "pointer"], 0)
    BY DEF ConfirmApplied, At
  <1> QED BY <1>1, ConfirmFacts, AdoptStep, Known

\* The update stays uncertain; a newer candidate takes its place.
LEMMA UnconfirmedStep ==
    ASSUME Inv, proc.pc = "confirm", Unconfirmed, UNCHANGED <<cand, ready, settled>>,
           core' \in Cores, Held(net'), faults' \in 0..MaxFaults
    PROVE  StepOK
  <1> DEFINE b == IF cand \notin {None, proc.policy} /\ cand.gen >= proc.policy.gen
                  THEN cand ELSE proc.policy
  <1>1. proc' = [proc EXCEPT !.pc = "renew", !.policy = b]
    BY Known DEF Unconfirmed, Processes
  <1>2. proc.policy \in Activations /\ NextOf(proc) = proc.policy
    BY ConfirmFacts
  <1>3. b \in Activations /\ b \in {cand, proc.policy} /\ b # None
    BY <1>2, Known, ActivationAssumption DEF Opt
  <1> HIDE DEF b
  <1>4. ProcInv(proc') /\ proc'.receipt = proc.receipt /\ proc'.pc = "renew"
    BY <1>1, <1>3, Known, ZenonT(30) DEF ProcInv, StartInv, NextInv, SteerInv, FallbackInv, Serving, Replacing, Processes,
                   Returns, Opt, SteeringOnly, Starting, Retrying
  <1>5. Shown(proc', StateOf(proc), proc.act, b)
    BY <1>1, <1>3, Known DEF Processes, Shown, StateOf, NextOf, Starting, Retrying
  <1>6. StateOf(proc) \in Contract!Up \ {"leaving"}
    BY DEF StateOf, Starting, Retrying, Contract!Up
  <1>7. CASE b = proc.policy
    BY <1>2, <1>4, <1>5, <1>7, StutterStep DEF Starting
  <1>8. CASE b = cand
    <2>1. ContractStep
      BY <1>2, <1>3, <1>5, <1>6, <1>8, Notices, ActivationAssumption
    <2>2. Inv'
      BY <1>4, Goes DEF Starting
    <2> QED BY <2>1, <2>2 DEF StepOK
  <1> QED BY <1>3, <1>7, <1>8

\* The uncertain update is sent again.
LEMMA ConfirmRetryStep == ASSUME Inv, ConfirmRetry PROVE StepOK
  <1> DEFINE b == proc.policy
             same == [net |-> net, ok |-> TRUE, hard |-> FALSE, cost |-> 0]
             R == IF Decl(b) = Decl(proc.act) THEN {same} ELSE Answers("Policy", proc.owner, Decl(b))
             after == [core EXCEPT !.act = b]
  <1>1. proc.pc = "confirm" /\ UNCHANGED cand /\ b \in Activations
        /\ NextOf(proc) = b /\ proc.owner \in Generations /\ Decl(b) \in Opt(Decls)
    BY Known, ConfirmFacts, DeclShape DEF ConfirmRetry, At
  <1>2. PICK r \in R, c \in CoreAnswers("CorePolicy", after) :
             IF b.tun # proc.act.tun
             THEN Unconfirmed /\ Spend(0) /\ UNCHANGED <<ready, settled, core, net>>
             ELSE IF ~r.ok
             THEN /\ Unconfirmed /\ net' = r.net /\ Spend(r.cost)
                  /\ UNCHANGED <<ready, settled, core>>
             ELSE /\ net' = r.net /\ core' = c.core
                  /\ IF c.ok
                     THEN Adopt(b, [proc EXCEPT !.pc = "pointer"], r.cost)
                     ELSE /\ Unconfirmed /\ Spend(r.cost + c.cost)
                          /\ UNCHANGED <<ready, settled>>
    BY Zenon DEF ConfirmRetry
  <1>3. Held(r.net) /\ r.cost \in Nat
    <2>1. CASE r = same
      BY <2>1, Known
    <2>2. CASE r \in Answers("Policy", proc.owner, Decl(b))
      BY <1>1, <2>2, NetAnswers, Zenon
    <2> QED BY <2>1, <2>2
  <1>4. after \in Cores
    BY <1>1, Known DEF Cores, Opt
  <1>5. c.core \in Cores /\ c.cost \in Nat
    BY <1>4, CoreReplies, Zenon
  <1>6. r.cost + c.cost \in Nat
    BY <1>3, <1>5
  <1>7. CASE c.ok /\ Adopt(b, [proc EXCEPT !.pc = "pointer"], r.cost) /\ net' = r.net /\ core' = c.core
    BY <1>1, <1>3, <1>5, <1>7, ConfirmFacts, AdoptStep
  <1>8. CASE /\ Unconfirmed /\ UNCHANGED <<ready, settled>> /\ net' \in {net, r.net}
             /\ core' \in {core, c.core} /\ (Spend(0) \/ Spend(r.cost) \/ Spend(r.cost + c.cost))
    <2>1. faults' \in 0..MaxFaults
      BY <1>3, <1>6, <1>8, SpendShape, Known
    <2>2. core' \in Cores /\ Held(net')
      BY <1>3, <1>5, <1>8, Known
    <2> QED BY <1>1, <1>8, <2>1, <2>2, UnconfirmedStep
  <1> QED BY <1>2, <1>7, <1>8

\* The pointer names what is served.
LEMMA PointerUnchangedStep == ASSUME Inv, PointerUnchanged PROVE StepOK
  <1>1. proc.pc = "pointer" /\ proc' = [proc EXCEPT !.pc = "health"]
        /\ UNCHANGED <<cand, ready, settled, core, net, faults>>
    BY DEF PointerUnchanged, At, Go
  <1>2. ProcInv(proc') /\ proc'.receipt = proc.receipt /\ proc'.pc = "health"
    BY <1>1, Known DEF ProcInv, StartInv, NextInv, SteerInv, FallbackInv, Serving, Replacing, Processes,
                   Returns, Opt, SteeringOnly, Starting, Retrying
  <1>3. Shown(proc', StateOf(proc), proc.act, NextOf(proc))
    BY <1>1, Known DEF Processes, Shown, StateOf, NextOf, Starting, Retrying
  <1> QED BY <1>1, <1>2, <1>3, StutterStep, Known DEF Starting

\* The pointer names another activation, to follow or to leave alone.
LEMMA PointerSupersededStep == ASSUME Inv, PointerSuperseded PROVE StepOK
  <1>1. proc.pc = "pointer" /\ UNCHANGED <<cand, ready, settled, core, net, faults>>
        /\ cand \in Activations /\ cand # proc.act /\ cand # None
    BY Known DEF PointerSuperseded, At, Opt
  <1>2. CASE proc' = [proc EXCEPT !.pc = "health"]
    <2>1. ProcInv(proc') /\ proc'.receipt = proc.receipt /\ proc'.pc = "health"
      BY <1>1, <1>2, Known DEF ProcInv, StartInv, NextInv, SteerInv, FallbackInv, Serving, Replacing, Processes,
                   Returns, Opt, SteeringOnly, Starting, Retrying
    <2>2. Shown(proc', StateOf(proc), proc.act, NextOf(proc))
      BY <1>1, <1>2, Known DEF Processes, Shown, StateOf, NextOf, Starting, Retrying
    <2> QED BY <1>1, <2>1, <2>2, StutterStep, Known DEF Starting
  <1>3. CASE proc' = [proc EXCEPT !.pc = "policy", !.next = cand]
    <2>1. ProcInv(proc') /\ proc'.receipt = proc.receipt /\ proc'.pc = "policy"
      BY <1>1, <1>3, Known, ZenonT(30) DEF ProcInv, StartInv, NextInv, SteerInv, FallbackInv, Serving, Replacing, Processes,
                   Returns, Opt, SteeringOnly, Starting, Retrying
    <2>2. proc.policy = None
      BY <1>1, Known DEF ProcInv, NextInv
    <2>3. Shown(proc', StateOf(proc), proc.act, cand)
      BY <1>1, <1>3, <2>2, Known DEF Processes, Shown, StateOf, NextOf, Starting, Retrying
    <2>4. StateOf(proc) \in Contract!Up \ {"leaving"}
      BY <1>1 DEF StateOf, Starting, Retrying, Contract!Up
    <2>5. ContractStep
      BY <1>1, <2>3, <2>4, Notices
    <2>6. Inv'
      BY <1>1, <2>1, Goes, Known DEF Starting
    <2> QED BY <2>5, <2>6 DEF StepOK
  <1> QED BY <1>2, <1>3 DEF PointerSuperseded, Go

\* The pointer is gone: the process begins to leave.
LEMMA PointerWithdrawnStep == ASSUME Inv, PointerWithdrawn PROVE StepOK
  <1> DEFINE q == IF proc.steer /\ proc.susp THEN "unlink" ELSE "fbNetd"
  <1>1. proc.pc = "pointer" /\ UNCHANGED <<cand, ready, settled, core, net, faults>>
        /\ cand = None
        /\ proc' = [proc EXCEPT !.loss = FALSE, !.integ = FALSE, !.rejected = None,
                                !.then = "withdrawn", !.pc = q]
    BY DEF PointerWithdrawn, At
  <1>2. q \in {"unlink", "fbNetd"} /\ (q = "unlink" => proc.steer)
    OBVIOUS
  <1> HIDE DEF q
  <1>3. ProcInv(proc') /\ proc'.receipt = proc.receipt /\ proc'.pc = q
    BY <1>1, <1>2, Known, ZenonT(30) DEF ProcInv, StartInv, NextInv, SteerInv, FallbackInv, Serving, Replacing, Processes,
                   Returns, Opt, SteeringOnly, Starting, Retrying
  <1>4. Shown(proc', "leaving", proc.act, NextOf(proc))
    BY <1>1, <1>2, Known DEF Processes, Shown, StateOf, NextOf, Starting, Retrying
  <1>5. StateOf(proc) \in Contract!Up \ {"leaving"} /\ NextOf(proc) = None
    BY <1>1, Known DEF StateOf, Starting, Retrying, Contract!Up, NextOf, ProcInv, NextInv
  <1>6. ContractStep
    BY <1>1, <1>4, <1>5, Leaves
  <1>7. Inv'
    BY <1>1, <1>2, <1>3, Goes, Known DEF Starting
  <1> QED BY <1>6, <1>7 DEF StepOK

\* The receipt of a withdrawn activation goes.
LEMMA RemoveWithdrawnReceiptStep == ASSUME Inv, RemoveWithdrawnReceipt PROVE StepOK
  <1>1. /\ proc.pc = "unlink" /\ UNCHANGED <<cand, settled, core, net>>
        /\ faults' \in 0..MaxFaults
        /\ \/ ready' = None /\ proc' = [proc EXCEPT !.pc = "health"]
           \/ ready' = ready /\ proc' = [proc EXCEPT !.pc = "renew"]
    BY SpendShape, Known DEF RemoveWithdrawnReceipt, At, Go
  <1>2. ProcInv(proc') /\ proc'.receipt = proc.receipt /\ proc'.pc \in {"health", "renew"}
    BY <1>1, Known DEF ProcInv, StartInv, NextInv, SteerInv, FallbackInv, Serving, Replacing, Processes,
                   Returns, Opt, SteeringOnly, Starting, Retrying
  <1>3. Shown(proc', "parked", proc.act, NextOf(proc)) /\ StateOf(proc) = "leaving"
    BY <1>1, Known DEF ProcInv, SteerInv, FallbackInv, Processes, Shown, StateOf, NextOf, Starting, Retrying
  <1>4. ContractStep
    BY <1>1, <1>3, Withdraws, FailsToLeave
  <1>5. ready' \in Opt(Contract!Receipts)
    BY <1>1, Known DEF Opt
  <1>6. Inv'
    BY <1>1, <1>2, <1>5, Preserves, Known DEF Starting
  <1> QED BY <1>4, <1>6 DEF StepOK

-----------------------------------------------------------------------------
(* A policy update and a replacement                                       *)

\* While a replacement is in hand no policy waits for its confirmation.
LEMMA ReplacingFacts ==
    ASSUME Inv, proc.pc \in Replacing
    PROVE  /\ proc.pc \in Serving /\ proc.next \in Activations /\ proc.next # None
           /\ NextOf(proc) = proc.next /\ proc.act \in Activations
           /\ proc.owner \in Generations /\ proc.next.gen \in Generations
           /\ Decl(proc.next) \in Opt(Decls) /\ Decl(proc.act) \in Opt(Decls)
           /\ proc.gen \in Generations /\ None \in Opt(Decls)
           /\ StateOf(proc) \in {"steering", "fallback", "parked"}
           /\ StateOf(proc) \in Contract!Up
  <1>1. proc.next \in Activations /\ proc.policy = None /\ proc.pc # "off"
    BY Known DEF ProcInv, NextInv, Replacing, Opt
  <1>2. proc.pc \in Serving
    BY DEF Replacing, Serving
  <1>3. StateOf(proc) \in {"steering", "fallback", "parked"}
    BY DEF StateOf, Replacing, Starting, Retrying
  <1> QED BY <1>1, <1>2, <1>3, Known, DeclShape, ServingState, ActivationAssumption DEF NextOf

\* A policy is rejected, and reported or to be reported so.
LEMMA RejectPolicyStep ==
    ASSUME Inv, proc.pc \in {"policy", "polRestore"}, NEW cost \in Nat,
           RejectPolicy(proc, cost), UNCHANGED <<cand, settled>>, core' \in Cores, Held(net')
    PROVE  StepOK
  <1> DEFINE a == proc.next
             p == [proc EXCEPT !.pc = "renew", !.rejected = a, !.next = None]
  <1>1. a \in Activations /\ a # None /\ NextOf(proc) = a
    BY ReplacingFacts DEF Replacing
  <1>2. /\ faults' \in 0..MaxFaults
        /\ \/ ready' = Rejected(a) /\ proc' = [p EXCEPT !.receipt = None]
           \/ ready' = ready /\ proc' = [p EXCEPT !.receipt = Rejected(a)]
    BY PublishShape, Known DEF RejectPolicy
  <1>3. Rejected(a) \in Contract!Receipts /\ Rejected(a).act = a
    BY <1>1, ReceiptShape
  <1>4. /\ p \in Processes /\ p.pc = "renew" /\ p.act = proc.act /\ p.next = None
        /\ p.policy = None /\ p.steer = proc.steer /\ p.susp = proc.susp
        /\ p.loss = proc.loss /\ p.integ = proc.integ /\ p.phase = proc.phase
    BY <1>1, Known DEF ProcInv, StartInv, NextInv, SteerInv, FallbackInv, Serving, Replacing, Processes,
                   Returns, Opt, SteeringOnly, Starting, Retrying
  <1> HIDE DEF p
  <1>5. /\ proc' \in Processes /\ proc'.pc = "renew" /\ proc'.act = proc.act /\ proc'.next = None
        /\ proc'.policy = None /\ proc'.steer = proc.steer /\ proc'.susp = proc.susp
        /\ proc'.loss = proc.loss /\ proc'.integ = proc.integ /\ proc'.phase = proc.phase
        /\ proc'.receipt \in {None, Rejected(a)}
    BY <1>2, <1>3, <1>4 DEF Processes, Opt
  <1>6. ProcInv(proc')
    BY <1>5, Known DEF ProcInv, StartInv, NextInv, SteerInv, FallbackInv, Serving, Replacing
  <1>7. Shown(proc', StateOf(proc), proc.act, None)
    BY <1>5 DEF Shown, StateOf, NextOf, Starting, Retrying
  <1>8. ContractStep
    BY <1>1, <1>2, <1>7, Rejects
  <1>9. ready' \in Opt(Contract!Receipts)
    BY <1>2, <1>3, Known DEF Opt
  <1>10. Inv'
    BY <1>2, <1>3, <1>5, <1>6, <1>9, Preserves, Known DEF Starting
  <1> QED BY <1>8, <1>10 DEF StepOK

\* A replacement is left for later.
LEMMA PostponeStep ==
    ASSUME Inv, proc.pc \in Replacing, NEW q \in {"renew", "health"},
           Postpone(proc, q), UNCHANGED <<cand, ready, settled>>,
           core' \in Cores, Held(net'), faults' \in 0..MaxFaults
    PROVE  StepOK
  <1>1. proc' = [proc EXCEPT !.pc = q, !.retry = proc.next, !.next = None]
    BY DEF Postpone
  <1>2. proc.next \in Activations /\ NextOf(proc) # None /\ proc.policy = None
    BY ReplacingFacts, Known DEF ProcInv, NextInv, Replacing
  <1>a. /\ proc' \in Processes /\ proc'.pc = q /\ proc'.act = proc.act /\ proc'.next = None
        /\ proc'.policy = None /\ proc'.receipt = proc.receipt /\ proc'.steer = proc.steer
        /\ proc'.susp = proc.susp /\ proc'.loss = proc.loss /\ proc'.integ = proc.integ
        /\ proc'.phase = proc.phase
    <2> DEFINE a == proc.next
               p == [proc EXCEPT !.pc = q]
    <2>1. p \in Processes /\ p.pc = q /\ p.act = proc.act /\ p.policy = None
          /\ p.receipt = proc.receipt /\ p.steer = proc.steer
          /\ p.susp = proc.susp /\ p.loss = proc.loss /\ p.integ = proc.integ
          /\ p.phase = proc.phase /\ proc' = [p EXCEPT !.retry = a, !.next = None]
      BY <1>1, <1>2, Known DEF Processes, Serving
    <2>2. a \in Activations
      BY <1>2
    <2> HIDE DEF p, a
    <2> QED BY <2>1, <2>2, ZenonT(30) DEF Processes, Opt
  <1>b. proc.act # None
    BY ReplacingFacts, ActivationAssumption
  <1>3. ProcInv(proc')
    BY <1>a, <1>b, Known
       DEF ProcInv, StartInv, NextInv, SteerInv, FallbackInv, Serving, Replacing
  <1>4. Shown(proc', StateOf(proc), proc.act, None)
    BY <1>a DEF Replacing, Shown, StateOf, NextOf, Starting, Retrying
  <1>5. ContractStep
    BY <1>2, <1>4, Abandons
  <1>6. Inv'
    BY <1>3, <1>a, Goes DEF Starting
  <1> QED BY <1>5, <1>6 DEF StepOK

\* The agent goes on with a replacement whose commit it is not sure of.
LEMMA GoesOnWith ==
    ASSUME Inv, NEW p \in Processes, p.next = NextOf(proc), p.next # None,
           p.policy = None, p.receipt = proc.receipt, p.steer => p.phase = "suspended",
           p.susp => p.steer, AppliedPending(p),
           UNCHANGED <<cand, ready, settled>>, core' \in Cores, Held(net'),
           faults' \in 0..MaxFaults
    PROVE  StepOK
  <1> DEFINE a == p.next
             q == [p EXCEPT !.pc = "health", !.loss = TRUE, !.rejected = None]
  <1>1. a \in Activations /\ a.gen \in Generations
    BY DeclShape DEF Processes, Opt
  <1>2. q \in Processes
    <2> DEFINE q1 == [p EXCEPT !.pc = "health", !.loss = TRUE]
    <2>1. q1 \in Processes /\ q = [q1 EXCEPT !.rejected = None]
      BY DEF Processes, Serving
    <2> HIDE DEF q1, q
    <2> QED BY <2>1 DEF Processes, Opt
  <1>3. q.pc = "health" /\ q.policy = None /\ q.receipt = p.receipt /\ q.steer = p.steer
        /\ q.susp = p.susp /\ q.loss = TRUE /\ q.phase = p.phase
    BY DEF Processes
  <1>4. proc' = [q EXCEPT !.act = a, !.gen = a.gen, !.next = None]
    BY DEF Processes, AppliedPending
  <1> HIDE DEF q, a
  <1>5. /\ proc' \in Processes /\ proc'.pc = "health" /\ proc'.act = a
        /\ proc'.next = None /\ proc'.policy = None /\ proc'.receipt = p.receipt
        /\ proc'.steer = p.steer /\ proc'.susp = p.susp /\ proc'.loss = TRUE
        /\ proc'.phase = p.phase
    BY <1>1, <1>2, <1>3, <1>4 DEF Processes, Opt
  <1>6. a # None
    BY DEF a
  <1>7. ProcInv(proc')
    BY <1>5, <1>6 DEF ProcInv, StartInv, NextInv, SteerInv, FallbackInv, Serving, Replacing
  <1>8. \E s \in {"steering", "fallback"} : Shown(proc', s, a, None)
    BY <1>5 DEF Shown, StateOf, NextOf, Starting, Retrying
  <1>9. ContractStep
    BY <1>6, <1>8, Assumes DEF a
  <1>10. Inv'
    BY <1>5, <1>7, Goes DEF Starting
  <1> QED BY <1>9, <1>10 DEF StepOK

\* The agent goes on with a replacement Core may have committed.
LEMMA AppliedPendingStep ==
    ASSUME Inv, proc.pc \in Replacing, AppliedPending(proc),
           UNCHANGED <<cand, ready, settled>>, core' \in Cores, Held(net'),
           faults' \in 0..MaxFaults
    PROVE  StepOK
  <1>1. proc \in Processes /\ proc.next # None /\ NextOf(proc) = proc.next
        /\ proc.policy = None /\ (proc.steer => proc.phase = "suspended")
        /\ (proc.susp => proc.steer)
    BY ReplacingFacts, Known DEF ProcInv, NextInv, SteerInv, Replacing
  <1> QED BY <1>1, GoesOnWith

\* The work on a replacement goes on.
LEMMA WorksOn ==
    ASSUME Inv, proc.pc \in Replacing, NEW q \in Replacing \cup {"fbNetd", "lvCore"},
           NEW t \in Returns,
           proc' = [proc EXCEPT !.pc = q, !.then = t],
           q = "undo" => t \in {"restored", "conflict"},
           q = "fbNetd" => t \in {"pending", "failed"},
           q = "lvCore" => t \in {"refused", "conflict", "restored", "done"},
           q \in {"netCommit", "drain", "report"} => ~proc.steer,
           q \in {"bind", "undo", "coreCommit", "hotReady"} => (proc.steer => proc.susp),
           UNCHANGED <<cand, ready, settled>>, core' \in Cores, Held(net'),
           faults' \in 0..MaxFaults
    PROVE  StepOK
  <1>1. q \in Serving /\ q \notin {"off", "wait"} \cup Starting
    BY DEF Replacing, Serving, Starting
  <1>2. /\ proc' \in Processes /\ proc'.pc = q /\ proc'.then = t /\ proc'.act = proc.act
        /\ proc'.next = proc.next /\ proc'.policy = proc.policy
        /\ proc'.receipt = proc.receipt /\ proc'.steer = proc.steer
        /\ proc'.susp = proc.susp /\ proc'.loss = proc.loss /\ proc'.integ = proc.integ
        /\ proc'.phase = proc.phase
    BY <1>1, Known DEF Processes
  <1>3. proc.next # None /\ proc.policy = None /\ proc.act # None
    BY Known DEF ProcInv, StartInv, NextInv, Replacing
  <1>4. ProcInv(proc')
    BY <1>1, <1>2, <1>3, Known
       DEF ProcInv, StartInv, NextInv, SteerInv, FallbackInv, Replacing
  <1>5. Shown(proc', StateOf(proc), proc.act, NextOf(proc))
    BY <1>2 DEF Replacing, Shown, StateOf, NextOf, Starting, Retrying
  <1> QED BY <1>1, <1>2, <1>4, <1>5, StutterStep

\* The same when only the step changes.
LEMMA GoesOn ==
    ASSUME Inv, proc.pc \in Replacing, NEW q \in Replacing \ {"undo"}, Go(q),
           q \in {"netCommit", "drain", "report"} => ~proc.steer,
           q \in {"bind", "undo", "coreCommit", "hotReady"} => (proc.steer => proc.susp),
           UNCHANGED <<cand, ready, settled>>, core' \in Cores, Held(net'),
           faults' \in 0..MaxFaults
    PROVE  StepOK
  <1>1. proc.then \in Returns /\ proc' = [proc EXCEPT !.pc = q, !.then = proc.then]
    BY Known DEF Go, Processes
  <1>2. q \notin {"undo", "fbNetd", "lvCore"}
    BY DEF Replacing
  <1> QED BY <1>1, <1>2, WorksOn

\* A replacement is rejected, or its kind decides what is asked first.
LEMMA ClassifyUpdateStep == ASSUME Inv, ClassifyUpdate PROVE StepOK
  <1>1. proc.pc = "policy" /\ UNCHANGED <<cand, settled, core, net>>
    BY DEF ClassifyUpdate, At
  <1>2. CASE RejectPolicy(proc, 0) \/ RejectPolicy(proc, 1)
    BY <1>1, <1>2, RejectPolicyStep, Known
  <1>3. CASE /\ UNCHANGED <<ready, faults>>
             /\ \E q \in {"corePrep", "polNetd", "polCore"} : Go(q)
    BY <1>1, <1>3, GoesOn, Known DEF Replacing
  <1> QED BY <1>2, <1>3 DEF ClassifyUpdate

\* netd takes the new policy, or the update is put off.
LEMMA UpdateNetdPolicyStep == ASSUME Inv, UpdateNetdPolicy PROVE StepOK
  <1>1. proc.pc = "polNetd" /\ UNCHANGED <<cand, ready, settled, core>>
        /\ proc.owner \in Generations /\ Decl(proc.next) \in Opt(Decls)
    BY ReplacingFacts DEF UpdateNetdPolicy, At, Replacing
  <1>2. PICK r \in Answers("Policy", proc.owner, Decl(proc.next)) :
           /\ net' = r.net /\ Spend(r.cost)
           /\ IF r.ok THEN Go("polCore") ELSE Postpone(proc, "renew")
    BY DEF UpdateNetdPolicy
  <1>3. Held(r.net) /\ r.cost \in Nat
    BY <1>1, NetAnswers, Zenon
  <1>4. faults' \in 0..MaxFaults
    BY <1>2, <1>3, SpendShape, Known
  <1>5. CASE Go("polCore")
    BY <1>1, <1>2, <1>3, <1>4, <1>5, GoesOn, Known DEF Replacing
  <1>6. CASE Postpone(proc, "renew")
    BY <1>1, <1>2, <1>3, <1>4, <1>6, PostponeStep, Known DEF Replacing
  <1> QED BY <1>2, <1>5, <1>6

\* Core takes the new policy, wants another way, or does not answer.
LEMMA UpdateCorePolicyStep == ASSUME Inv, UpdateCorePolicy PROVE StepOK
  <1> DEFINE after == [core EXCEPT !.act = proc.next]
             p == [proc EXCEPT !.pc = "renew", !.rejected = None]
  <1>1. proc.pc = "polCore" /\ UNCHANGED <<cand, net>> /\ proc.next \in Activations
        /\ NextOf(proc) = proc.next /\ proc.pc \in Replacing
    BY ReplacingFacts DEF UpdateCorePolicy, At, Replacing
  <1>2. after \in Cores
    BY <1>1, Known DEF Cores, Opt
  <1>3. CASE \E c \in CoreAnswers("CorePolicy", after) :
              /\ core' = c.core
              /\ IF c.ok THEN Adopt(proc.next, p, c.cost)
                 ELSE /\ proc' = [proc EXCEPT !.pc = "fbNetd", !.then = "pending"]
                      /\ Spend(c.cost) /\ UNCHANGED <<ready, settled>>
    <2>1. PICK c \in CoreAnswers("CorePolicy", after) :
              /\ core' = c.core
              /\ IF c.ok THEN Adopt(proc.next, p, c.cost)
                 ELSE /\ proc' = [proc EXCEPT !.pc = "fbNetd", !.then = "pending"]
                      /\ Spend(c.cost) /\ UNCHANGED <<ready, settled>>
      BY <1>3
    <2>2. c.core \in Cores /\ c.cost \in Nat
      BY <1>2, CoreReplies, Zenon
    <2>3. CASE c.ok
      <3>1. /\ p \in Processes /\ p.pc \in {"pointer", "renew"} /\ p.steer = proc.steer
            /\ p.susp = proc.susp /\ p.loss = proc.loss /\ p.integ = proc.integ
            /\ p.phase = proc.phase
        BY Known, ZenonT(30) DEF Processes, Opt, Serving
      <3> HIDE DEF p
      <3> QED BY <1>1, <2>1, <2>2, <2>3, <3>1, AdoptStep, Known
    <2>4. CASE ~c.ok
      <3>1. faults' \in 0..MaxFaults
        BY <2>1, <2>2, <2>4, SpendShape, Known
      <3> QED BY <1>1, <2>1, <2>2, <2>4, <3>1, WorksOn, Known DEF Replacing, Returns
    <2> QED BY <2>3, <2>4
  <1>4. CASE /\ UNCHANGED <<ready, settled, core>>
             /\ \E t \in {"replace", "reject"} :
                 /\ proc' = [proc EXCEPT !.pc = "polRestore", !.then = t]
                 /\ Spend(IF t = "reject" THEN 1 ELSE 0)
    <2>1. faults' \in 0..MaxFaults
      BY <1>4, SpendShape, Known
    <2> QED BY <1>1, <1>4, <2>1, WorksOn, Known DEF Replacing, Returns
  <1> QED BY <1>3, <1>4 DEF UpdateCorePolicy

\* netd gets its policy back before a refusal is acted on.
LEMMA RestoreNetdPolicyStep == ASSUME Inv, RestoreNetdPolicy PROVE StepOK
  <1> DEFINE same == [net |-> net, ok |-> TRUE, hard |-> FALSE, cost |-> 0]
  <1>1. proc.pc = "polRestore" /\ UNCHANGED <<cand, settled, core>>
        /\ proc.owner \in Generations /\ Decl(proc.act) \in Opt(Decls)
    BY ReplacingFacts DEF RestoreNetdPolicy, At, Replacing
  <1>2. PICK r \in IF proc.next.pol = proc.act.pol THEN {same}
                   ELSE Answers("Policy", proc.owner, Decl(proc.act)) :
           /\ net' = r.net
           /\ IF r.ok /\ proc.then = "reject" THEN RejectPolicy(proc, r.cost)
              ELSE /\ IF r.ok THEN Go("corePrep")
                      ELSE proc' = [proc EXCEPT !.pc = "fbNetd",
                                                !.then = "pending"]
                   /\ Spend(r.cost) /\ UNCHANGED ready
    BY DEF RestoreNetdPolicy
  <1>3. Held(r.net) /\ r.cost \in Nat
    <2>1. CASE r = same
      BY <2>1, Known
    <2>2. CASE r \in Answers("Policy", proc.owner, Decl(proc.act))
      BY <1>1, <2>2, NetAnswers, Zenon
    <2> QED BY <2>1, <2>2
  <1>4. CASE RejectPolicy(proc, r.cost)
    BY <1>1, <1>2, <1>3, <1>4, RejectPolicyStep, Known
  <1>5. CASE Go("corePrep") /\ Spend(r.cost) /\ UNCHANGED ready
    <2>1. faults' \in 0..MaxFaults
      BY <1>3, <1>5, SpendShape, Known
    <2> QED BY <1>1, <1>2, <1>3, <1>5, <2>1, GoesOn, Known DEF Replacing
  <1>6. CASE /\ proc' = [proc EXCEPT !.pc = "fbNetd", !.then = "pending"]
             /\ Spend(r.cost) /\ UNCHANGED ready
    <2>1. faults' \in 0..MaxFaults
      BY <1>3, <1>6, SpendShape, Known
    <2> QED BY <1>1, <1>2, <1>3, <1>6, <2>1, WorksOn, Known DEF Replacing, Returns
  <1> QED BY <1>2, <1>4, <1>5, <1>6

\* Core prepares the replacement.
LEMMA PrepareCoreStep == ASSUME Inv, PrepareCore PROVE StepOK
  <1> DEFINE after == [core EXCEPT !.prep = proc.next]
  <1>1. proc.pc = "corePrep" /\ UNCHANGED <<cand, ready, settled, net>>
        /\ proc.next \in Activations /\ proc.pc \in Replacing
    BY ReplacingFacts DEF PrepareCore, At, Replacing
  <1>2. after \in Cores
    BY <1>1, Known DEF Cores, Opt
  <1>3. CASE \E c \in CoreAnswers("CorePrepare", after) :
              /\ Spend(c.cost)
              /\ IF c.ok /\ cand = proc.next
                 THEN Go("stage") /\ core' = c.core
                 ELSE /\ core' = [c.core EXCEPT !.prep = None]
                      /\ IF c.ok THEN proc' = ToReject(proc, "soft")
                         ELSE Postpone(proc, "health")
    <2>1. PICK c \in CoreAnswers("CorePrepare", after) :
              /\ Spend(c.cost)
              /\ IF c.ok /\ cand = proc.next
                 THEN Go("stage") /\ core' = c.core
                 ELSE /\ core' = [c.core EXCEPT !.prep = None]
                      /\ IF c.ok THEN proc' = ToReject(proc, "soft")
                         ELSE Postpone(proc, "health")
      BY <1>3, Zenon
    <2>2. c.core \in Cores /\ c.cost \in Nat
      BY <1>2, CoreReplies, Zenon
    <2>3. [c.core EXCEPT !.prep = None] \in Cores
      BY <2>2 DEF Cores, Opt
    <2>4. faults' \in 0..MaxFaults /\ core' \in Cores
          /\ (Go("stage") \/ proc' = ToReject(proc, "soft") \/ Postpone(proc, "health"))
      <3>1. Spend(c.cost)
        BY <2>1, Zenon
      <3>2. faults' \in 0..MaxFaults
        BY <2>2, <3>1, SpendShape, Known
      <3> QED BY <2>1, <2>2, <2>3, <3>2, Zenon
    <2>5. CASE Go("stage")
      BY <1>1, <2>4, <2>5, GoesOn, Known DEF Replacing
    <2>6. CASE proc' = ToReject(proc, "soft")
      BY <1>1, <2>4, <2>6, WorksOn, Known DEF Replacing, Returns, ToReject
    <2>7. CASE Postpone(proc, "health")
      BY <1>1, <2>4, <2>7, PostponeStep, Known
    <2> QED BY <2>4, <2>5, <2>6, <2>7
  <1>4. CASE core.alive /\ Spend(1) /\ proc' = ToReject(proc, "soft") /\ UNCHANGED core
    <2>1. faults' \in 0..MaxFaults
      BY <1>4, SpendShape, Known
    <2> QED BY <1>1, <1>4, <2>1, WorksOn, Known DEF Replacing, Returns, ToReject
  <1> QED BY <1>3, <1>4 DEF PrepareCore

\* A replacement is given up.
LEMMA GivesUp ==
    ASSUME Inv, NextOf(proc) # None, proc.act # None,
           proc' \in Processes, proc'.pc \in {"health", "renew"}, proc'.act = proc.act,
           proc'.next = None, proc'.policy = None, proc'.receipt = proc.receipt,
           proc'.steer => proc'.phase = "suspended", proc'.susp => proc'.steer,
           StateOf(proc') \in {StateOf(proc), "steering"},
           UNCHANGED <<cand, ready, settled>>, core' \in Cores, Held(net'),
           faults' \in 0..MaxFaults
    PROVE  StepOK
  <1>1. ProcInv(proc')
    BY DEF ProcInv, StartInv, NextInv, SteerInv, FallbackInv, Serving, Replacing
  <1>2. Shown(proc', StateOf(proc'), proc.act, None)
    BY DEF Shown, NextOf
  <1>3. ContractStep
    BY <1>2, Abandons
  <1>4. Inv'
    BY <1>1, Goes DEF Starting
  <1> QED BY <1>3, <1>4 DEF StepOK

\* netd stages the replacement, or exchanges it in place.
LEMMA StageNetworkStep == ASSUME Inv, StageNetwork PROVE StepOK
  <1> DEFINE op == IF InPlace THEN "Reconfigure" ELSE "Stage"
  <1>1. proc.pc = "stage" /\ UNCHANGED <<cand, ready, settled>> /\ proc.pc \in Replacing
        /\ proc.next.gen \in Generations /\ Decl(proc.next) \in Opt(Decls)
    BY ReplacingFacts DEF StageNetwork, At, Replacing
  <1>2. PICK r \in Answers(op, proc.next.gen, Decl(proc.next)) :
       \E ok \in IF InPlace THEN Reconfigured(r) ELSE {r.ok} :
           /\ net' = r.net /\ Spend(r.cost)
           /\ IF ok
              THEN /\ proc' = [proc EXCEPT !.pc = "bind",
                                           !.owner = proc.next.gen]
                   /\ UNCHANGED core
              ELSE /\ core' = [core EXCEPT !.prep = None]
                   /\ IF InPlace
                      THEN proc' = [proc EXCEPT
                                       !.pc = "lvCore",
                                       !.then = IF r.hard THEN "refused"
                                                ELSE "conflict"]
                      ELSE IF r.hard THEN proc' = ToReject(proc, "hard")
                      ELSE Postpone(proc, "health")
    BY DEF StageNetwork
  <1>3. Held(r.net) /\ r.cost \in Nat /\ (r.ok => Allowed(op))
    BY <1>1, NetAnswers, Zenon
  <1>4. faults' \in 0..MaxFaults /\ Held(net')
    BY <1>2, <1>3, SpendShape, Known
  <1>5. [core EXCEPT !.prep = None] \in Cores
    BY Known DEF Cores, Opt
  <1>6. CASE /\ proc' = [proc EXCEPT !.pc = "bind", !.owner = proc.next.gen]
             /\ UNCHANGED core /\ (InPlace \/ r.ok)
    <2>1. proc.steer => proc.susp
      <3>1. CASE InPlace
        BY <3>1 DEF InPlace
      <3>2. CASE ~InPlace
        <4>1. Allowed("Stage")
          BY <1>3, <1>6, <3>2
        <4>2. proc.phase = "active"
          BY <4>1 DEF Allowed
        <4> QED BY <4>2, Known DEF ProcInv, SteerInv
      <3> QED BY <3>1, <3>2
    <2>2. /\ proc' \in Processes /\ proc'.pc = "bind" /\ proc'.then = proc.then
          /\ proc'.act = proc.act /\ proc'.next = proc.next /\ proc'.policy = proc.policy
          /\ proc'.receipt = proc.receipt /\ proc'.steer = proc.steer
          /\ proc'.susp = proc.susp /\ proc'.loss = proc.loss /\ proc'.integ = proc.integ
          /\ proc'.phase = proc.phase
      BY <1>1, <1>6, Known DEF Processes, Serving
    <2>3. ProcInv(proc')
      BY <1>1, <2>1, <2>2, Known
         DEF ProcInv, StartInv, NextInv, SteerInv, FallbackInv, Serving, Replacing
    <2>4. Shown(proc', StateOf(proc), proc.act, NextOf(proc))
      BY <1>1, <2>2 DEF Shown, StateOf, NextOf, Starting, Retrying
    <2> QED BY <1>1, <1>4, <1>6, <2>2, <2>3, <2>4, StutterStep, Known DEF Starting
  <1>7. CASE /\ core' = [core EXCEPT !.prep = None]
             /\ \E t \in {"refused", "conflict"} :
                    proc' = [proc EXCEPT !.pc = "lvCore", !.then = t]
    BY <1>1, <1>4, <1>5, <1>7, WorksOn DEF Returns, Replacing
  <1>8. CASE core' = [core EXCEPT !.prep = None] /\ proc' = ToReject(proc, "hard")
    BY <1>1, <1>4, <1>5, <1>8, WorksOn DEF Returns, Replacing, ToReject
  <1>9. CASE core' = [core EXCEPT !.prep = None] /\ Postpone(proc, "health")
    BY <1>1, <1>4, <1>5, <1>9, PostponeStep
  <1> QED BY <1>2, <1>6, <1>7, <1>8, <1>9

\* The pointer and the binding are checked before Core commits.
LEMMA CheckBindingStep == ASSUME Inv, CheckBinding PROVE StepOK
  <1>1. proc.pc = "bind" /\ UNCHANGED <<cand, ready, settled, net>> /\ proc.pc \in Replacing
        /\ (proc.steer => proc.susp)
    BY Known DEF CheckBinding, At, Replacing, ProcInv, SteerInv
  <1>2. [core EXCEPT !.prep = None] \in Cores
    BY Known DEF Cores, Opt
  <1>3. CASE Go("coreCommit") /\ UNCHANGED <<core, faults>>
    BY <1>1, <1>3, GoesOn, Known DEF Replacing
  <1>4. CASE /\ core' = [core EXCEPT !.prep = None]
             /\ \E t \in {"restored", "conflict"} :
                 /\ proc' = [proc EXCEPT !.pc = "undo", !.then = t]
                 /\ Spend(IF t = "restored" /\ cand # proc.next THEN 0 ELSE 1)
    <2>1. faults' \in 0..MaxFaults
      BY <1>4, SpendShape, Known
    <2> QED BY <1>1, <1>2, <1>4, <2>1, WorksOn, Known DEF Replacing, Returns
  <1> QED BY <1>3, <1>4 DEF CheckBinding

\* What was staged is taken back.
LEMMA UndoStageStep == ASSUME Inv, UndoStage PROVE StepOK
  <1>1. /\ proc.pc = "undo" /\ UNCHANGED <<cand, ready, settled, core>>
        /\ proc.pc \in Replacing /\ (proc.steer => proc.susp) /\ core \in Cores
        /\ proc.then \in {"restored", "conflict"} /\ proc \in Processes
    BY Known DEF UndoStage, At, Replacing, ProcInv, SteerInv, NextInv
  <1>2. /\ proc.next \in Activations /\ NextOf(proc) = proc.next /\ proc.act \in Activations
        /\ proc.owner \in Generations /\ proc.gen \in Generations /\ None \in Opt(Decls)
        /\ Decl(proc.act) \in Opt(Decls) /\ StateOf(proc) \in Contract!Up
        /\ proc.next # None /\ proc.act # None /\ proc.policy = None
    BY <1>1, ReplacingFacts, Known, ActivationAssumption DEF ProcInv, NextInv
  <1>3. CASE InPlace
    <2>1. PICK r \in Answers("Reconfigure", proc.gen, Decl(proc.act)) :
             \E ok \in Reconfigured(r) :
                 /\ net' = r.net /\ Spend(r.cost)
                 /\ proc' = IF ok
                            THEN [proc EXCEPT !.pc = "lvCore",
                                              !.owner = proc.gen]
                            ELSE Retries(proc, proc.next)
      BY <1>3 DEF UndoStage
    <2>2. Held(r.net) /\ r.cost \in Nat
      BY <1>2, NetAnswers, Zenon
    <2>3. faults' \in 0..MaxFaults /\ Held(net')
      BY <2>1, <2>2, SpendShape, Known
    <2>4. CASE proc' = Retries(proc, proc.next)
      BY <1>1, <1>2, <2>3, <2>4, RetriesStep
    <2>5. CASE proc' = [proc EXCEPT !.pc = "lvCore", !.owner = proc.gen]
      <3>1. /\ proc' \in Processes /\ proc'.pc = "lvCore" /\ proc'.then = proc.then
            /\ proc'.act = proc.act /\ proc'.next = proc.next /\ proc'.policy = proc.policy
            /\ proc'.receipt = proc.receipt /\ proc'.steer = proc.steer
            /\ proc'.susp = proc.susp /\ proc'.loss = proc.loss
            /\ proc'.integ = proc.integ /\ proc'.phase = proc.phase
        BY <1>1, <1>2, <2>5 DEF Processes, Serving
      <3>2. ProcInv(proc')
        BY <1>1, <1>2, <3>1, Known
           DEF ProcInv, StartInv, NextInv, SteerInv, FallbackInv, Serving, Replacing
      <3>3. Shown(proc', StateOf(proc), proc.act, NextOf(proc))
        BY <1>1, <3>1 DEF Shown, StateOf, NextOf, Starting, Retrying
      <3> QED BY <1>1, <2>3, <3>1, <3>2, <3>3, StutterStep DEF Starting
    <2> QED BY <2>1, <2>4, <2>5
  <1>4. CASE ~InPlace
    <2> DEFINE p == [proc EXCEPT !.phase = "stopped"]
               A(r) == [Answered("Rollback", r) EXCEPT !.pc = "health", !.rejected = proc.next,
                                                       !.next = None]
    <2>1. PICK r \in Answers("Rollback", proc.owner, None) :
                 /\ net' = r.net /\ Spend(r.cost)
                 /\ IF ~r.ok
                    THEN proc' = [proc EXCEPT !.pc = "fbNetd",
                                              !.then = "failed"]
                    ELSE IF proc.then = "conflict"
                    THEN Postpone(Answered("Rollback", r), "health")
                    ELSE proc' = A(r)
      BY <1>4, Zenon DEF UndoStage
    <2>2. r.ok => Answered("Rollback", r) = p
      BY DEF Answered, PhaseAfter
    <2>3. Held(r.net) /\ r.cost \in Nat
      BY <1>2, NetAnswers, Zenon
    <2>4. net' = r.net /\ Spend(r.cost)
          /\ (\/ proc' = [proc EXCEPT !.pc = "fbNetd", !.then = "failed"]
              \/ Postpone(p, "health")
              \/ proc' = [p EXCEPT !.pc = "health", !.rejected = proc.next, !.next = None])
      BY <2>1, <2>2, Zenon
    <2>5. faults' \in 0..MaxFaults /\ Held(net')
      BY <2>3, <2>4, SpendShape, Known
    <2>6. ~proc.steer /\ ~proc.susp
      BY <1>1, <1>4, Known DEF InPlace, ProcInv, SteerInv
    <2>7. CASE proc' = [proc EXCEPT !.pc = "fbNetd", !.then = "failed"]
      BY <1>1, <2>5, <2>7, WorksOn DEF Returns, Replacing
    <2>8. CASE \/ Postpone(p, "health")
               \/ proc' = [p EXCEPT !.pc = "health", !.rejected = proc.next, !.next = None]
      <3>1. p \in Processes /\ p.act = proc.act /\ p.policy = None /\ p.next = proc.next
            /\ p.receipt = proc.receipt /\ ~p.steer /\ ~p.susp
        BY <1>1, <1>2, <2>6 DEF Processes
      <3> HIDE DEF p
      <3>2. /\ proc' \in Processes /\ proc'.pc = "health" /\ proc'.act = proc.act
            /\ proc'.next = None /\ proc'.policy = None /\ proc'.receipt = proc.receipt
            /\ ~proc'.steer /\ ~proc'.susp
        BY <1>2, <2>8, <3>1, ZenonT(30) DEF Postpone, Processes, Opt, Serving
      <3>3. StateOf(proc') = "steering"
        BY <3>2 DEF StateOf, Starting, Retrying
      <3> QED BY <1>1, <1>2, <2>5, <3>2, <3>3, GivesUp
    <2> QED BY <2>4, <2>7, <2>8
  <1> QED BY <1>3, <1>4

\* Core commits the replacement, or may have.
LEMMA CommitCoreStep == ASSUME Inv, CommitCore PROVE StepOK
  <1> DEFINE after == [core EXCEPT !.act = proc.next, !.prep = None, !.gen = proc.next.gen]
  <1>1. /\ proc.pc = "coreCommit" /\ UNCHANGED <<cand, ready, settled, net>>
        /\ proc.pc \in Replacing /\ (proc.steer => proc.susp) /\ Held(net)
    BY Known DEF CommitCore, At, Replacing, ProcInv, SteerInv
  <1>2. after \in Cores
    <2>1. proc.next \in Activations /\ proc.next.gen \in Generations /\ core \in Cores
      BY <1>1, ReplacingFacts, Known
    <2> QED BY <2>1 DEF Cores, Opt
  <1>3. PICK c \in CoreAnswers("CoreCommit", after) :
           /\ core' = c.core /\ Spend(c.cost)
           /\ IF c.ok THEN Go(IF InPlace THEN "hotReady" ELSE "netCommit")
              ELSE AppliedPending(proc)
    BY DEF CommitCore
  <1>4. c.core \in Cores /\ c.cost \in Nat
    BY <1>2, CoreReplies, Zenon
  <1>5. faults' \in 0..MaxFaults /\ core' \in Cores
    BY <1>3, <1>4, SpendShape, Known
  <1>6. CASE Go("hotReady")
    BY <1>1, <1>5, <1>6, GoesOn DEF Replacing
  <1>7. CASE Go("netCommit") /\ ~InPlace
    BY <1>1, <1>5, <1>7, GoesOn DEF Replacing, InPlace
  <1>8. CASE AppliedPending(proc)
    BY <1>1, <1>5, <1>8, AppliedPendingStep
  <1> QED BY <1>3, <1>6, <1>7, <1>8

\* netd commits the staged replacement.
LEMMA CommitReplacementStep == ASSUME Inv, CommitReplacement PROVE StepOK
  <1>1. /\ proc.pc = "netCommit" /\ UNCHANGED <<cand, ready, settled, core>>
        /\ proc.pc \in Replacing /\ ~proc.steer /\ core \in Cores
        /\ proc.owner \in Generations /\ None \in Opt(Decls)
    BY Known DEF CommitReplacement, At, Replacing, ProcInv, SteerInv
  <1>2. PICK r \in Answers("Commit", proc.owner, None) :
           /\ net' = r.net /\ Spend(r.cost)
           /\ proc' = IF r.ok THEN [proc EXCEPT !.pc = "hotReady"]
                      ELSE [proc EXCEPT !.pc = "fbNetd", !.then = "failed"]
    BY DEF CommitReplacement
  <1>3. Held(r.net) /\ r.cost \in Nat
    BY <1>1, NetAnswers, Zenon
  <1>4. faults' \in 0..MaxFaults /\ Held(net')
    BY <1>2, <1>3, SpendShape, Known
  <1>5. CASE proc' = [proc EXCEPT !.pc = "hotReady"]
    BY <1>1, <1>4, <1>5, GoesOn DEF Replacing, Go
  <1>6. CASE proc' = [proc EXCEPT !.pc = "fbNetd", !.then = "failed"]
    BY <1>1, <1>4, <1>6, WorksOn DEF Replacing, Returns
  <1> QED BY <1>2, <1>5, <1>6

\* Readiness and the pointer decide about the report.
LEMMA AwaitReplacementStep == ASSUME Inv, AwaitReplacement PROVE StepOK
  <1>1. /\ proc.pc = "hotReady" /\ UNCHANGED <<cand, ready, settled, core, net, faults>>
        /\ proc.pc \in Replacing /\ (proc.steer => proc.susp)
        /\ core \in Cores /\ Held(net) /\ faults \in 0..MaxFaults
    BY Known DEF AwaitReplacement, At, Replacing, ProcInv, SteerInv
  <1>2. CASE ~InPlace /\ \E t \in {"done", "late"} : proc' = [proc EXCEPT !.pc = "drain", !.then = t]
    BY <1>1, <1>2, WorksOn DEF Replacing, Returns, InPlace
  <1>3. CASE proc' = [proc EXCEPT !.pc = "lvCore", !.then = "done"]
    BY <1>1, <1>3, WorksOn DEF Replacing, Returns
  <1>4. CASE AppliedPending(proc)
    BY <1>1, <1>4, AppliedPendingStep
  <1> QED BY <1>2, <1>3, <1>4 DEF AwaitReplacement

\* The previous declaration is drained.
LEMMA DrainPreviousStep == ASSUME Inv, DrainPrevious PROVE StepOK
  <1>1. /\ proc.pc = "drain" /\ UNCHANGED <<cand, ready, settled, core>>
        /\ proc.pc \in Replacing /\ ~proc.steer /\ core \in Cores
        /\ proc.owner \in Generations /\ None \in Opt(Decls)
    BY Known DEF DrainPrevious, At, Replacing, ProcInv, SteerInv
  <1>2. PICK r \in Answers("Drain", proc.owner, None) :
           /\ net' = r.net /\ Spend(r.cost)
           /\ IF r.ok /\ proc.then = "done" THEN Go("report")
              ELSE AppliedPending(proc)
    BY DEF DrainPrevious
  <1>3. Held(r.net) /\ r.cost \in Nat
    BY <1>1, NetAnswers, Zenon
  <1>4. faults' \in 0..MaxFaults /\ Held(net')
    BY <1>2, <1>3, SpendShape, Known
  <1>5. CASE Go("report")
    BY <1>1, <1>4, <1>5, GoesOn DEF Replacing
  <1>6. CASE AppliedPending(proc)
    BY <1>1, <1>4, <1>6, AppliedPendingStep
  <1> QED BY <1>2, <1>5, <1>6

\* The replacement is settled with its report.
LEMMA ReportReplacementStep == ASSUME Inv, ReportReplacement PROVE StepOK
  <1> DEFINE a == proc.next
  <1>1. /\ proc.pc = "report" /\ UNCHANGED <<cand, core, net>> /\ proc.pc \in Replacing
        /\ ~proc.steer /\ ~proc.susp /\ core \in Cores /\ Held(net) /\ proc \in Processes
        /\ faults' \in 0..MaxFaults
    BY SpendShape, Known DEF ReportReplacement, At, Replacing, ProcInv, SteerInv
  <1>2. /\ a \in Activations /\ NextOf(proc) = a /\ a.gen \in Generations /\ a # None
        /\ proc.policy = None
    BY <1>1, ReplacingFacts, Known DEF ProcInv, NextInv
  <1>3. CASE AppliedPending(proc) /\ UNCHANGED <<ready, settled>>
    BY <1>1, <1>3, AppliedPendingStep
  <1>4. CASE /\ ready' = Committed(a) /\ settled' = settled \cup {a}
             /\ proc' = [proc EXCEPT !.pc = "health", !.act = a, !.gen = a.gen, !.next = None,
                                  !.loss = FALSE, !.integ = FALSE, !.rejected = None]
    <2> DEFINE p == [proc EXCEPT !.pc = "health", !.loss = FALSE, !.integ = FALSE,
                                 !.rejected = None]
    <2>1. p \in Processes
      BY <1>1 DEF Processes, Opt, Serving
    <2>2. p.pc = "health" /\ p.policy = None /\ p.receipt = proc.receipt /\ ~p.steer /\ ~p.susp
      BY <1>1, <1>2 DEF Processes
    <2>3. proc' = [p EXCEPT !.act = a, !.gen = a.gen, !.next = None]
      BY <1>1, <1>4 DEF Processes
    <2> HIDE DEF p, a
    <2>4. /\ proc' \in Processes /\ proc'.pc = "health" /\ proc'.policy = None
          /\ proc'.receipt = proc.receipt /\ ~proc'.steer /\ ~proc'.susp /\ proc'.act = a
          /\ proc'.next = None
      BY <1>2, <2>1, <2>2, <2>3 DEF Processes, Opt
    <2>5. ProcInv(proc')
      BY <1>2, <2>4
         DEF ProcInv, StartInv, NextInv, SteerInv, FallbackInv, Serving, Replacing
    <2>6. Shown(proc', StateOf(proc), a, None)
      BY <1>1, <2>4 DEF Shown, StateOf, NextOf, Starting, Retrying
    <2>7. ContractStep
      BY <1>1, <1>2, <1>4, <2>6, Replaces DEF a
    <2>8. Committed(a) \in Contract!Receipts
      BY <1>2, ReceiptShape
    <2>9. ready' \in Opt(Contract!Receipts) /\ settled' \subseteq Activations
          /\ settled \subseteq settled'
      BY <1>2, <1>4, <2>8, Known DEF Opt, a
    <2>10. Inv'
      BY <1>1, <2>4, <2>5, <2>9, Preserves, Known DEF Starting
    <2> QED BY <2>7, <2>10 DEF StepOK
  <1> QED BY <1>3, <1>4 DEF ReportReplacement

\* The replacement is rejected.
LEMMA RejectReplacementStep == ASSUME Inv, RejectReplacement PROVE StepOK
  <1> DEFINE a == proc.next
  <1>1. /\ proc.pc = "reject" /\ UNCHANGED <<cand, settled, core, net>> /\ proc.pc \in Replacing
        /\ core \in Cores /\ Held(net) /\ proc \in Processes /\ ProcInv(proc)
        /\ faults' \in 0..MaxFaults
    BY SpendShape, Known DEF RejectReplacement, At, Replacing
  <1>2. /\ a \in Activations /\ NextOf(proc) = a /\ a # None /\ proc.policy = None
    BY <1>1, ReplacingFacts DEF ProcInv, NextInv
  <1>3. CASE proc' = [proc EXCEPT !.pc = "fbNetd", !.then = "failed"] /\ UNCHANGED ready
    BY <1>1, <1>3, WorksOn DEF Returns, Replacing
  <1>4. CASE /\ ready' \in {ready, FailureReceipt(a)}
             /\ proc' = [proc EXCEPT !.pc = "health", !.rejected = a, !.next = None]
    <2> HIDE DEF a
    <2>1. /\ proc' \in Processes /\ proc'.pc = "health" /\ proc'.act = proc.act
          /\ proc'.next = None /\ proc'.policy = None /\ proc'.receipt = proc.receipt
          /\ proc'.steer = proc.steer /\ proc'.susp = proc.susp /\ proc'.loss = proc.loss
          /\ proc'.integ = proc.integ /\ proc'.phase = proc.phase
      <3>1. proc' = [proc EXCEPT !.pc = "health", !.rejected = a, !.next = None]
        BY <1>4
      <3>2. proc' \in Processes
        <4> DEFINE p == [proc EXCEPT !.pc = "health", !.next = None]
        <4>1. p \in Processes /\ proc' = [p EXCEPT !.rejected = a]
          BY <1>1, <3>1, ZenonT(30) DEF Processes, Opt, Serving
        <4> HIDE DEF p
        <4> QED BY <1>2, <4>1 DEF Processes, Opt
      <3> QED BY <1>1, <1>2, <3>1, <3>2 DEF Processes
    <2>2. ProcInv(proc')
      BY <1>1, <2>1 DEF ProcInv, StartInv, NextInv, SteerInv, FallbackInv, Serving, Replacing
    <2>3. Shown(proc', StateOf(proc), proc.act, None)
      BY <1>1, <2>1 DEF Shown, StateOf, NextOf, Starting, Retrying
    <2>4. ContractStep
      BY <1>1, <1>2, <1>4, <2>3, Rejects
    <2>5. ready' \in Opt(Contract!Receipts)
      BY <1>2, <1>4, ReceiptShape, Known
    <2>6. Inv'
      BY <1>1, <2>1, <2>2, <2>5, Preserves, Known DEF Starting
    <2> QED BY <2>4, <2>6 DEF StepOK
  <1> QED BY <1>3, <1>4 DEF RejectReplacement

-----------------------------------------------------------------------------
(* Candy Proxy fallback                                                    *)

\* What a process on its way into or out of the fallback keeps.
Alike(p) ==
    /\ p \in Processes /\ p.act = proc.act /\ p.next = proc.next /\ p.policy = proc.policy
    /\ p.receipt = proc.receipt /\ p.loss = proc.loss /\ p.integ = proc.integ
    /\ p.then = proc.then
    /\ p.steer => p.phase = "suspended"
    /\ p.susp => p.steer

\* The replacement goes on, or steering changes under it.
LEMMA ResteersStep ==
    ASSUME Inv, proc' \in Processes, proc'.act = proc.act, NextOf(proc') = NextOf(proc),
           NextOf(proc) # None, ProcInv(proc'), proc'.receipt = proc.receipt,
           proc'.pc \in Serving, StateOf(proc') \in {"steering", "fallback", "parked"},
           UNCHANGED <<cand, ready, settled>>, core' \in Cores, Held(net'),
           faults' \in 0..MaxFaults
    PROVE  StepOK
  <1>1. Shown(proc', StateOf(proc'), proc.act, NextOf(proc))
    BY DEF Shown
  <1>2. ContractStep
    BY <1>1, Resteers
  <1>3. Inv'
    BY Goes DEF Starting, Serving
  <1> QED BY <1>2, <1>3 DEF StepOK

\* Every way on from an attempt to enter the fallback.
LEMMA EnteredStep ==
    ASSUME Inv, proc.pc \in {"fbNetd", "fbCore"}, NEW p, Alike(p), NEW ok \in BOOLEAN,
           ok => p.steer, ok /\ proc.then \notin SteeringOnly => proc.pc = "fbCore",
           proc.pc = "fbCore" => p.steer,
           proc' = Entered(p, ok),
           UNCHANGED <<cand, ready, settled>>, core' \in Cores, Held(net'),
           faults' \in 0..MaxFaults
    PROVE  StepOK
  <1>1. /\ proc \in Processes /\ ProcInv(proc) /\ proc.act # None /\ proc.policy = None
        /\ StateOf(proc) \in Contract!Up /\ NextOf(proc) = proc.next
        /\ proc.act \in {proc.act, NextOf(proc)} \ {None}
    BY Known, ServingState, ActivationAssumption DEF ProcInv, StartInv, NextInv, Serving, NextOf
  <1>2. CASE proc.then = "withdrawn"
    <2>1. proc' = [p EXCEPT !.pc = IF ok THEN "unlink" ELSE "renew"]
      BY <1>2 DEF Entered, Alike
    <2>2. /\ StateOf(proc) = "leaving" /\ proc.next = None /\ ~proc.loss /\ ~proc.integ
      BY <1>1, <1>2 DEF StateOf, Starting, Retrying, ProcInv, NextInv, FallbackInv
    <2>3. CASE ok
      <3>1. /\ proc' \in Processes /\ proc'.pc = "unlink" /\ proc'.act = proc.act
            /\ proc'.next = None /\ proc'.policy = None /\ proc'.receipt = proc.receipt
            /\ proc'.loss = proc.loss /\ proc'.integ = proc.integ /\ proc'.then = "withdrawn"
            /\ proc'.steer = p.steer /\ proc'.susp = p.susp /\ proc'.phase = p.phase
        BY <1>1, <1>2, <2>1, <2>2, <2>3 DEF Alike, Processes, Serving
      <3>2. ProcInv(proc')
        BY <1>1, <2>2, <2>3, <3>1 DEF Alike, ProcInv, StartInv, NextInv, SteerInv, FallbackInv,
                                Serving, Replacing
      <3>3. Shown(proc', StateOf(proc), proc.act, NextOf(proc))
        BY <1>1, <2>2, <3>1 DEF Shown, StateOf, NextOf, Starting, Retrying
      <3> QED BY <3>1, <3>2, <3>3, StutterStep DEF Starting
    <2>4. CASE ~ok
      <3>1. /\ proc' \in Processes /\ proc'.pc = "renew" /\ proc'.act = proc.act
            /\ proc'.next = None /\ proc'.policy = None /\ proc'.receipt = proc.receipt
            /\ proc'.loss = proc.loss /\ proc'.integ = proc.integ
            /\ proc'.steer = p.steer /\ proc'.susp = p.susp /\ proc'.phase = p.phase
        BY <1>1, <1>2, <2>1, <2>2, <2>4 DEF Alike, Processes, Serving
      <3>2. ProcInv(proc')
        BY <1>1, <2>2, <3>1 DEF Alike, ProcInv, StartInv, NextInv, SteerInv, FallbackInv,
                                Serving, Replacing
      <3>3. \E s \in {"steering", "parked"} : Shown(proc', s, proc.act, NextOf(proc))
        BY <1>1, <2>2, <3>1 DEF Shown, StateOf, NextOf, Starting, Retrying
      <3>4. ContractStep
        BY <2>2, <3>3, FailsToLeave
      <3>5. Inv'
        BY <3>1, <3>2, Goes DEF Starting
      <3> QED BY <3>4, <3>5 DEF StepOK
    <2> QED BY <2>3, <2>4
  <1>3. CASE proc.then \in {"loss", "routes"} /\ ~ok
    <2>1. proc' = Retries(p, proc.act)
      BY <1>3 DEF Entered, Alike
    <2>2. p \in Processes
      BY DEF Alike
    <2> QED BY <1>1, <2>1, <2>2, RetriesStep
  <1>4. CASE proc.then = "pending" /\ ~ok
    <2>1. proc' = Retries(p, proc.next)
      BY <1>4 DEF Entered, Alike
    <2>2. p \in Processes /\ proc.next # None
      BY <1>1, <1>4 DEF Alike, ProcInv, NextInv
    <2> QED BY <1>1, <2>1, <2>2, RetriesStep
  <1>5. CASE proc.then = "loss" /\ ok
    <2>1. proc' = [p EXCEPT !.pc = "renew", !.loss = TRUE]
      BY <1>5 DEF Entered, Alike
    <2>2. StateOf(proc) = "fallback" /\ proc.next = None
      BY <1>1, <1>5 DEF StateOf, Starting, Retrying, ProcInv, NextInv, SteerInv, SteeringOnly
    <2>3. /\ proc' \in Processes /\ proc'.pc = "renew" /\ proc'.act = proc.act
          /\ proc'.next = None /\ proc'.policy = None /\ proc'.receipt = proc.receipt
          /\ proc'.loss = TRUE /\ proc'.steer = p.steer /\ proc'.susp = p.susp
          /\ proc'.phase = p.phase
      BY <1>1, <2>1, <2>2, ZenonT(30) DEF Alike, Processes, Serving
    <2>4. ProcInv(proc')
      BY <1>1, <2>2, <2>3 DEF Alike, ProcInv, StartInv, NextInv, SteerInv, FallbackInv,
                              Serving, Replacing
    <2>5. Shown(proc', StateOf(proc), proc.act, NextOf(proc))
      BY <1>1, <1>5, <2>2, <2>3 DEF Alike, Shown, StateOf, NextOf, Starting, Retrying
    <2> QED BY <2>3, <2>4, <2>5, StutterStep DEF Starting
  <1>6. CASE proc.then = "routes" /\ ok
    <2>1. proc' = [p EXCEPT !.pc = "renew", !.integ = TRUE]
      BY <1>6 DEF Entered, Alike
    <2>2. StateOf(proc) = "steering" /\ proc.next = None
      BY <1>1, <1>6 DEF StateOf, Starting, Retrying, ProcInv, NextInv, SteerInv, FallbackInv,
                        SteeringOnly
    <2>3. /\ proc' \in Processes /\ proc'.pc = "renew" /\ proc'.act = proc.act
          /\ proc'.next = None /\ proc'.policy = None /\ proc'.receipt = proc.receipt
          /\ proc'.integ = TRUE /\ proc'.steer = p.steer /\ proc'.susp = p.susp
          /\ proc'.phase = p.phase
      BY <1>1, <2>1, <2>2, ZenonT(30) DEF Alike, Processes, Serving
    <2>4. ProcInv(proc')
      BY <1>1, <2>2, <2>3 DEF Alike, ProcInv, StartInv, NextInv, SteerInv, FallbackInv,
                              Serving, Replacing
    <2>5. Shown(proc', "fallback", proc.act, NextOf(proc))
      BY <1>1, <1>6, <2>2, <2>3 DEF Alike, Shown, StateOf, NextOf, Starting, Retrying
    <2>6. ContractStep
      BY <2>2, <2>5, FallsBack
    <2>7. Inv'
      BY <2>3, <2>4, Goes DEF Starting
    <2> QED BY <2>6, <2>7 DEF StepOK
  <1>7. CASE proc.then = "pending" /\ ok
    <2>1. proc' = [p EXCEPT !.pc = "renew", !.loss = TRUE, !.policy = p.next, !.next = None]
      BY <1>7 DEF Entered, Alike
    <2>2. proc.next # None /\ p.next = proc.next /\ p.steer
      BY <1>1, <1>7 DEF ProcInv, NextInv, Alike
    <2>3. /\ proc' \in Processes /\ proc'.pc = "renew" /\ proc'.act = proc.act
          /\ proc'.next = None /\ proc'.policy = proc.next /\ proc'.receipt = proc.receipt
          /\ proc'.loss = TRUE /\ proc'.steer = p.steer /\ proc'.susp = p.susp
          /\ proc'.phase = p.phase
      <3> DEFINE a == p.next
                 q == [p EXCEPT !.pc = "renew", !.loss = TRUE]
      <3>1. q \in Processes /\ a \in Opt(Activations)
            /\ proc' = [q EXCEPT !.policy = a, !.next = None] /\ q.pc = "renew"
            /\ q.act = proc.act /\ q.receipt = proc.receipt /\ q.loss = TRUE
            /\ q.steer = p.steer /\ q.susp = p.susp /\ q.phase = p.phase
        BY <2>1 DEF Alike, Processes, Serving
      <3>2. a = proc.next
        BY <2>2
      <3> HIDE DEF a, q
      <3> QED BY <3>1, <3>2, ZenonT(30) DEF Processes, Opt
    <2>4. ProcInv(proc')
      BY <1>1, <2>2, <2>3 DEF Alike, ProcInv, StartInv, NextInv, SteerInv, FallbackInv,
                              Serving, Replacing
    <2>5. NextOf(proc') = NextOf(proc) /\ StateOf(proc') = "fallback" /\ proc'.pc \in Serving
      BY <1>1, <2>2, <2>3 DEF NextOf, StateOf, Starting, Retrying, Serving
    <2> QED BY <1>1, <2>2, <2>3, <2>4, <2>5, ResteersStep
  <1>8. CASE proc.then = "failed"
    <2>1. proc' = [p EXCEPT !.pc = "reject", !.then = "soft"]
      BY <1>8 DEF Entered, ToReject, Alike
    <2>2. proc.next # None
      BY <1>1, <1>8 DEF ProcInv, NextInv
    <2>3. /\ proc' \in Processes /\ proc'.pc = "reject" /\ proc'.act = proc.act
          /\ proc'.next = proc.next /\ proc'.policy = None /\ proc'.receipt = proc.receipt
          /\ proc'.steer = p.steer /\ proc'.susp = p.susp /\ proc'.phase = p.phase
      <3>1. proc' \in Processes
        BY <2>1, ZenonT(30) DEF Alike, Processes, Serving, Returns
      <3> QED BY <1>1, <2>1, <3>1 DEF Alike, Processes
    <2>4. ProcInv(proc')
      BY <1>1, <2>2, <2>3 DEF Alike, ProcInv, StartInv, NextInv, SteerInv, FallbackInv,
                              Serving, Replacing
    <2>5. NextOf(proc') = NextOf(proc) /\ proc'.pc \in Serving
          /\ StateOf(proc') \in {"steering", "fallback", "parked"}
      BY <1>1, <2>3 DEF NextOf, StateOf, Starting, Retrying, Serving
    <2> QED BY <1>1, <2>2, <2>3, <2>4, <2>5, ResteersStep
  <1>9. proc.then \in {"withdrawn", "loss", "routes", "pending", "failed"}
    BY <1>1 DEF ProcInv, NextInv
  <1> QED BY <1>2, <1>3, <1>4, <1>5, <1>6, <1>7, <1>8, <1>9

\* On the way into the fallback netd stops steering.
LEMMA EnterNetdStep == ASSUME Inv, EnterNetd PROVE StepOK
  <1>1. /\ proc.pc = "fbNetd" /\ UNCHANGED <<cand, ready, settled, core>> /\ core \in Cores
        /\ proc.owner \in Generations /\ None \in Opt(Decls) /\ proc \in Processes
        /\ ProcInv(proc) /\ Held(net) /\ faults \in 0..MaxFaults
    BY Known DEF EnterNetd, At
  <1>2. ASSUME proc.then \notin SteeringOnly, Held(net'), faults' \in 0..MaxFaults,
               proc' \in Processes, proc'.pc = "fbCore", proc'.act = proc.act,
               proc'.next = proc.next, proc'.policy = proc.policy,
               proc'.receipt = proc.receipt, proc'.loss = proc.loss,
               proc'.integ = proc.integ, proc'.then = proc.then, proc'.steer,
               proc'.susp = proc.susp, proc'.phase = "suspended"
        PROVE  StepOK
    <2>1. ProcInv(proc')
      BY <1>1, <1>2 DEF ProcInv, StartInv, NextInv, SteerInv, FallbackInv, Serving, Replacing,
                        SteeringOnly
    <2>2. /\ NextOf(proc') = NextOf(proc) /\ NextOf(proc) = proc.next /\ proc'.pc \in Serving
      BY <1>1, <1>2 DEF NextOf, Serving, ProcInv, NextInv
    <2>3. CASE proc.then = "withdrawn"
      <3>1. Shown(proc', StateOf(proc), proc.act, NextOf(proc))
        BY <1>1, <1>2, <2>3 DEF Shown, StateOf, NextOf, Starting, Retrying
      <3> QED BY <1>1, <1>2, <2>1, <3>1, StutterStep DEF Starting
    <2>4. CASE proc.then = "loss"
      <3>1. Shown(proc', "fallback", proc.act, NextOf(proc))
        BY <1>1, <1>2, <2>4 DEF Shown, StateOf, NextOf, Starting, Retrying
      <3>2. StateOf(proc) \in {"steering", "fallback"}
        BY <1>1, <2>4 DEF StateOf, Starting, Retrying, ProcInv, FallbackInv
      <3>3. ContractStep
        BY <1>1, <3>1, <3>2, FallsBack, Stutters
      <3>4. Inv'
        BY <1>1, <1>2, <2>1, Goes DEF Starting
      <3> QED BY <3>3, <3>4 DEF StepOK
    <2>5. CASE proc.then = "failed"
      <3>1. proc.next # None /\ StateOf(proc') \in {"steering", "fallback", "parked"}
        BY <1>1, <1>2, <2>5 DEF ProcInv, NextInv, StateOf, Starting, Retrying
      <3> QED BY <1>1, <1>2, <2>1, <2>2, <3>1, ResteersStep
    <2>6. proc.then \in {"withdrawn", "loss", "failed"}
      BY <1>1, <1>2 DEF ProcInv, NextInv, SteeringOnly
    <2> QED BY <2>3, <2>4, <2>5, <2>6
  <1>3. CASE proc.steer /\ proc.then \notin SteeringOnly
    <2>1. proc' = [proc EXCEPT !.pc = "fbCore"] /\ UNCHANGED <<net, faults>>
      BY <1>3 DEF EnterNetd, Go
    <2>2. /\ proc' \in Processes /\ proc'.pc = "fbCore" /\ proc'.act = proc.act
          /\ proc'.next = proc.next /\ proc'.policy = proc.policy
          /\ proc'.receipt = proc.receipt /\ proc'.loss = proc.loss
          /\ proc'.integ = proc.integ /\ proc'.then = proc.then /\ proc'.steer
          /\ proc'.susp = proc.susp /\ proc'.phase = "suspended"
      BY <1>1, <1>3, <2>1 DEF Processes, Serving, ProcInv, SteerInv
    <2> QED BY <1>1, <1>2, <1>3, <2>1, <2>2
  <1>4. CASE ~(proc.steer /\ proc.then \notin SteeringOnly)
    <2> DEFINE P(r) == [Answered("Suspend", r) EXCEPT !.steer = @ \/ r.ok]
    <2>1. PICK r \in Answers("Suspend", proc.owner, None) :
                   /\ net' = r.net /\ Spend(r.cost)
                   /\ proc' = IF r.ok /\ proc.then \notin SteeringOnly
                              THEN [P(r) EXCEPT !.pc = "fbCore"]
                              ELSE Entered(P(r), r.ok)
      BY <1>4, Zenon DEF EnterNetd
    <2>2. Held(r.net) /\ r.cost \in Nat /\ r.ok \in BOOLEAN /\ (r.ok => Allowed("Suspend"))
      BY <1>1, NetAnswers, Zenon
    <2> DEFINE p == P(r)
    <2>3. p = IF r.ok THEN [proc EXCEPT !.phase = "suspended", !.steer = TRUE] ELSE proc
      <3>1. CASE r.ok
        <4>1. Answered("Suspend", r) = [proc EXCEPT !.phase = "suspended"]
          BY <3>1 DEF Answered, PhaseAfter
        <4>2. p = [[proc EXCEPT !.phase = "suspended"] EXCEPT !.steer = @ \/ r.ok]
          BY <4>1, Zenon
        <4> QED BY <1>1, <3>1, <4>2 DEF Processes
      <3>2. CASE ~r.ok
        <4>1. Answered("Suspend", r) = proc
          BY <3>2 DEF Answered
        <4>2. p = [proc EXCEPT !.steer = @ \/ r.ok]
          BY <4>1, Zenon
        <4>3. proc.steer \in BOOLEAN
          BY <1>1 DEF Processes
        <4>4. (proc.steer \/ r.ok) = proc.steer
          BY <3>2, <4>3
        <4>5. p = [proc EXCEPT !.steer = proc.steer]
          BY <4>2, <4>4, Zenon
        <4> QED BY <1>1, <3>2, <4>5 DEF Processes
      <3> QED BY <2>2, <3>1, <3>2
    <2>4. /\ net' = r.net /\ Spend(r.cost)
          /\ proc' = IF r.ok /\ proc.then \notin SteeringOnly
                     THEN [p EXCEPT !.pc = "fbCore"]
                     ELSE Entered(p, r.ok)
      BY <2>1, Zenon
    <2>5. faults' \in 0..MaxFaults /\ Held(net')
      <3>1. net' = r.net /\ Spend(r.cost)
        BY <2>4, Zenon
      <3> QED BY <1>1, <2>2, <3>1, SpendShape
    <2> HIDE DEF p
    <2>6. Alike(p) /\ p.susp = proc.susp /\ (r.ok => p.steer /\ p.phase = "suspended")
      <3>1. CASE r.ok
        BY <1>1, <2>3, <3>1 DEF Alike, Processes, ProcInv, SteerInv
      <3>2. CASE ~r.ok
        BY <1>1, <2>3, <3>2 DEF Alike, ProcInv, SteerInv
      <3> QED BY <3>1, <3>2
    <2>7. CASE r.ok /\ proc.then \notin SteeringOnly
      <3>1. proc' = [p EXCEPT !.pc = "fbCore"] /\ p \in Processes
        BY <2>4, <2>6, <2>7 DEF Alike
      <3>2. /\ proc' \in Processes /\ proc'.pc = "fbCore" /\ proc'.act = p.act
            /\ proc'.next = p.next /\ proc'.policy = p.policy /\ proc'.receipt = p.receipt
            /\ proc'.loss = p.loss /\ proc'.integ = p.integ /\ proc'.then = p.then
            /\ proc'.steer = p.steer /\ proc'.susp = p.susp /\ proc'.phase = p.phase
        BY <3>1 DEF Processes, Serving
      <3> QED BY <1>2, <2>5, <2>6, <2>7, <3>2 DEF Alike
    <2>8. CASE ~(r.ok /\ proc.then \notin SteeringOnly)
      <3>1. proc' = Entered(p, r.ok)
        BY <2>4, <2>8
      <3> QED BY <1>1, <2>2, <2>5, <2>6, <2>8, <3>1, EnteredStep
    <2> QED BY <2>7, <2>8
  <1> QED BY <1>3, <1>4

\* On the way into the fallback Core stops forwarding.
LEMMA EnterCoreStep == ASSUME Inv, EnterCore PROVE StepOK
  <1>1. /\ proc.pc = "fbCore" /\ UNCHANGED <<cand, ready, settled, net>> /\ core \in Cores
        /\ proc \in Processes /\ Held(net) /\ faults \in 0..MaxFaults
        /\ proc.steer /\ proc.phase = "suspended"
    BY Known DEF EnterCore, At, ProcInv, SteerInv
  <1>2. ASSUME NEW b \in BOOLEAN
        PROVE  Alike([proc EXCEPT !.susp = b]) /\ [proc EXCEPT !.susp = b].steer
    BY <1>1 DEF Alike, Processes
  <1>3. CASE proc.susp \/ ~core.alive
    <2>1. proc' = Entered([proc EXCEPT !.susp = TRUE], TRUE) /\ UNCHANGED <<core, faults>>
      BY <1>3 DEF EnterCore
    <2> QED BY <1>1, <1>2, <2>1, EnteredStep
  <1>4. CASE ~(proc.susp \/ ~core.alive)
    <2> DEFINE after == [core EXCEPT !.susp = TRUE]
    <2>1. PICK c \in CoreAnswers("CoreSuspend", after) :
                /\ core' = c.core /\ Spend(c.cost)
                /\ proc' = Entered([proc EXCEPT !.susp = c.ok], c.ok)
      BY <1>4 DEF EnterCore
    <2>2. after \in Cores
      BY <1>1 DEF Cores
    <2>3. c.core \in Cores /\ c.cost \in Nat /\ c.ok \in BOOLEAN
      BY <2>2, CoreReplies, Zenon
    <2>4. faults' \in 0..MaxFaults /\ core' \in Cores
      BY <1>1, <2>1, <2>3, SpendShape
    <2> DEFINE p == [proc EXCEPT !.susp = c.ok]
    <2>5. Alike(p) /\ p.steer
      BY <1>2, <2>3
    <2>6. proc' = Entered(p, c.ok)
      BY <2>1
    <2> HIDE DEF p
    <2> QED BY <1>1, <2>3, <2>4, <2>5, <2>6, EnteredStep
  <1> QED BY <1>3, <1>4

\* A process that moves to another step is still one.
LEMMA MovedShape ==
    ASSUME NEW p \in Processes, NEW q \in Serving, NEW t \in Returns
    PROVE  /\ [p EXCEPT !.pc = q] \in Processes
           /\ [p EXCEPT !.pc = q, !.then = t] \in Processes
           /\ [p EXCEPT !.pc = q, !.next = None] \in Processes
  <1>1. [p EXCEPT !.pc = q] \in Processes
    BY DEF Processes
  <1>2. [p EXCEPT !.pc = q, !.then = t] \in Processes
    BY DEF Processes
  <1>3. [p EXCEPT !.pc = q, !.next = None] \in Processes
    BY DEF Processes, Opt
  <1> QED BY <1>1, <1>2, <1>3

\* Every way on from an attempt to leave the fallback.
LEMMA LeftStep ==
    ASSUME Inv, proc.pc \in {"lvCore", "lvNetd"}, NEW p, Alike(p), NEW ok \in BOOLEAN,
           ok => ~p.steer, ~ok => p.steer = proc.steer, NEW cost \in Nat, Left(p, ok, cost),
           UNCHANGED cand, core' \in Cores, Held(net')
    PROVE  StepOK
  <1>1. /\ proc \in Processes /\ ProcInv(proc) /\ proc.act \in Activations
        /\ proc.act # None /\ proc.policy = None
        /\ StateOf(proc) \in Contract!Up /\ NextOf(proc) = proc.next /\ p \in Processes
        /\ p.act = proc.act /\ p.next = proc.next /\ p.policy = None
        /\ p.receipt = proc.receipt /\ p.loss = proc.loss /\ p.integ = proc.integ
        /\ p.then = proc.then /\ (p.steer => p.phase = "suspended") /\ (p.susp => p.steer)
        /\ faults \in 0..MaxFaults /\ settled \subseteq Activations
    BY Known, ServingState, ActivationAssumption
       DEF Alike, ProcInv, StartInv, NextInv, Serving, NextOf
  <1>2. CASE proc.then = "recover" /\ ok
    <2> DEFINE a == proc.act
               q == [p EXCEPT !.pc = "routes", !.loss = FALSE]
    <2>1. settled' = settled \cup {a} /\ Publish(Committed(a), q, cost)
      BY <1>1, <1>2 DEF Left
    <2>2. q \in Processes /\ q.pc = "routes" /\ q.act = a /\ q.next = None /\ q.policy = None
          /\ ~q.steer /\ ~q.susp
      BY <1>1, <1>2 DEF Processes, Serving, ProcInv, NextInv
    <2>3. Committed(a) \in Contract!Receipts /\ Committed(a).act = a
      BY <1>1, ReceiptShape
    <2>4. StateOf(proc) \in {"steering", "fallback"} /\ proc.next = None
      BY <1>1, <1>2 DEF StateOf, Starting, Retrying, ProcInv, NextInv, FallbackInv
    <2> HIDE DEF q
    <2>5. /\ faults' \in 0..MaxFaults
          /\ \/ ready' = Committed(a) /\ proc' = [q EXCEPT !.receipt = None]
             \/ ready' = ready /\ proc' = [q EXCEPT !.receipt = Committed(a)]
      BY <1>1, <2>1, PublishShape
    <2>6. /\ proc' \in Processes /\ proc'.pc = "routes" /\ proc'.act = a /\ proc'.next = None
          /\ proc'.policy = None /\ ~proc'.steer /\ ~proc'.susp
          /\ proc'.receipt \in {None, Committed(a)}
      BY <2>2, <2>3, <2>5 DEF Processes, Opt
    <2>7. ProcInv(proc')
      BY <1>1, <2>6 DEF ProcInv, StartInv, NextInv, SteerInv, FallbackInv, Serving, Replacing
    <2>8. Shown(proc', "steering", a, NextOf(proc))
      BY <1>1, <2>4, <2>6 DEF Shown, StateOf, NextOf, Starting, Retrying
    <2>9. ContractStep
      BY <2>1, <2>4, <2>5, <2>8, Recovers
    <2>10. ready' \in Opt(Contract!Receipts) /\ settled' \subseteq Activations
           /\ settled \subseteq settled' /\ a \in settled'
      BY <1>1, <2>1, <2>3, <2>5, Known DEF Opt
    <2>11. Inv'
      BY <2>3, <2>5, <2>6, <2>7, <2>10, Preserves, Known DEF Starting
    <2> QED BY <2>9, <2>11 DEF StepOK
  <1>3. CASE ~(proc.then = "recover" /\ ok)
    <2>1. faults' \in 0..MaxFaults /\ UNCHANGED <<ready, settled>>
      BY <1>1, <1>3, SpendShape DEF Left
    <2>2. CASE proc.then = "recover"
      <3>1. proc' = [p EXCEPT !.pc = "renew"] /\ ~ok
        BY <1>1, <1>3, <2>2 DEF Left
      <3>2. /\ proc' \in Processes /\ proc'.pc = "renew" /\ proc'.act = proc.act
            /\ proc'.next = None /\ proc'.policy = None /\ proc'.receipt = proc.receipt
            /\ proc'.loss = proc.loss /\ proc'.integ = proc.integ
            /\ proc'.steer = proc.steer /\ proc'.susp = p.susp /\ proc'.phase = p.phase
        BY <1>1, <2>2, <3>1 DEF Processes, Serving, ProcInv, NextInv
      <3>3. ProcInv(proc')
        BY <1>1, <3>1, <3>2 DEF ProcInv, StartInv, NextInv, SteerInv, FallbackInv, Serving,
                                Replacing
      <3>4. Shown(proc', StateOf(proc), proc.act, NextOf(proc))
        BY <1>1, <2>2, <3>2 DEF ProcInv, NextInv, Shown, StateOf, NextOf, Starting, Retrying
      <3> QED BY <2>1, <3>2, <3>3, <3>4, StutterStep DEF Starting
    <2>3. CASE proc.then # "recover"
      <3>1. /\ proc.then \in {"refused", "conflict", "restored", "done"}
            /\ proc.next \in Activations /\ proc.next # None
        BY <1>1, <2>3, ActivationAssumption DEF ProcInv, NextInv, Processes, Opt
      <3>2. CASE proc.then = "done" /\ ~ok
        <4>1. AppliedPending(p)
          BY <1>1, <2>3, <3>2 DEF Left
        <4> QED BY <1>1, <2>1, <3>1, <4>1, GoesOnWith
      <3>3. CASE proc.then # "done" /\ ~ok
        <4>1. proc' = Retries(p, proc.next)
          BY <1>1, <2>3, <3>1, <3>3 DEF Left
        <4> QED BY <1>1, <2>1, <3>1, <4>1, RetriesStep
      <3>4. CASE proc.then \in {"done", "refused"} /\ ok
        <4>1. \/ proc' = [p EXCEPT !.pc = "report"]
              \/ proc' = [p EXCEPT !.pc = "reject", !.then = "hard"]
          BY <1>1, <2>3, <3>1, <3>4 DEF Left, ToReject
        <4>2. proc' \in Processes
          <5>1. "report" \in Serving /\ "reject" \in Serving /\ "hard" \in Returns
            BY DEF Serving, Returns
          <5>2. /\ [p EXCEPT !.pc = "report"] \in Processes
                /\ [p EXCEPT !.pc = "reject", !.then = "hard"] \in Processes
            BY <1>1, <5>1, MovedShape, Zenon
          <5> QED BY <4>1, <5>2, Zenon
        <4>3. /\ proc'.pc \in {"report", "reject"} /\ proc'.act = proc.act
              /\ proc'.next = proc.next /\ proc'.policy = None /\ proc'.receipt = proc.receipt
              /\ ~proc'.steer /\ ~proc'.susp
          BY <1>1, <3>4, <4>1 DEF Processes
        <4>4. ProcInv(proc')
          BY <1>1, <3>1, <4>2, <4>3 DEF ProcInv, StartInv, NextInv, SteerInv, FallbackInv,
                                   Serving, Replacing
        <4>5. NextOf(proc') = NextOf(proc) /\ StateOf(proc') = "steering" /\ proc'.pc \in Serving
          BY <1>1, <4>3 DEF NextOf, StateOf, Starting, Retrying, Serving
        <4> QED BY <1>1, <2>1, <3>1, <4>2, <4>3, <4>4, <4>5, ResteersStep
      <3>5. CASE proc.then \in {"conflict", "restored"} /\ ok
        <4> DEFINE a == p.next
        <4>1. \/ proc' = [p EXCEPT !.pc = "health", !.retry = a, !.next = None]
              \/ proc' = [p EXCEPT !.pc = "health", !.rejected = a, !.next = None]
          BY <1>1, <2>3, <3>1, <3>5 DEF Left, Postpone
        <4>2. a \in Opt(Activations)
          BY <1>1 DEF Processes
        <4> DEFINE q == [p EXCEPT !.pc = "health", !.next = None]
        <4>3. q \in Processes
          BY <1>1, MovedShape DEF Serving, Returns
        <4>4. q.pc = "health" /\ q.act = proc.act /\ q.next = None /\ q.policy = None
              /\ q.receipt = proc.receipt /\ ~q.steer /\ ~q.susp
          BY <1>1, <3>5 DEF Processes
        <4>5. proc' = [q EXCEPT !.retry = a] \/ proc' = [q EXCEPT !.rejected = a]
          BY <1>1, <4>1 DEF Processes
        <4> HIDE DEF q, a
        <4>6. /\ proc' \in Processes /\ proc'.pc = "health" /\ proc'.act = proc.act
              /\ proc'.next = None /\ proc'.policy = None /\ proc'.receipt = proc.receipt
              /\ ~proc'.steer /\ ~proc'.susp
          BY <4>2, <4>3, <4>4, <4>5 DEF Processes
        <4>7. StateOf(proc') = "steering"
          BY <4>6 DEF StateOf, Starting, Retrying
        <4> QED BY <1>1, <2>1, <3>1, <4>6, <4>7, GivesUp
      <3> QED BY <3>1, <3>2, <3>3, <3>4, <3>5
    <2> QED BY <2>2, <2>3
  <1> QED BY <1>2, <1>3

\* On the way out of the fallback Core forwards again.
LEMMA LeaveCoreStep == ASSUME Inv, LeaveCore PROVE StepOK
  <1>1. /\ proc.pc = "lvCore" /\ UNCHANGED <<cand, net>> /\ core \in Cores
        /\ proc \in Processes /\ ProcInv(proc) /\ Held(net) /\ faults \in 0..MaxFaults
        /\ proc.pc \in {"lvCore", "lvNetd"}
    BY Known DEF LeaveCore, At
  <1>2. Alike(proc)
    BY <1>1 DEF Alike, ProcInv, SteerInv
  <1>3. ASSUME \/ proc' = [proc EXCEPT !.pc = "lvNetd"] /\ ~proc.susp
               \/ proc' = [proc EXCEPT !.pc = "lvNetd", !.susp = FALSE],
               core' \in Cores, faults' \in 0..MaxFaults, UNCHANGED <<ready, settled>>
        PROVE  StepOK
    <2>1. /\ proc' \in Processes /\ proc'.pc = "lvNetd" /\ proc'.act = proc.act
          /\ proc'.next = proc.next /\ proc'.policy = proc.policy
          /\ proc'.receipt = proc.receipt /\ proc'.loss = proc.loss
          /\ proc'.integ = proc.integ /\ proc'.then = proc.then
          /\ proc'.steer = proc.steer /\ ~proc'.susp /\ proc'.phase = proc.phase
      BY <1>1, <1>3, ZenonT(30) DEF Processes, Serving
    <2>2. ProcInv(proc')
      BY <1>1, <2>1 DEF ProcInv, StartInv, NextInv, SteerInv, FallbackInv, Serving, Replacing
    <2>3. Shown(proc', StateOf(proc), proc.act, NextOf(proc))
      BY <1>1, <2>1 DEF Shown, StateOf, NextOf, Starting, Retrying
    <2> QED BY <1>1, <1>3, <2>1, <2>2, <2>3, StutterStep DEF Starting
  <1>4. CASE ~proc.susp
    BY <1>1, <1>3, <1>4 DEF LeaveCore, Go
  <1>5. CASE proc.susp
    <2> DEFINE after == [core EXCEPT !.susp = FALSE]
    <2>1. PICK c \in CoreAnswers("CoreResume", after) :
                /\ core' = c.core
                /\ IF c.ok
                   THEN /\ proc' = [proc EXCEPT !.pc = "lvNetd", !.susp = FALSE]
                        /\ Spend(c.cost) /\ UNCHANGED <<ready, settled>>
                   ELSE Left(proc, FALSE, c.cost)
      BY <1>5 DEF LeaveCore
    <2>2. after \in Cores
      BY <1>1 DEF Cores
    <2>3. c.core \in Cores /\ c.cost \in Nat
      BY <2>2, CoreReplies, Zenon
    <2>4. CASE c.ok
      <3>1. faults' \in 0..MaxFaults
        BY <1>1, <2>1, <2>3, <2>4, SpendShape
      <3> QED BY <1>3, <2>1, <2>3, <2>4, <3>1
    <2>5. CASE ~c.ok
      BY <1>1, <1>2, <2>1, <2>3, <2>5, LeftStep
    <2> QED BY <2>4, <2>5
  <1> QED BY <1>4, <1>5

\* On the way out of the fallback netd steers again.
LEMMA LeaveNetdStep == ASSUME Inv, LeaveNetd PROVE StepOK
  <1>1. /\ proc.pc = "lvNetd" /\ UNCHANGED cand /\ core \in Cores
        /\ proc \in Processes /\ ProcInv(proc) /\ Held(net) /\ faults \in 0..MaxFaults
        /\ proc.pc \in {"lvCore", "lvNetd"} /\ proc.owner \in Generations
        /\ None \in Opt(Decls) /\ ~proc.susp
    BY Known DEF LeaveNetd, At, ProcInv, SteerInv
  <1>2. CASE ~proc.steer
    <2>1. Left(proc, TRUE, 0) /\ UNCHANGED <<core, net>>
      BY <1>2 DEF LeaveNetd
    <2>2. Alike(proc)
      BY <1>1 DEF Alike, ProcInv, SteerInv
    <2> QED BY <1>1, <1>2, <2>1, <2>2, LeftStep
  <1>3. CASE proc.steer
    <2> DEFINE after == [core EXCEPT !.susp = TRUE]
               P(r) == [Answered("Resume", r) EXCEPT !.steer = FALSE]
    <2>1. PICK r \in Answers("Resume", proc.owner, None) :
                /\ net' = r.net
                /\ IF r.ok
                   THEN Left(P(r), TRUE, r.cost) /\ UNCHANGED core
                   ELSE \E c \in CoreAnswers("CoreSuspend", after) :
                            /\ core' = c.core
                            /\ Left([proc EXCEPT !.susp = c.ok], FALSE, r.cost + c.cost)
      BY <1>3, Zenon DEF LeaveNetd
    <2>2. Held(r.net) /\ r.cost \in Nat
      BY <1>1, NetAnswers, Zenon
    <2>3. net' = r.net
      BY <2>1, Zenon
    <2>4. CASE r.ok
      <3> DEFINE p == P(r)
      <3>1. Left(p, TRUE, r.cost) /\ UNCHANGED core
        BY <2>1, <2>4, Zenon
      <3>2. Answered("Resume", r) = [proc EXCEPT !.phase = "active"]
        BY <2>4 DEF Answered, PhaseAfter
      <3>3. p = [[proc EXCEPT !.phase = "active"] EXCEPT !.steer = FALSE]
        BY <3>2, Zenon
      <3>4. Alike(p) /\ ~p.steer
        BY <1>1, <3>3 DEF Alike, Processes
      <3> HIDE DEF p
      <3> QED BY <1>1, <2>2, <2>3, <3>1, <3>4, LeftStep
    <2>5. CASE ~r.ok
      <3>1. PICK c \in CoreAnswers("CoreSuspend", after) :
                            /\ core' = c.core
                            /\ Left([proc EXCEPT !.susp = c.ok], FALSE, r.cost + c.cost)
        BY <2>1, <2>5, Zenon
      <3>2. after \in Cores
        BY <1>1 DEF Cores
      <3>3. c.core \in Cores /\ c.cost \in Nat /\ c.ok \in BOOLEAN
        BY <3>2, CoreReplies, Zenon
      <3>4. r.cost + c.cost \in Nat
        BY <2>2, <3>3
      <3> DEFINE p == [proc EXCEPT !.susp = c.ok]
      <3>5. Alike(p) /\ p.steer = proc.steer
        BY <1>1, <1>3, <3>3 DEF Alike, Processes, ProcInv, SteerInv
      <3>6. Left(p, FALSE, r.cost + c.cost)
        BY <3>1
      <3> HIDE DEF p
      <3> QED BY <1>1, <2>2, <2>3, <3>1, <3>3, <3>4, <3>5, <3>6, LeftStep
    <2> QED BY <2>4, <2>5
  <1> QED BY <1>2, <1>3

-----------------------------------------------------------------------------
(* Health, and what happens around the agent                               *)

\* Health decides between going on, the fallback and a new start.
LEMMA CheckHealthStep == ASSUME Inv, CheckHealth PROVE StepOK
  <1>1. /\ proc.pc = "health" /\ UNCHANGED <<cand, ready, settled, core, net, faults>>
        /\ core \in Cores /\ proc \in Processes /\ ProcInv(proc) /\ Held(net)
        /\ faults \in 0..MaxFaults /\ proc.act # None /\ StateOf(proc) \in Contract!Up
    BY Known, ServingState, ActivationAssumption DEF CheckHealth, At, Serving
  <1>2. CASE proc' = Retries(proc, proc.act)
    BY <1>1, <1>2, RetriesStep
  <1>3. CASE \/ proc' = [proc EXCEPT !.pc = "renew"]
             \/ proc' = [proc EXCEPT !.pc = "routes"]
             \/ proc' = [proc EXCEPT !.pc = "lvCore", !.then = "recover"] /\ proc.loss
             \/ /\ proc' = [proc EXCEPT !.pc = "fbNetd", !.then = "loss"]
                /\ ~proc.loss /\ (proc.steer => proc.integ)
    <2>1. proc' \in Processes
      <3>1. /\ {"renew", "routes", "lvCore", "fbNetd"} \subseteq Serving
            /\ {"recover", "loss"} \subseteq Returns
        BY DEF Serving, Returns
      <3>2. /\ [proc EXCEPT !.pc = "renew"] \in Processes
            /\ [proc EXCEPT !.pc = "routes"] \in Processes
            /\ [proc EXCEPT !.pc = "lvCore", !.then = "recover"] \in Processes
            /\ [proc EXCEPT !.pc = "fbNetd", !.then = "loss"] \in Processes
        BY <1>1, <3>1, MovedShape, Zenon
      <3> QED BY <1>3, <3>2, Zenon
    <2>2. /\ proc'.act = proc.act /\ proc'.next = proc.next /\ proc'.policy = proc.policy
          /\ proc'.receipt = proc.receipt /\ proc'.loss = proc.loss
          /\ proc'.integ = proc.integ /\ proc'.steer = proc.steer /\ proc'.susp = proc.susp
          /\ proc'.phase = proc.phase
          /\ \/ proc'.pc \in {"renew", "routes"}
             \/ proc'.pc = "lvCore" /\ proc'.then = "recover" /\ proc.loss
             \/ /\ proc'.pc = "fbNetd" /\ proc'.then = "loss"
                /\ ~proc.loss /\ (proc.steer => proc.integ)
      BY <1>1, <1>3 DEF Processes
    <2>3. ProcInv(proc')
      BY <1>1, <2>1, <2>2 DEF ProcInv, StartInv, NextInv, SteerInv, FallbackInv, Serving,
                              Replacing
    <2>4. Shown(proc', StateOf(proc), proc.act, NextOf(proc))
      BY <1>1, <2>2 DEF Shown, StateOf, NextOf, Starting, Retrying
    <2> QED BY <1>1, <2>2, <2>3, <2>4, StutterStep DEF Starting
  <1>4. proc.steer \in BOOLEAN /\ proc.loss \in BOOLEAN /\ proc.integ \in BOOLEAN
    BY <1>1 DEF Processes
  <1> QED BY <1>2, <1>3, <1>4 DEF CheckHealth

\* Route reconciliation, whose errors end the process.
LEMMA ReconcileRoutesStep == ASSUME Inv, ReconcileRoutes PROVE StepOK
  <1>1. /\ proc.pc = "routes" /\ UNCHANGED <<cand, settled>>
        /\ core \in Cores /\ proc \in Processes /\ ProcInv(proc) /\ Held(net)
        /\ faults \in 0..MaxFaults /\ proc.owner \in Generations /\ None \in Opt(Decls)
    BY Known DEF ReconcileRoutes, At
  <1>2. ASSUME \/ proc' = [proc EXCEPT !.pc = "renew"]
               \/ proc' = [proc EXCEPT !.pc = "fbNetd", !.then = "routes"] /\ ~proc.steer,
               UNCHANGED <<ready, core, net>>, faults' \in 0..MaxFaults
        PROVE  StepOK
    <2>1. proc' \in Processes
      <3>1. {"renew", "fbNetd"} \subseteq Serving /\ "routes" \in Returns
        BY DEF Serving, Returns
      <3>2. /\ [proc EXCEPT !.pc = "renew"] \in Processes
            /\ [proc EXCEPT !.pc = "fbNetd", !.then = "routes"] \in Processes
        BY <1>1, <3>1, MovedShape, Zenon
      <3> QED BY <1>2, <3>2, Zenon
    <2>2. /\ proc'.act = proc.act /\ proc'.next = proc.next /\ proc'.policy = proc.policy
          /\ proc'.receipt = proc.receipt /\ proc'.loss = proc.loss
          /\ proc'.integ = proc.integ /\ proc'.steer = proc.steer /\ proc'.susp = proc.susp
          /\ proc'.phase = proc.phase
          /\ \/ proc'.pc = "renew"
             \/ proc'.pc = "fbNetd" /\ proc'.then = "routes" /\ ~proc.steer
      BY <1>1, <1>2 DEF Processes
    <2>3. ProcInv(proc')
      BY <1>1, <2>1, <2>2 DEF ProcInv, StartInv, NextInv, SteerInv, FallbackInv, Serving,
                              Replacing
    <2>4. Shown(proc', StateOf(proc), proc.act, NextOf(proc))
      BY <1>1, <2>2 DEF Shown, StateOf, NextOf, Starting, Retrying
    <2> QED BY <1>1, <1>2, <2>2, <2>3, <2>4, StutterStep DEF Starting
  <1>3. CASE Go("renew") /\ UNCHANGED <<ready, core, net, faults>>
    BY <1>1, <1>2, <1>3 DEF Go
  <1>4. CASE /\ ~proc.steer \/ proc.integ
             /\ \E r \in Answers("Withdraw", proc.owner, None) :
                 IF r.ok
                 THEN /\ RoutesDiffer
                      /\ proc' = [proc EXCEPT !.pc = "fbNetd",
                                              !.then = "routes"]
                      /\ UNCHANGED <<ready, core, net>>
                 ELSE /\ \E q \in Answers("Rollback", proc.owner, None) :
                             Ends(q.net) /\ Spend(r.cost + q.cost)
                      /\ ready' = Contract!Orphaned(ready)
    <2>1. PICK r \in Answers("Withdraw", proc.owner, None) :
                 IF r.ok
                 THEN /\ RoutesDiffer
                      /\ proc' = [proc EXCEPT !.pc = "fbNetd",
                                              !.then = "routes"]
                      /\ UNCHANGED <<ready, core, net>>
                 ELSE /\ \E q \in Answers("Rollback", proc.owner, None) :
                             Ends(q.net) /\ Spend(r.cost + q.cost)
                      /\ ready' = Contract!Orphaned(ready)
      BY <1>4
    <2>2. r.cost \in Nat
      BY <1>1, NetAnswers, Zenon
    <2>3. CASE r.ok
      <3>1. faults' \in 0..MaxFaults /\ ~proc.integ
        BY <1>1, <2>1, <2>3, SpendShape DEF RoutesDiffer
      <3> QED BY <1>2, <1>4, <2>1, <2>3, <3>1
    <2>4. CASE ~r.ok
      <3>1. PICK q \in Answers("Rollback", proc.owner, None) : Ends(q.net) /\ Spend(r.cost + q.cost)
        BY <2>1, <2>4
      <3>2. Held(q.net) /\ q.cost \in Nat
        BY <1>1, NetAnswers, Zenon
      <3>3. r.cost + q.cost \in Nat
        BY <2>2, <3>2
      <3>4. faults' \in 0..MaxFaults /\ ready' \in {Contract!Orphaned(ready), None}
        BY <1>1, <2>1, <2>4, <3>1, <3>3, SpendShape
      <3> QED BY <1>1, <3>1, <3>2, <3>4, EndsStep
    <2> QED BY <2>3, <2>4
  <1> QED BY <1>3, <1>4 DEF ReconcileRoutes

\* A requested shutdown ends the process.
LEMMA ShutdownStep == ASSUME Inv, Shutdown PROVE StepOK
  <1>1. /\ proc.pc # "off" /\ UNCHANGED <<cand, settled>> /\ faults \in 0..MaxFaults
        /\ proc.owner \in Generations /\ None \in Opt(Decls)
    BY Known DEF Shutdown
  <1>2. PICK r \in Answers("Rollback", proc.owner, None) :
           /\ Ends(r.net) /\ Spend(r.cost + 1)
           /\ ready' = IF r.ok THEN None ELSE Contract!Orphaned(ready)
    BY DEF Shutdown
  <1>3. Held(r.net) /\ r.cost + 1 \in Nat
    BY <1>1, NetAnswers, Zenon
  <1>4. faults' \in 0..MaxFaults /\ ready' \in {Contract!Orphaned(ready), None}
    BY <1>1, <1>2, <1>3, SpendShape
  <1> QED BY <1>1, <1>2, <1>3, <1>4, EndsStep

\* A killed process leaves its files as they are.
LEMMA AgentKilledStep == ASSUME Inv, AgentKilled PROVE StepOK
  <1>1. faults' \in 0..MaxFaults /\ Held(net)
    BY SpendShape, Known DEF AgentKilled
  <1> QED BY <1>1, EndsStep DEF AgentKilled, At

\* A process whose start has not been committed is named by no receipt, one
\* that cleans up sees the receipt change as its own cleaning would.
LEMMA CoreExitsStep == ASSUME Inv, CoreExits PROVE StepOK
  <1>1. /\ ready' = Contract!Orphaned(ready) /\ UNCHANGED <<cand, settled, proc, net>>
        /\ core' = NoCore /\ faults' \in 0..MaxFaults /\ ready \in Opt(Contract!Receipts)
        /\ proc \in Processes /\ ProcInv(proc) /\ Held(net)
    BY SpendShape, Known DEF CoreExits
  <1>2. ready' \in Opt(Contract!Receipts) /\ Contract!Orphaned(ready') = ready'
    BY <1>1, OrphanedShape
  <1>3. core' \in Cores
    BY <1>1 DEF NoCore, Cores, Opt, Generations
  <1>4. Inv'
    BY <1>1, <1>2, <1>3, Preserves, Known
  <1>5. Shown(proc', StateOf(proc), proc.act, NextOf(proc))
    BY <1>1 DEF Shown
  <1>6. CASE ready' = ready
    BY <1>1, <1>4, <1>5, <1>6, Stutters DEF StepOK
  <1>7. CASE ready' # ready /\ proc.pc \in Serving
    <2>1. ready # None
      BY <1>1, <1>7, OrphanedShape
    <2>2. ContractStep
      BY <1>1, <1>5, <1>7, <2>1, LosesCore, ServingState
    <2> QED BY <1>4, <2>2 DEF StepOK
  <1>8. CASE ready' # ready /\ proc.pc = "cleanup"
    <2>1. StateOf(proc) = "retrying"
      BY <1>8 DEF StateOf, Starting, Retrying
    <2>2. ContractStep
      BY <1>1, <1>5, <2>1, CleansUp
    <2> QED BY <1>4, <2>2 DEF StepOK
  <1>9. ready' # ready => proc.pc \in Serving \cup {"cleanup"}
    BY <1>1 DEF Inv, ReceiptInv, Processes, Retrying
  <1> QED BY <1>6, <1>7, <1>8, <1>9

\* What netd's record becomes without its session.
LEMMA SessionLostShape == ASSUME Inv PROVE Held(NewNet) /\ Held(SessionLost)
  <1>1. net \in Nets /\ (net.phase # "Stopped" => net.live # None)
    BY Known DEF Held
  <1>2. Held(NewNet) /\ NewNet \in Nets /\ NewNet.phase = "Stopped"
    BY DEF Held, NewNet, Nets, Opt, Generations
  <1> DEFINE l == IF net.phase = "Draining" THEN [net.live EXCEPT !.gen = net.gen, !.decl = net.decl]
                  ELSE net.live
  <1>3. l \in Opt(Records)
    <2>1. CASE net.phase = "Draining"
      <3>1. net.live \in Records /\ net.gen \in Generations /\ net.decl \in Opt(Decls)
        BY <1>1, <2>1 DEF Nets, Opt
      <3>2. [net.live EXCEPT !.gen = net.gen, !.decl = net.decl] \in Records
        BY <3>1 DEF Records
      <3> QED BY <2>1, <3>2 DEF Opt
    <2>2. CASE net.phase # "Draining"
      BY <1>1, <2>2 DEF Nets
    <2> QED BY <2>1, <2>2
  <1>4. SessionLost = [NewNet EXCEPT !.live = l]
    BY DEF SessionLost
  <1> HIDE DEF l
  <1>5. SessionLost \in Nets /\ SessionLost.phase = "Stopped"
    BY <1>2, <1>3, <1>4 DEF Nets
  <1> QED BY <1>2, <1>5 DEF Held

\* Peers, netd and the lease change nothing the contract shows.
LEMMA SurroundingsStep ==
    ASSUME Inv, PeersConnect \/ PeersLost \/ NetdRestarts \/ NetdDrains \/ LeaseExpires
    PROVE  StepOK
  <1>1. UNCHANGED <<cand, ready, settled, proc>>
    BY DEF PeersConnect, PeersLost, NetdRestarts, NetdDrains, LeaseExpires
  <1>2. faults' \in 0..MaxFaults
    BY SpendShape, Known DEF PeersConnect, PeersLost, NetdRestarts, NetdDrains, LeaseExpires
  <1>3. core' \in Cores
    <2>1. core \in Cores
      BY Known
    <2>2. core' \in {core, [core EXCEPT !.up = TRUE], [core EXCEPT !.up = FALSE]}
      BY DEF PeersConnect, PeersLost, NetdRestarts, NetdDrains, LeaseExpires
    <2> QED BY <2>1, <2>2 DEF Cores
  <1>4. Held(net')
    BY SessionLostShape, Known DEF PeersConnect, PeersLost, NetdRestarts, NetdDrains, LeaseExpires
  <1>5. Shown(proc', StateOf(proc), proc.act, NextOf(proc))
    BY <1>1 DEF Shown
  <1>6. ProcInv(proc')
    BY <1>1, Known
  <1> QED BY <1>1, <1>2, <1>3, <1>4, <1>5, <1>6, StutterStep

\* Others move the pointer and remove the receipt.
LEMMA OthersStep == ASSUME Inv, PointerMoves \/ ReceiptRemoved PROVE StepOK
  <1>1. /\ UNCHANGED <<settled, proc, core, net, faults>> /\ cand' \in Opt(Activations)
        /\ ready' \in {ready, None}
    BY Known DEF PointerMoves, ReceiptRemoved
  <1>2. ready' \in Opt(Contract!Receipts)
    BY <1>1, Known DEF Opt
  <1>3. proc.pc \in {"off", "wait"} \cup Starting => Contract!Orphaned(ready') = ready'
    BY <1>1, OrphanedShape, Known DEF Inv, ReceiptInv
  <1>4. Inv'
    BY <1>1, <1>2, <1>3, Preserves, Known
  <1>5. Shown(proc', StateOf(proc), proc.act, NextOf(proc))
    BY <1>1 DEF Shown
  <1> QED BY <1>1, <1>4, <1>5, OthersMove DEF StepOK

-----------------------------------------------------------------------------
(* The theorems                                                            *)

\* Every step keeps the invariant and is one the contract allows.
LEMMA StepLemma == ASSUME Inv, [Next]_vars PROVE StepOK
  <1>1. CASE Starts
    BY <1>1, LaunchStep, PrepareNetworkStep, SpawnCoreStep, SpawnFailsStep, AwaitReadinessStep,
       FailAfterRollbackStep, CommitNetworkStep, CleanupStep, WaitBeforeRetryStep DEF Starts
  <1>2. CASE Supervises
    BY <1>2, RenewStep, ConfirmCoreGoneStep, ConfirmAppliedStep, ConfirmRetryStep,
       PointerUnchangedStep, PointerSupersededStep, PointerWithdrawnStep,
       RemoveWithdrawnReceiptStep, EnterNetdStep, EnterCoreStep, LeaveCoreStep,
       LeaveNetdStep, CheckHealthStep, ReconcileRoutesStep DEF Supervises
  <1>3. CASE Follows
    BY <1>3, ClassifyUpdateStep, UpdateNetdPolicyStep, UpdateCorePolicyStep,
       RestoreNetdPolicyStep, PrepareCoreStep, StageNetworkStep, CheckBindingStep,
       UndoStageStep, CommitCoreStep, CommitReplacementStep, AwaitReplacementStep,
       DrainPreviousStep, ReportReplacementStep, RejectReplacementStep DEF Follows
  <1>4. CASE Around
    BY <1>4, ShutdownStep, AgentKilledStep, CoreExitsStep, SurroundingsStep, OthersStep DEF Around
  <1>5. CASE UNCHANGED vars
    <2>1. UNCHANGED <<cand, ready, settled, proc, core, net, faults>>
      BY <1>5 DEF vars
    <2>2. Shown(proc', StateOf(proc), proc.act, NextOf(proc))
      BY <2>1 DEF Shown
    <2> QED BY <2>1, <2>2, StutterStep, Known
  <1> QED BY <1>1, <1>2, <1>3, <1>4, <1>5 DEF Next, AgentSteps

\* The agent starts where the contract starts.
LEMMA InitLemma == ASSUME Init PROVE Inv /\ Contract!AgentInit
  <1>1. ProcInv(proc) /\ proc.pc = "off" /\ proc.act = None /\ proc.next = None
        /\ proc.policy = None /\ proc.receipt = None
    BY OffShape DEF Init
  <1>2. NoCore \in Cores /\ NewNet \in Nets /\ NewNet.phase = "Stopped"
    BY DEF NoCore, Cores, Opt, Generations, NewNet, Nets
  <1>3. TypeInv /\ RecordInv
    BY <1>1, <1>2, ActivationAssumption DEF Init, TypeInv, RecordInv, ProcInv, Opt
  <1>4. ReceiptInv
    BY <1>1 DEF Init, ReceiptInv, Contract!Orphaned
  <1>5. AgentView = Contract!NoAgent
    BY <1>1 DEF AgentView, Contract!NoAgent
  <1>6. Contract!AgentInit
    BY <1>5 DEF Init, Contract!AgentInit, Contract!Opt, Opt
  <1> QED BY <1>1, <1>3, <1>4, <1>6 DEF Inv

\* The detailed agent implements its contract: whatever it does to the files
\* and to its tunnel, with any call failing or losing its answer, is a step
\* ActivationAgent allows, which is what CloudSync relies on.
THEOREM Refinement == Spec => ImplementsContract
  <1>1. Init => Inv /\ Contract!AgentInit
    BY InitLemma
  <1>2. Inv /\ [Next]_vars => Inv' /\ ContractStep
    BY StepLemma DEF StepOK
  <1>3. ContractStep =>
            [Contract!AgentWorks \/ Contract!AgentFails \/ Contract!OthersAct]_(Contract!agentVars)
    BY DEF ContractStep
  <1> QED BY <1>1, <1>2, <1>3, PTL DEF Spec, ImplementsContract, Contract!AgentSpec

-----------------------------------------------------------------------------
(* Steering                                                                *)

\* Core stops forwarding only after the agent knows that steering is off, and
\* a Core the agent lost sight of is not steered into.
ForwardInv ==
    /\ proc.pc \in Serving /\ proc.steer => ~Steered
    /\ proc.pc \in Serving /\ core.susp => proc.susp
    /\ proc.pc = "cleanup" /\ core.susp => ~Steered
    /\ proc.pc \notin Serving \cup {"cleanup"} => ~core.susp

\* A process that still serves and knows what it knew, or one that cleans up.
Keeps ==
    \/ proc'.pc \in Serving /\ proc'.steer = proc.steer /\ proc'.susp = proc.susp
    \/ proc'.pc = "cleanup"

\* A step that adds no steering rule and stops no Core.
Calm == (Ruled(net') => Ruled(net)) /\ (core'.susp => core.susp)

\* What a calm step of the loop keeps.
LEMMA CalmForward ==
    ASSUME Inv, ForwardInv, proc.pc \in Serving, Calm, Keeps
    PROVE  ForwardInv'
  <1>1. proc.susp => proc.steer
    BY DEF Inv, ProcInv, SteerInv
  <1>2. "cleanup" \notin Serving
    BY DEF Serving
  <1> QED BY <1>1, <1>2 DEF ForwardInv, Calm, Keeps, Ruled, Steered

\* What happens around a process that stays where it is.
LEMMA AroundForward ==
    ASSUME ForwardInv, UNCHANGED proc, Calm
    PROVE  ForwardInv'
  BY DEF ForwardInv, Calm, Ruled, Steered

\* Before the commit Core forwards.
LEMMA StartForward ==
    ASSUME ForwardInv, proc.pc \notin Serving \cup {"cleanup"}, core'.susp => core.susp,
           proc'.pc \in Serving => ~proc'.steer
    PROVE  ForwardInv'
  BY DEF ForwardInv

\* No Core is left that could have been stopped.
LEMMA GoneForward == ASSUME core' = NoCore, proc'.pc \notin Serving PROVE ForwardInv'
  BY DEF ForwardInv, NoCore

\* The end of the process is the end of its Core.
LEMMA EndsForward == ASSUME NEW n, Ends(n) PROVE ForwardInv'
  <1>1. core' = NoCore /\ proc'.pc = "off"
    BY OffShape DEF Ends
  <1> QED BY <1>1, GoneForward DEF Serving

\* The rule after a call that is neither a commit nor a resumption.
LEMMA RuleKept ==
    ASSUME Inv, NEW op, op \notin {"Commit", "Resume"}, NEW g \in Generations,
           NEW d \in Opt(Decls), NEW r \in Answers(op, g, d)
    PROVE  Ruled(r.net) => Ruled(net)
  BY AnswersShape DEF Inv

\* A process that is to try again.
LEMMA RetriesKeeps ==
    ASSUME NEW p, NEW a, proc' = Retries(p, a) PROVE Keeps
  BY DEF Retries, Off, Keeps

\* A receipt to be written changes nothing else of the process.
LEMMA PublishKeeps ==
    ASSUME NEW p \in Processes, p.pc \in Serving, p.steer = proc.steer, p.susp = proc.susp,
           NEW r, NEW cost, Publish(r, p, cost)
    PROVE  Keeps
  BY DEF Publish, Processes, Keeps

\* An adopted policy changes nothing the agent knows of steering.
LEMMA AdoptKeeps ==
    ASSUME NEW p \in Processes, p.pc \in Serving, p.steer = proc.steer, p.susp = proc.susp,
           NEW a \in Activations, NEW cost, Adopt(a, p, cost)
    PROVE  Keeps
  <1> DEFINE q == [p EXCEPT !.act = a, !.next = None, !.policy = None, !.retry = None]
  <1>1. q \in Processes
    BY DEF Processes, Opt
  <1>2. q.pc = p.pc /\ q.steer = p.steer /\ q.susp = p.susp
    BY DEF Processes
  <1>3. Publish(Committed(a), q, cost)
    BY DEF Adopt
  <1> HIDE DEF q
  <1> QED BY <1>1, <1>2, <1>3, PublishKeeps

\* A rejected one does not either.
LEMMA RejectPolicyKeeps ==
    ASSUME Inv, proc.pc \in Replacing, NEW cost, RejectPolicy(proc, cost) PROVE Keeps
  <1> DEFINE a == proc.next
             p == [proc EXCEPT !.pc = "renew", !.rejected = a, !.next = None]
             p1 == [proc EXCEPT !.pc = "renew", !.next = None]
  <1>1. proc \in Processes /\ a \in Activations
    BY ReplacingFacts, Known
  <1>2. p1 \in Processes
    BY <1>1, MovedShape DEF Serving, Returns
  <1>3. p1.pc = "renew" /\ p1.steer = proc.steer /\ p1.susp = proc.susp
        /\ p = [p1 EXCEPT !.rejected = a]
    BY <1>1 DEF Processes
  <1>4. Publish(Rejected(a), p, cost)
    BY DEF RejectPolicy
  <1> HIDE DEF p, p1, a
  <1>5. p \in Processes /\ p.pc = "renew" /\ p.steer = proc.steer /\ p.susp = proc.susp
    BY <1>1, <1>2, <1>3 DEF Processes, Opt
  <1> QED BY <1>4, <1>5, PublishKeeps DEF Serving

\* Steps that change neither what the agent knows of steering nor more of it
\* than the step.
LEMMA MoveKeeps ==
    ASSUME proc \in Processes
    PROVE  /\ \A q \in Serving : Go(q) => Keeps
           /\ \A q \in Serving : Postpone(proc, q) => Keeps
           /\ AppliedPending(proc) => Keeps
           /\ Unconfirmed => Keeps
  <1>1. ASSUME NEW q \in Serving, Go(q) PROVE Keeps
    BY <1>1 DEF Go, Keeps, Processes
  <1>2. ASSUME NEW q \in Serving, Postpone(proc, q) PROVE Keeps
    BY <1>2 DEF Postpone, Keeps, Processes
  <1>3. ASSUME AppliedPending(proc) PROVE Keeps
    BY <1>3 DEF AppliedPending, Keeps, Processes, Serving
  <1>4. ASSUME Unconfirmed PROVE Keeps
    BY <1>4 DEF Unconfirmed, Keeps, Processes, Serving
  <1> QED BY <1>1, <1>2, <1>3, <1>4

\* The start and what follows a failure.
LEMMA StartsForward == ASSUME Inv, ForwardInv, Starts PROVE ForwardInv'
  <1>0. proc \in Processes /\ ProcInv(proc) /\ proc.owner \in Generations /\ None \in Opt(Decls)
        /\ "prepare" \notin Serving /\ "wait" \notin Serving /\ "fail" \notin Serving
        /\ "spawn" \notin Serving /\ "await" \notin Serving /\ "commit" \notin Serving
        /\ "off" \notin Serving /\ "cleanup" \notin Serving
    BY Known DEF Serving
  <1>1. CASE Launch
    <2>1. proc.pc = "off" /\ UNCHANGED core /\ cand \in Activations
      BY <1>1, Known DEF Launch, At, Opt
    <2>2. proc'.pc = "prepare"
      BY <1>1, <2>1, LaunchShape DEF Launch
    <2> QED BY <1>0, <2>1, <2>2, StartForward
  <1>2. ASSUME proc.pc \in {"prepare", "spawn"}, NEW n, NEW hard, NEW cost, FailsWithoutCore(n, hard, cost)
        PROVE  ForwardInv'
    <2>1. CASE hard
      BY <1>2, <2>1, EndsForward DEF FailsWithoutCore
    <2>2. CASE ~hard
      <3>1. UNCHANGED core /\ proc' = [Retries(proc, proc.act) EXCEPT !.pc = "wait"]
        BY <1>2, <2>2 DEF FailsWithoutCore
      <3>2. proc'.pc = "wait"
        BY <3>1 DEF Retries, Off
      <3> QED BY <1>0, <1>2, <3>1, <3>2, StartForward
    <2> QED BY <2>1, <2>2
  <1>3. CASE PrepareNetwork
    <2>1. proc.pc = "prepare"
      BY <1>3 DEF PrepareNetwork, At
    <2>2. PICK r \in Answers("Prepare", proc.gen, Decl(proc.act)) :
            IF r.ok
            THEN /\ proc' = [Answered("Prepare", r) EXCEPT !.pc = "spawn"]
                 /\ net' = r.net /\ Spend(r.cost) /\ UNCHANGED <<ready, core>>
            ELSE FailsWithoutCore(r.net, r.hard, r.cost)
      BY <1>3, Zenon DEF PrepareNetwork
    <2>3. CASE r.ok
      <3>1. UNCHANGED core /\ proc' = [[proc EXCEPT !.phase = "prepared"] EXCEPT !.pc = "spawn"]
        BY <2>2, <2>3 DEF Answered, PhaseAfter
      <3>2. proc'.pc = "spawn"
        BY <1>0, <3>1 DEF Processes
      <3> QED BY <1>0, <2>1, <3>1, <3>2, StartForward
    <2>4. CASE ~r.ok
      <3>1. FailsWithoutCore(r.net, r.hard, r.cost)
        BY <2>2, <2>4, Zenon
      <3> QED BY <1>2, <2>1, <3>1
    <2> QED BY <2>3, <2>4
  <1>4. CASE SpawnCore
    <2>1. proc.pc = "spawn" /\ proc' = [proc EXCEPT !.pc = "await"] /\ core'.susp = FALSE
      BY <1>4 DEF SpawnCore, At, Go, NoCore
    <2>2. proc'.pc = "await"
      BY <1>0, <2>1 DEF Processes
    <2> QED BY <1>0, <2>1, <2>2, StartForward
  <1>5. CASE SpawnFails
    <2>1. proc.pc = "spawn"
      BY <1>5 DEF SpawnFails, At
    <2> QED BY <1>2, <1>5, <2>1 DEF SpawnFails
  <1>6. CASE AwaitReadiness
    <2>1. proc.pc = "await" /\ UNCHANGED core
      BY <1>6 DEF AwaitReadiness, At
    <2>2. \/ proc' = [proc EXCEPT !.pc = "commit"] \/ proc' = [proc EXCEPT !.pc = "fail"]
          \/ proc' = Retries(proc, proc.act)
      BY <1>6 DEF AwaitReadiness, Go
    <2>3. Retries(proc, proc.act).pc = "cleanup"
      BY DEF Retries, Off
    <2>4. proc'.pc \in {"commit", "fail", "cleanup"}
      BY <1>0, <2>2, <2>3 DEF Processes
    <2> QED BY <1>0, <2>1, <2>4, StartForward
  <1>7. CASE FailAfterRollback
    BY <1>7, EndsForward DEF FailAfterRollback
  <1>8. CASE CommitNetwork
    <2>1. proc.pc = "commit" /\ UNCHANGED core /\ ~proc.steer
      BY <1>0, <1>8 DEF CommitNetwork, At, ProcInv, StartInv
    <2>2. proc'.pc \in {"fail", "cleanup"} \/ ~proc'.steer
      <3>1. PICK r \in Answers("Commit", proc.owner, None) :
           /\ net' = r.net
           /\ IF r.ok
              THEN /\ settled' = settled \cup {proc.act}
                   /\ Publish(Committed(proc.act),
                              [Answered("Commit", r) EXCEPT !.pc = "renew",
                                                            !.recovery = FALSE],
                              r.cost)
              ELSE /\ IF proc.recovery \/ ~r.hard
                      THEN proc' = Retries(proc, proc.act) ELSE Go("fail")
                   /\ Spend(r.cost) /\ UNCHANGED <<ready, settled>>
        BY <1>8, Zenon DEF CommitNetwork
      <3>2. CASE r.ok
        <4> DEFINE p == [[proc EXCEPT !.phase = "active"] EXCEPT !.pc = "renew", !.recovery = FALSE]
        <4>1. Answered("Commit", r) = [proc EXCEPT !.phase = "active"]
          BY <3>2 DEF Answered, PhaseAfter
        <4>2. Publish(Committed(proc.act), p, r.cost)
          BY <3>1, <3>2, <4>1, Zenon
        <4>3. p \in Processes /\ ~p.steer
          BY <1>0, <2>1 DEF Processes, Serving
        <4> HIDE DEF p
        <4> QED BY <4>2, <4>3 DEF Publish, Processes
      <3>3. CASE ~r.ok
        <4>1. proc' = Retries(proc, proc.act) \/ Go("fail")
          BY <3>1, <3>3, Zenon
        <4>2. CASE proc' = Retries(proc, proc.act)
          BY <4>2 DEF Retries, Off
        <4>3. CASE Go("fail")
          BY <1>0, <4>3 DEF Go, Processes
        <4> QED BY <4>1, <4>2, <4>3
      <3> QED BY <3>2, <3>3
    <2> QED BY <1>0, <2>1, <2>2, StartForward
  <1>9. CASE Cleanup
    <2>1. core' = NoCore /\ proc'.pc = "wait"
      BY <1>0, <1>9 DEF Cleanup, Processes
    <2> QED BY <1>0, <2>1, GoneForward
  <1>10. CASE WaitBeforeRetry
    <2>1. proc.pc = "wait"
      BY <1>10 DEF WaitBeforeRetry, At
    <2>2. CASE Ends(net)
      BY <2>2, EndsForward
    <2>3. CASE proc' = [proc EXCEPT !.pc = "prepare", !.recovery = TRUE] /\ UNCHANGED core
      <3>1. proc'.pc = "prepare"
        BY <1>0, <2>3 DEF Processes
      <3> QED BY <1>0, <2>1, <2>3, <3>1, StartForward
    <2> QED BY <1>10, <2>2, <2>3 DEF WaitBeforeRetry
  <1> QED BY <1>1, <1>3, <1>4, <1>5, <1>6, <1>7, <1>8, <1>9, <1>10 DEF Starts

\* What a request to Core that does not stop it leaves.
LEMMA CoreCalm ==
    ASSUME Inv, NEW op, NEW after \in Cores, after.susp = core.susp,
           NEW c \in CoreAnswers(op, after)
    PROVE  c.core.susp = core.susp /\ c.core \in Cores
  BY CoreAnswersShape DEF Inv

\* A policy update and a replacement.
LEMMA FollowsForward == ASSUME Inv, ForwardInv, Follows PROVE ForwardInv'
  <1>0. /\ proc \in Processes /\ ProcInv(proc) /\ core \in Cores
        /\ proc.owner \in Generations /\ None \in Opt(Decls) /\ proc.gen \in Generations
        /\ Replacing \subseteq Serving /\ {"fbNetd", "lvCore", "health", "renew"} \subseteq Serving
        /\ [core EXCEPT !.prep = None].susp = core.susp
    BY Known DEF Serving, Replacing, Cores
  <1>1. /\ \A q \in Serving : Go(q) => Keeps
        /\ \A q \in Serving : Postpone(proc, q) => Keeps
        /\ AppliedPending(proc) => Keeps
    BY <1>0, MoveKeeps, Zenon
  <1>2. \A q \in Serving : \A t : proc' = [proc EXCEPT !.pc = q, !.then = t] => Keeps
    BY <1>0 DEF Keeps, Processes
  <1>3. SUFFICES ASSUME proc.pc \in Replacing, ~CommitReplacement PROVE Calm /\ Keeps
    <2>1. proc.pc \in Replacing
      BY DEF Follows, ClassifyUpdate, UpdateNetdPolicy, UpdateCorePolicy, RestoreNetdPolicy,
             PrepareCore, StageNetwork, CheckBinding, UndoStage, CommitCore, CommitReplacement,
             AwaitReplacement, DrainPrevious, ReportReplacement, RejectReplacement, At, Replacing
    <2>2. CASE CommitReplacement
      <3>1. proc.pc = "netCommit" /\ ~proc.steer /\ UNCHANGED core
        BY <1>0, <2>2 DEF CommitReplacement, At, ProcInv, SteerInv
      <3>2. ~core.susp
        BY <1>0, <2>1, <3>1 DEF ForwardInv, ProcInv, SteerInv
      <3>3. \/ proc' = [proc EXCEPT !.pc = "hotReady"]
            \/ proc' = [proc EXCEPT !.pc = "fbNetd", !.then = "failed"]
        BY <2>2 DEF CommitReplacement
      <3>4. proc'.pc \in {"hotReady", "fbNetd"} /\ ~proc'.steer
        BY <1>0, <3>1, <3>3 DEF Processes
      <3> QED BY <1>0, <3>1, <3>2, <3>4 DEF ForwardInv, Replacing, Serving
    <2> QED BY <1>0, <2>1, <2>2, CalmForward
  <1>4. /\ proc.next \in Activations /\ proc.act \in Activations /\ proc.next.gen \in Generations
        /\ Decl(proc.next) \in Opt(Decls) /\ Decl(proc.act) \in Opt(Decls)
    BY <1>3, ReplacingFacts
  <1>5. CASE ClassifyUpdate
    <2>1. Calm
      BY <1>5 DEF ClassifyUpdate, Calm
    <2>2. CASE \E cost \in {0, 1} : RejectPolicy(proc, cost)
      BY <1>3, <2>1, <2>2, RejectPolicyKeeps
    <2>3. CASE \E q \in {"corePrep", "polNetd", "polCore"} : Go(q)
      BY <1>1, <2>1, <2>3 DEF Serving
    <2> QED BY <1>5, <2>2, <2>3 DEF ClassifyUpdate
  <1>6. CASE UpdateNetdPolicy
    <2>1. PICK r \in Answers("Policy", proc.owner, Decl(proc.next)) :
           /\ net' = r.net /\ Spend(r.cost)
           /\ IF r.ok THEN Go("polCore") ELSE Postpone(proc, "renew")
      BY <1>6 DEF UpdateNetdPolicy
    <2>2. Ruled(r.net) => Ruled(net)
      BY <1>0, <1>4, RuleKept
    <2> QED BY <1>1, <1>6, <2>1, <2>2 DEF UpdateNetdPolicy, Calm, Serving
  <1>7. CASE UpdateCorePolicy
    <2> DEFINE after == [core EXCEPT !.act = proc.next]
               p == [proc EXCEPT !.pc = "renew", !.rejected = None]
    <2>1. after \in Cores /\ after.susp = core.susp
      BY <1>0, <1>4 DEF Cores, Opt
    <2>2. p \in Processes /\ p.pc = "renew" /\ p.steer = proc.steer /\ p.susp = proc.susp
      <3> DEFINE q == [proc EXCEPT !.pc = "renew"]
      <3>1. q \in Processes /\ q.pc = "renew" /\ q.steer = proc.steer /\ q.susp = proc.susp
        BY <1>0 DEF Processes
      <3>2. p = [q EXCEPT !.rejected = None]
        BY <1>0 DEF Processes
      <3> HIDE DEF p, q
      <3> QED BY <3>1, <3>2 DEF Processes, Opt
    <2>3. CASE \E c \in CoreAnswers("CorePolicy", after) :
              /\ core' = c.core
              /\ IF c.ok THEN Adopt(proc.next, p, c.cost)
                 ELSE /\ proc' = [proc EXCEPT !.pc = "fbNetd", !.then = "pending"]
                      /\ Spend(c.cost) /\ UNCHANGED <<ready, settled>>
      <3>1. PICK c \in CoreAnswers("CorePolicy", after) :
              /\ core' = c.core
              /\ IF c.ok THEN Adopt(proc.next, p, c.cost)
                 ELSE /\ proc' = [proc EXCEPT !.pc = "fbNetd", !.then = "pending"]
                      /\ Spend(c.cost) /\ UNCHANGED <<ready, settled>>
        BY <2>3
      <3>2. c.core.susp = core.susp
        BY <2>1, CoreCalm
      <3>3. Calm
        BY <1>7, <3>1, <3>2 DEF UpdateCorePolicy, Calm
      <3>4. CASE c.ok
        <4> HIDE DEF p
        <4> QED BY <1>4, <2>2, <3>1, <3>3, <3>4, AdoptKeeps DEF Serving
      <3>5. CASE ~c.ok
        BY <1>0, <1>2, <3>1, <3>3, <3>5
      <3> QED BY <3>4, <3>5
    <2>4. CASE /\ UNCHANGED core
               /\ \E s \in {"replace", "reject"} :
                      proc' = [proc EXCEPT !.pc = "polRestore", !.then = s]
      BY <1>2, <1>7, <2>4 DEF UpdateCorePolicy, Calm, Serving
    <2> QED BY <1>7, <2>3, <2>4 DEF UpdateCorePolicy
  <1>8. CASE RestoreNetdPolicy
    <2> DEFINE same == [net |-> net, ok |-> TRUE, hard |-> FALSE, cost |-> 0]
    <2>1. PICK r \in IF proc.next.pol = proc.act.pol THEN {same}
                   ELSE Answers("Policy", proc.owner, Decl(proc.act)) :
           /\ net' = r.net
           /\ IF r.ok /\ proc.then = "reject" THEN RejectPolicy(proc, r.cost)
              ELSE /\ IF r.ok THEN Go("corePrep")
                      ELSE proc' = [proc EXCEPT !.pc = "fbNetd",
                                                !.then = "pending"]
                   /\ Spend(r.cost) /\ UNCHANGED ready
      BY <1>8 DEF RestoreNetdPolicy
    <2>2. Ruled(r.net) => Ruled(net)
      <3>1. CASE r = same
        BY <3>1
      <3>2. CASE r \in Answers("Policy", proc.owner, Decl(proc.act))
        BY <1>0, <1>4, <3>2, RuleKept
      <3> QED BY <3>1, <3>2
    <2>3. Calm
      BY <1>8, <2>1, <2>2 DEF RestoreNetdPolicy, Calm
    <2>4. CASE RejectPolicy(proc, r.cost)
      BY <1>3, <2>3, <2>4, RejectPolicyKeeps
    <2>5. CASE Go("corePrep")
      BY <1>1, <2>3, <2>5 DEF Serving
    <2>6. CASE proc' = [proc EXCEPT !.pc = "fbNetd", !.then = "pending"]
      BY <1>2, <2>3, <2>6 DEF Serving
    <2> QED BY <2>1, <2>4, <2>5, <2>6
  <1>9. CASE PrepareCore
    <2> DEFINE after == [core EXCEPT !.prep = proc.next]
    <2>1. after \in Cores /\ after.susp = core.susp
      BY <1>0, <1>4 DEF Cores, Opt
    <2>2. CASE \E c \in CoreAnswers("CorePrepare", after) :
              /\ Spend(c.cost)
              /\ IF c.ok /\ cand = proc.next
                 THEN Go("stage") /\ core' = c.core
                 ELSE /\ core' = [c.core EXCEPT !.prep = None]
                      /\ IF c.ok THEN proc' = ToReject(proc, "soft")
                         ELSE Postpone(proc, "health")
      <3>1. PICK c \in CoreAnswers("CorePrepare", after) :
              /\ Spend(c.cost)
              /\ IF c.ok /\ cand = proc.next
                 THEN Go("stage") /\ core' = c.core
                 ELSE /\ core' = [c.core EXCEPT !.prep = None]
                      /\ IF c.ok THEN proc' = ToReject(proc, "soft")
                         ELSE Postpone(proc, "health")
        BY <2>2, Zenon
      <3>2. c.core.susp = core.susp /\ c.core \in Cores
        BY <2>1, CoreCalm
      <3>3. [c.core EXCEPT !.prep = None].susp = core.susp
        BY <3>2 DEF Cores
      <3>4. core'.susp = core.susp
            /\ (Go("stage") \/ proc' = ToReject(proc, "soft") \/ Postpone(proc, "health"))
        <4>1. core' = c.core \/ core' = [c.core EXCEPT !.prep = None]
          BY <3>1, Zenon
        <4>2. core'.susp = core.susp
          BY <3>2, <3>3, <4>1, Zenon
        <4> QED BY <3>1, <4>2, Zenon
      <3>5. Calm
        BY <1>9, <3>4 DEF PrepareCore, Calm
      <3>6. CASE Go("stage") \/ Postpone(proc, "health")
        BY <1>1, <3>5, <3>6 DEF Serving
      <3>7. CASE proc' = ToReject(proc, "soft")
        BY <1>2, <3>5, <3>7 DEF Serving, ToReject
      <3> QED BY <3>4, <3>6, <3>7
    <2>3. CASE UNCHANGED core /\ proc' = ToReject(proc, "soft")
      BY <1>2, <1>9, <2>3 DEF PrepareCore, Calm, Serving, ToReject
    <2> QED BY <1>9, <2>2, <2>3 DEF PrepareCore
  <1>10. CASE StageNetwork
    <2> DEFINE op == IF InPlace THEN "Reconfigure" ELSE "Stage"
    <2>1. PICK r \in Answers(op, proc.next.gen, Decl(proc.next)) :
       \E ok \in IF InPlace THEN Reconfigured(r) ELSE {r.ok} :
           /\ net' = r.net /\ Spend(r.cost)
           /\ IF ok
              THEN /\ proc' = [proc EXCEPT !.pc = "bind",
                                           !.owner = proc.next.gen]
                   /\ UNCHANGED core
              ELSE /\ core' = [core EXCEPT !.prep = None]
                   /\ IF InPlace
                      THEN proc' = [proc EXCEPT
                                       !.pc = "lvCore",
                                       !.then = IF r.hard THEN "refused"
                                                ELSE "conflict"]
                      ELSE IF r.hard THEN proc' = ToReject(proc, "hard")
                      ELSE Postpone(proc, "health")
      BY <1>10 DEF StageNetwork
    <2>2. Ruled(r.net) => Ruled(net)
      <3>1. op \notin {"Commit", "Resume"}
        OBVIOUS
      <3> HIDE DEF op
      <3> QED BY <1>4, <3>1, RuleKept
    <2>3. Calm
      BY <1>0, <2>1, <2>2 DEF Calm
    <2>4. CASE proc' = [proc EXCEPT !.pc = "bind", !.owner = proc.next.gen]
      BY <1>0, <2>3, <2>4 DEF Keeps, Processes, Serving
    <2>5. CASE \E s \in {"refused", "conflict"} : proc' = [proc EXCEPT !.pc = "lvCore", !.then = s]
      BY <1>2, <2>3, <2>5 DEF Serving
    <2>6. CASE proc' = ToReject(proc, "hard")
      BY <1>2, <2>3, <2>6 DEF Serving, ToReject
    <2>7. CASE Postpone(proc, "health")
      BY <1>1, <2>3, <2>7 DEF Serving
    <2> QED BY <2>1, <2>4, <2>5, <2>6, <2>7
  <1>11. CASE CheckBinding
    <2>1. Calm
      BY <1>0, <1>11 DEF CheckBinding, Calm
    <2>2. CASE Go("coreCommit")
      BY <1>1, <2>1, <2>2 DEF Serving
    <2>3. CASE \E s \in {"restored", "conflict"} : proc' = [proc EXCEPT !.pc = "undo", !.then = s]
      BY <1>2, <2>1, <2>3 DEF Serving
    <2> QED BY <1>11, <2>2, <2>3 DEF CheckBinding
  <1>12. CASE UndoStage
    <2>1. CASE InPlace
      <3>1. PICK r \in Answers("Reconfigure", proc.gen, Decl(proc.act)) :
             \E ok \in Reconfigured(r) :
                 /\ net' = r.net /\ Spend(r.cost)
                 /\ proc' = IF ok
                            THEN [proc EXCEPT !.pc = "lvCore",
                                              !.owner = proc.gen]
                            ELSE Retries(proc, proc.next)
        BY <1>12, <2>1 DEF UndoStage
      <3>2. Ruled(r.net) => Ruled(net)
        BY <1>0, <1>4, RuleKept
      <3>3. Calm
        BY <1>12, <3>1, <3>2 DEF UndoStage, Calm
      <3>4. CASE proc' = [proc EXCEPT !.pc = "lvCore", !.owner = proc.gen]
        BY <1>0, <3>3, <3>4 DEF Keeps, Processes, Serving
      <3>5. CASE proc' = Retries(proc, proc.next)
        BY <3>3, <3>5, RetriesKeeps
      <3> QED BY <3>1, <3>4, <3>5
    <2>2. CASE ~InPlace
      <3> DEFINE p == [proc EXCEPT !.phase = "stopped"]
      <3>1. PICK r \in Answers("Rollback", proc.owner, None) :
                 /\ net' = r.net /\ Spend(r.cost)
                 /\ IF ~r.ok
                    THEN proc' = [proc EXCEPT !.pc = "fbNetd",
                                              !.then = "failed"]
                    ELSE IF proc.then = "conflict"
                    THEN Postpone(Answered("Rollback", r), "health")
                    ELSE proc' = [Answered("Rollback", r) EXCEPT
                                     !.pc = "health", !.rejected = proc.next,
                                     !.next = None]
        BY <1>12, <2>2, Zenon DEF UndoStage
      <3>2. Ruled(r.net) => Ruled(net)
        BY <1>0, RuleKept
      <3>3. net' = r.net
        BY <3>1, Zenon
      <3>4. Calm
        BY <1>12, <3>2, <3>3 DEF UndoStage, Calm
      <3>5. r.ok => Answered("Rollback", r) = p
        BY DEF Answered, PhaseAfter
      <3>6. \/ proc' = [proc EXCEPT !.pc = "fbNetd", !.then = "failed"]
            \/ Postpone(p, "health")
            \/ proc' = [p EXCEPT !.pc = "health", !.rejected = proc.next, !.next = None]
        BY <3>1, <3>5, Zenon
      <3>7. CASE proc' = [proc EXCEPT !.pc = "fbNetd", !.then = "failed"]
        BY <1>2, <3>4, <3>7 DEF Serving
      <3>8. CASE \/ Postpone(p, "health")
                 \/ proc' = [p EXCEPT !.pc = "health", !.rejected = proc.next, !.next = None]
        <4>1. p \in Processes /\ p.steer = proc.steer /\ p.susp = proc.susp
          BY <1>0 DEF Processes
        <4> HIDE DEF p
        <4> QED BY <3>4, <3>8, <4>1 DEF Postpone, Keeps, Processes, Serving
      <3> QED BY <3>6, <3>7, <3>8
    <2> QED BY <2>1, <2>2
  <1>13. CASE CommitCore
    <2> DEFINE after == [core EXCEPT !.act = proc.next, !.prep = None, !.gen = proc.next.gen]
    <2>1. after \in Cores /\ after.susp = core.susp
      BY <1>0, <1>4 DEF Cores, Opt
    <2>2. PICK c \in CoreAnswers("CoreCommit", after) :
           /\ core' = c.core /\ Spend(c.cost)
           /\ IF c.ok THEN Go(IF InPlace THEN "hotReady" ELSE "netCommit")
              ELSE AppliedPending(proc)
      BY <1>13 DEF CommitCore
    <2>3. c.core.susp = core.susp
      BY <2>1, CoreCalm
    <2>4. Calm
      BY <1>13, <2>2, <2>3 DEF CommitCore, Calm
    <2>5. (\E q \in {"hotReady", "netCommit"} : Go(q)) \/ AppliedPending(proc)
      BY <2>2
    <2> QED BY <1>1, <2>4, <2>5 DEF Serving
  <1>14. CASE AwaitReplacement
    <2>1. Calm
      BY <1>14 DEF AwaitReplacement, Calm
    <2>2. \/ AppliedPending(proc)
          \/ \E s \in {"done", "late"} : proc' = [proc EXCEPT !.pc = "drain", !.then = s]
          \/ proc' = [proc EXCEPT !.pc = "lvCore", !.then = "done"]
      BY <1>14 DEF AwaitReplacement
    <2> QED BY <1>1, <1>2, <2>1, <2>2 DEF Serving
  <1>15. CASE DrainPrevious
    <2>1. PICK r \in Answers("Drain", proc.owner, None) :
           /\ net' = r.net /\ Spend(r.cost)
           /\ IF r.ok /\ proc.then = "done" THEN Go("report")
              ELSE AppliedPending(proc)
      BY <1>15 DEF DrainPrevious
    <2>2. Ruled(r.net) => Ruled(net)
      BY <1>0, RuleKept
    <2>3. Calm
      BY <1>15, <2>1, <2>2 DEF DrainPrevious, Calm
    <2> QED BY <1>1, <2>1, <2>3 DEF Serving
  <1>16. CASE ReportReplacement
    <2>1. Calm
      BY <1>16 DEF ReportReplacement, Calm
    <2>2. CASE AppliedPending(proc)
      BY <1>1, <2>1, <2>2
    <2>3. CASE proc' = [proc EXCEPT !.pc = "health", !.act = proc.next,
                                  !.gen = proc.next.gen, !.next = None,
                                  !.loss = FALSE, !.integ = FALSE,
                                  !.rejected = None]
      BY <1>0, <2>1, <2>3 DEF Keeps, Processes, Serving
    <2> QED BY <1>16, <2>2, <2>3 DEF ReportReplacement
  <1>17. CASE RejectReplacement
    <2>1. Calm
      BY <1>17 DEF RejectReplacement, Calm
    <2>2. CASE proc' = [proc EXCEPT !.pc = "fbNetd", !.then = "failed"]
      BY <1>2, <2>1, <2>2 DEF Serving
    <2>3. CASE proc' = [proc EXCEPT !.pc = "health", !.rejected = proc.next, !.next = None]
      BY <1>0, <2>1, <2>3 DEF Keeps, Processes, Serving
    <2> QED BY <1>17, <2>2, <2>3 DEF RejectReplacement
  <1> QED BY <1>3, <1>5, <1>6, <1>7, <1>8, <1>9, <1>10, <1>11, <1>12, <1>13, <1>14, <1>15,
             <1>16, <1>17 DEF Follows

\* A call whose answer cannot be lost has done nothing when it fails.
LEMMA RefusalKeeps ==
    ASSUME Inv, NEW op, op \notin LostReplies, NEW g \in Generations, NEW d \in Opt(Decls),
           NEW r \in Answers(op, g, d), ~r.ok
    PROVE  r.net = net
  BY AnswersShape DEF Inv

\* The process carries what p knows on, or cleans up.
Carries(p) ==
    \/ proc'.pc \in Serving /\ proc'.steer = p.steer /\ proc'.susp = p.susp
    \/ proc'.pc = "cleanup"

\* What p knows is right after the step.
LEMMA CarriesForward ==
    ASSUME NEW p, Carries(p), p.steer => ~Ruled(net'), core'.susp => p.susp, p.susp => p.steer
    PROVE  ForwardInv'
  <1>1. "cleanup" \notin Serving
    BY DEF Serving
  <1> QED BY <1>1 DEF ForwardInv, Carries, Ruled, Steered

\* Every way on from an attempt to enter the fallback keeps what is known.
LEMMA EnteredCarries ==
    ASSUME NEW p \in Processes, NEW ok, proc' = Entered(p, ok)
    PROVE  Carries(p)
  <1>1. CASE proc' \in {Retries(p, p.act), Retries(p, p.next)}
    BY <1>1, ZenonT(30) DEF Retries, Off, Carries
  <1>2. CASE \E q \in Serving : \/ proc' = [p EXCEPT !.pc = q]
                                \/ proc' = [p EXCEPT !.pc = q, !.then = "soft"]
                                \/ proc' = [p EXCEPT !.pc = q, !.loss = TRUE]
                                \/ proc' = [p EXCEPT !.pc = q, !.integ = TRUE]
                                \/ proc' = [p EXCEPT !.pc = q, !.loss = TRUE, !.policy = p.next,
                                                     !.next = None]
    BY <1>2 DEF Carries, Processes
  <1>3. {"renew", "unlink", "reject"} \subseteq Serving
    BY DEF Serving
  <1> QED BY <1>1, <1>2, <1>3 DEF Entered, ToReject

\* Every way on from an attempt to leave it does so too.
LEMMA LeftCarries ==
    ASSUME NEW p \in Processes, NEW ok \in BOOLEAN, NEW cost, Left(p, ok, cost),
           p.then \in {"recover", "refused", "conflict", "restored", "done"}
    PROVE  Carries(p)
  <1>0. {"renew", "routes", "report", "reject", "health"} \subseteq Serving
    BY DEF Serving
  <1>1. CASE p.then = "recover" /\ ok
    <2> DEFINE q == [p EXCEPT !.pc = "routes", !.loss = FALSE]
    <2>1. Publish(Committed(p.act), q, cost)
      BY <1>1 DEF Left
    <2>2. q \in Processes /\ q.pc = "routes" /\ q.steer = p.steer /\ q.susp = p.susp
      BY <1>0 DEF Processes
    <2> HIDE DEF q
    <2> QED BY <1>0, <2>1, <2>2 DEF Publish, Carries, Processes
  <1>2. CASE \E q \in Serving : proc' = [p EXCEPT !.pc = q]
    BY <1>2 DEF Carries, Processes
  <1>3. CASE AppliedPending(p) \/ Postpone(p, "health") \/ proc' = ToReject(p, "hard")
             \/ proc' = [p EXCEPT !.pc = "health", !.rejected = p.next, !.next = None]
    BY <1>0, <1>3 DEF AppliedPending, Postpone, ToReject, Carries, Processes
  <1>4. CASE proc' = Retries(p, p.next)
    BY <1>4 DEF Retries, Off, Carries
  <1> QED BY <1>0, <1>1, <1>2, <1>3, <1>4 DEF Left

\* Steering goes first.
LEMMA EnterNetdForward == ASSUME Inv, ForwardInv, EnterNetd PROVE ForwardInv'
  <1>1. /\ proc.pc = "fbNetd" /\ UNCHANGED core /\ proc.pc \in Serving
        /\ proc.owner \in Generations /\ None \in Opt(Decls) /\ proc \in Processes
        /\ (proc.susp => proc.steer)
    BY Known DEF EnterNetd, At, Serving, ProcInv, SteerInv
  <1>2. CASE proc.steer /\ proc.then \notin SteeringOnly
    <2>1. Go("fbCore") /\ UNCHANGED net
      BY <1>2 DEF EnterNetd
    <2>2. Keeps
      BY <1>1, <2>1, MoveKeeps DEF Serving
    <2>3. Calm
      BY <1>1, <2>1 DEF Calm
    <2> QED BY <1>1, <2>2, <2>3, CalmForward
  <1>3. CASE ~(proc.steer /\ proc.then \notin SteeringOnly)
    <2> DEFINE P(r) == [Answered("Suspend", r) EXCEPT !.steer = @ \/ r.ok]
    <2>1. PICK r \in Answers("Suspend", proc.owner, None) :
                   /\ net' = r.net /\ Spend(r.cost)
                   /\ proc' = IF r.ok /\ proc.then \notin SteeringOnly
                              THEN [P(r) EXCEPT !.pc = "fbCore"]
                              ELSE Entered(P(r), r.ok)
      BY <1>3, Zenon DEF EnterNetd
    <2>2. r.ok \in BOOLEAN
      BY <1>1, NetAnswers, Zenon
    <2>3. (r.ok => ~Ruled(r.net)) /\ (Ruled(r.net) => Ruled(net))
      <3>1. TypeInv /\ RecordInv
        BY DEF Inv
      <3>2. r.ok => ~Ruled(r.net)
        BY <1>1, <3>1, AnswersShape, Zenon
      <3> QED BY <1>1, <3>2, RuleKept
    <2>4. net' = r.net
      BY <2>1, Zenon
    <2> DEFINE p == P(r)
    <2>5. CASE r.ok
      <3>1. Answered("Suspend", r) = [proc EXCEPT !.phase = "suspended"]
        BY <2>5 DEF Answered, PhaseAfter
      <3>2. p = [[proc EXCEPT !.phase = "suspended"] EXCEPT !.steer = @ \/ r.ok]
        BY <3>1, Zenon
      <3>3. p \in Processes /\ p.steer /\ p.susp = proc.susp
        BY <1>1, <2>5, <3>2 DEF Processes
      <3>4. proc' = [p EXCEPT !.pc = "fbCore"] \/ proc' = Entered(p, r.ok)
        BY <2>1, Zenon
      <3> HIDE DEF p
      <3>5. Carries(p)
        <4>1. CASE proc' = [p EXCEPT !.pc = "fbCore"]
          BY <3>3, <4>1 DEF Carries, Processes, Serving
        <4> QED BY <3>3, <3>4, <4>1, EnteredCarries
      <3>6. core'.susp => p.susp
        BY <1>1, <3>3 DEF ForwardInv
      <3> QED BY <2>3, <2>4, <2>5, <3>3, <3>5, <3>6, CarriesForward
    <2>6. CASE ~r.ok
      <3>1. Answered("Suspend", r) = proc
        BY <2>6 DEF Answered
      <3>2. p = [proc EXCEPT !.steer = @ \/ r.ok]
        BY <3>1, Zenon
      <3>3. p \in Processes /\ p.steer = proc.steer /\ p.susp = proc.susp
        BY <1>1, <2>6, <3>2 DEF Processes
      <3>4. proc' = Entered(p, r.ok)
        BY <2>1, <2>6, Zenon
      <3> HIDE DEF p
      <3>5. Carries(p)
        BY <3>3, <3>4, EnteredCarries
      <3>6. (core'.susp => p.susp) /\ (p.steer => ~Ruled(net))
        BY <1>1, <3>3 DEF ForwardInv, Ruled, Steered
      <3> QED BY <1>1, <2>3, <2>4, <3>3, <3>5, <3>6, CarriesForward
    <2> QED BY <2>2, <2>5, <2>6
  <1> QED BY <1>2, <1>3

\* Core goes second, and the agent knows it when the answer cannot be lost.
LEMMA EnterCoreForward ==
    ASSUME Inv, ForwardInv, EnterCore, "CoreSuspend" \notin LostReplies
    PROVE  ForwardInv'
  <1>1. /\ proc.pc = "fbCore" /\ UNCHANGED net /\ core \in Cores /\ proc \in Processes
        /\ proc.steer /\ ~Ruled(net) /\ (core.susp => proc.susp)
    BY Known DEF EnterCore, At, ProcInv, SteerInv, ForwardInv, Serving, Ruled, Steered
  <1>2. ASSUME NEW b \in BOOLEAN, NEW ok, proc' = Entered([proc EXCEPT !.susp = b], ok),
               core'.susp => b
        PROVE  ForwardInv'
    <2> DEFINE p == [proc EXCEPT !.susp = b]
    <2>1. p \in Processes /\ p.steer /\ p.susp = b
      BY <1>1 DEF Processes
    <2>2. proc' = Entered(p, ok)
      BY <1>2
    <2> HIDE DEF p
    <2>3. Carries(p)
      BY <2>1, <2>2, EnteredCarries
    <2> QED BY <1>1, <1>2, <2>1, <2>3, CarriesForward
  <1>3. CASE proc.susp \/ ~core.alive
    BY <1>2, <1>3 DEF EnterCore
  <1>4. CASE ~(proc.susp \/ ~core.alive)
    <2> DEFINE after == [core EXCEPT !.susp = TRUE]
    <2>1. PICK c \in CoreAnswers("CoreSuspend", after) :
                /\ core' = c.core /\ Spend(c.cost)
                /\ proc' = Entered([proc EXCEPT !.susp = c.ok], c.ok)
      BY <1>4 DEF EnterCore
    <2>2. after \in Cores
      BY <1>1 DEF Cores
    <2>3. c.ok \in BOOLEAN /\ (~c.ok => c.core = core)
      BY <2>2, CoreAnswersShape DEF Inv
    <2>4. core'.susp => c.ok
      BY <1>1, <1>4, <2>1, <2>3
    <2> QED BY <1>2, <2>1, <2>3, <2>4
  <1> QED BY <1>3, <1>4

\* On the way out Core forwards first.
LEMMA LeaveCoreForward == ASSUME Inv, ForwardInv, LeaveCore PROVE ForwardInv'
  <1>1. /\ proc.pc = "lvCore" /\ proc.pc \in Serving /\ UNCHANGED net /\ core \in Cores
        /\ proc \in Processes /\ (core.susp => proc.susp) /\ (proc.susp => proc.steer)
        /\ (proc.steer => ~Ruled(net))
        /\ proc.then \in {"recover", "refused", "conflict", "restored", "done"}
    BY Known DEF LeaveCore, At, ProcInv, SteerInv, NextInv, ForwardInv, Serving, Ruled, Steered
  <1>2. CASE ~proc.susp
    <2>1. Go("lvNetd") /\ UNCHANGED core
      BY <1>2 DEF LeaveCore
    <2>2. Keeps
      BY <1>1, <2>1, MoveKeeps DEF Serving
    <2>3. Calm
      BY <1>1, <2>1 DEF Calm
    <2> QED BY <1>1, <2>2, <2>3, CalmForward
  <1>3. CASE proc.susp
    <2> DEFINE after == [core EXCEPT !.susp = FALSE]
    <2>1. PICK c \in CoreAnswers("CoreResume", after) :
                /\ core' = c.core
                /\ IF c.ok
                   THEN /\ proc' = [proc EXCEPT !.pc = "lvNetd", !.susp = FALSE]
                        /\ Spend(c.cost) /\ UNCHANGED <<ready, settled>>
                   ELSE Left(proc, FALSE, c.cost)
      BY <1>3 DEF LeaveCore
    <2>2. after \in Cores /\ after.susp = FALSE
      BY <1>1 DEF Cores
    <2>3. (c.ok => c.core = after) /\ c.core \in {core, after}
      BY <2>2, CoreAnswersShape DEF Inv
    <2>4. CASE c.ok
      <3>1. proc'.pc = "lvNetd" /\ proc'.susp = FALSE /\ proc'.steer = proc.steer
        BY <1>1, <2>1, <2>4 DEF Processes
      <3>2. core'.susp = FALSE
        BY <2>1, <2>2, <2>3, <2>4
      <3> QED BY <1>1, <3>1, <3>2 DEF ForwardInv, Serving, Ruled, Steered
    <2>5. CASE ~c.ok
      <3>1. Carries(proc)
        BY <1>1, <2>1, <2>5, LeftCarries
      <3>2. core'.susp => proc.susp
        BY <1>1, <2>1, <2>2, <2>3
      <3> QED BY <1>1, <3>1, <3>2, CarriesForward
    <2> QED BY <2>4, <2>5
  <1> QED BY <1>2, <1>3

\* Steering comes back second; when it does not, the agent stops Core again
\* and has to know that it did.
LEMMA LeaveNetdForward ==
    ASSUME Inv, ForwardInv, LeaveNetd,
           "Resume" \notin LostReplies, "CoreSuspend" \notin LostReplies
    PROVE  ForwardInv'
  <1>1. /\ proc.pc = "lvNetd" /\ core \in Cores /\ proc \in Processes
        /\ proc.owner \in Generations /\ None \in Opt(Decls) /\ ~proc.susp /\ ~core.susp
        /\ (proc.steer => ~Ruled(net))
        /\ proc.then \in {"recover", "refused", "conflict", "restored", "done"}
    BY Known DEF LeaveNetd, At, ProcInv, SteerInv, NextInv, ForwardInv, Serving, Ruled, Steered
  <1>2. CASE ~proc.steer
    <2>1. Left(proc, TRUE, 0) /\ UNCHANGED core
      BY <1>2 DEF LeaveNetd
    <2>2. Carries(proc)
      BY <1>1, <2>1, LeftCarries
    <2> QED BY <1>1, <1>2, <2>1, <2>2, CarriesForward
  <1>3. CASE proc.steer
    <2> DEFINE after == [core EXCEPT !.susp = TRUE]
               P(r) == [Answered("Resume", r) EXCEPT !.steer = FALSE]
    <2>1. PICK r \in Answers("Resume", proc.owner, None) :
                /\ net' = r.net
                /\ IF r.ok
                   THEN Left(P(r), TRUE, r.cost) /\ UNCHANGED core
                   ELSE \E c \in CoreAnswers("CoreSuspend", after) :
                            /\ core' = c.core
                            /\ Left([proc EXCEPT !.susp = c.ok], FALSE, r.cost + c.cost)
      BY <1>3, Zenon DEF LeaveNetd
    <2>2. net' = r.net
      BY <2>1, Zenon
    <2>3. ~r.ok => r.net = net
      BY <1>1, RefusalKeeps
    <2>4. CASE r.ok
      <3> DEFINE p == P(r)
      <3>1. Left(p, TRUE, r.cost) /\ UNCHANGED core
        BY <2>1, <2>4, Zenon
      <3>2. Answered("Resume", r) = [proc EXCEPT !.phase = "active"]
        BY <2>4 DEF Answered, PhaseAfter
      <3>3. p = [[proc EXCEPT !.phase = "active"] EXCEPT !.steer = FALSE]
        BY <3>2, Zenon
      <3>4. p \in Processes /\ ~p.steer /\ ~p.susp /\ p.then = proc.then
        BY <1>1, <3>3 DEF Processes
      <3> HIDE DEF p
      <3>5. Carries(p)
        BY <1>1, <3>1, <3>4, LeftCarries
      <3> QED BY <1>1, <3>1, <3>4, <3>5, CarriesForward
    <2>5. CASE ~r.ok
      <3>1. PICK c \in CoreAnswers("CoreSuspend", after) :
                            /\ core' = c.core
                            /\ Left([proc EXCEPT !.susp = c.ok], FALSE, r.cost + c.cost)
        BY <2>1, <2>5, Zenon
      <3>2. after \in Cores
        BY <1>1 DEF Cores
      <3>3. c.ok \in BOOLEAN /\ (~c.ok => c.core = core)
        BY <3>2, CoreAnswersShape DEF Inv
      <3> DEFINE p == [proc EXCEPT !.susp = c.ok]
      <3>4. p \in Processes /\ p.steer /\ p.susp = c.ok /\ p.then = proc.then
        BY <1>1, <1>3, <3>3 DEF Processes
      <3>5. Left(p, FALSE, r.cost + c.cost)
        BY <3>1
      <3> HIDE DEF p
      <3>6. Carries(p)
        BY <1>1, <3>4, <3>5, LeftCarries
      <3>7. core'.susp => p.susp
        BY <1>1, <3>1, <3>3, <3>4
      <3>8. ~Ruled(net')
        BY <1>1, <1>3, <2>2, <2>3, <2>5
      <3> QED BY <3>4, <3>6, <3>7, <3>8, CarriesForward
    <2> QED BY <2>4, <2>5
  <1> QED BY <1>2, <1>3

\* The rest of the loop.
LEMMA LoopForward ==
    ASSUME Inv, ForwardInv, Supervises, ~EnterNetd, ~EnterCore, ~LeaveCore, ~LeaveNetd
    PROVE  ForwardInv'
  <1>0. /\ proc \in Processes /\ ProcInv(proc) /\ core \in Cores
        /\ proc.owner \in Generations /\ None \in Opt(Decls)
        /\ {"renew", "confirm", "pointer", "unlink", "health", "routes", "lvCore", "fbNetd",
            "policy"} \subseteq Serving
    BY Known DEF Serving
  <1>1. /\ \A q \in Serving : Go(q) => Keeps
        /\ Unconfirmed => Keeps
        /\ \A q \in Serving : proc' = [proc EXCEPT !.pc = q] => Keeps
    BY <1>0, MoveKeeps, Zenon DEF Go
  <1>2. \A q \in Serving : \A t : proc' = [proc EXCEPT !.pc = q, !.then = t] => Keeps
    BY <1>0 DEF Keeps, Processes
  <1>3. CASE \E n : Ends(n)
    BY <1>3, EndsForward
  <1>4. SUFFICES ASSUME ~(\E n : Ends(n)) PROVE Calm /\ Keeps
    <2>1. proc.pc \in Serving
      BY <1>0 DEF Supervises, Renew, ConfirmCoreGone, ConfirmApplied, ConfirmRetry,
             PointerUnchanged, PointerSuperseded, PointerWithdrawn, RemoveWithdrawnReceipt,
             CheckHealth, ReconcileRoutes, At
    <2> QED BY <1>3, <2>1, CalmForward
  <1>5. CASE Renew
    <2> DEFINE q == IF proc.policy = None THEN "pointer" ELSE "confirm"
               p == [proc EXCEPT !.then = None, !.pc = q]
    <2>1. UNCHANGED core
      BY <1>5 DEF Renew
    <2>2. PICK r \in Answers("Renew", proc.owner, None) :
                /\ net' = r.net
                /\ IF ~r.ok
                   THEN /\ proc' = Retries(proc, proc.act)
                        /\ Spend(r.cost) /\ UNCHANGED ready
                   ELSE IF proc.receipt # None /\ proc.receipt.act = cand
                   THEN Publish(proc.receipt, p, r.cost)
                   ELSE /\ proc' = [p EXCEPT !.receipt = None]
                        /\ Spend(r.cost) /\ UNCHANGED ready
      BY <1>5, Zenon DEF Renew
    <2>3. Ruled(r.net) => Ruled(net)
      BY <1>0, RuleKept
    <2>4. net' = r.net
      BY <2>2, Zenon
    <2>5. Calm
      BY <2>1, <2>3, <2>4 DEF Calm
    <2>6. p \in Processes /\ p.pc \in Serving /\ p.steer = proc.steer /\ p.susp = proc.susp
      <3>1. q \in Serving /\ None \in Returns
        BY <1>0 DEF Returns
      <3> HIDE DEF q
      <3> QED BY <1>0, <3>1 DEF Processes
    <2>7. \/ proc' = Retries(proc, proc.act) \/ Publish(proc.receipt, p, r.cost)
          \/ proc' = [p EXCEPT !.receipt = None]
      BY <2>2, Zenon
    <2> HIDE DEF p
    <2>8. CASE proc' = Retries(proc, proc.act)
      BY <2>5, <2>8, RetriesKeeps
    <2>9. CASE Publish(proc.receipt, p, r.cost)
      BY <2>5, <2>6, <2>9, PublishKeeps
    <2>10. CASE proc' = [p EXCEPT !.receipt = None]
      BY <2>5, <2>6, <2>10 DEF Keeps, Processes
    <2> QED BY <2>7, <2>8, <2>9, <2>10
  <1>6. CASE ConfirmCoreGone
    BY <1>6, RetriesKeeps DEF ConfirmCoreGone, Calm
  <1>7. CASE ConfirmApplied
    <2>1. proc.pc = "confirm" /\ Calm /\ Adopt(proc.policy, [proc EXCEPT !.pc = "pointer"], 0)
      BY <1>7 DEF ConfirmApplied, At, Calm
    <2>2. Keeps
      BY <1>0, <2>1, ConfirmFacts, AdoptKeeps
    <2> QED BY <2>1, <2>2
  <1>8. CASE ConfirmRetry
    <2> DEFINE b == proc.policy
               same == [net |-> net, ok |-> TRUE, hard |-> FALSE, cost |-> 0]
               R == IF Decl(b) = Decl(proc.act) THEN {same} ELSE Answers("Policy", proc.owner, Decl(b))
               after == [core EXCEPT !.act = b]
    <2>1. proc.pc = "confirm" /\ b \in Activations /\ Decl(b) \in Opt(Decls)
      BY <1>8, ConfirmFacts, DeclShape DEF ConfirmRetry, At
    <2>2. PICK r \in R, c \in CoreAnswers("CorePolicy", after) :
               IF b.tun # proc.act.tun
               THEN Unconfirmed /\ Spend(0) /\ UNCHANGED <<ready, settled, core, net>>
               ELSE IF ~r.ok
               THEN /\ Unconfirmed /\ net' = r.net /\ Spend(r.cost)
                    /\ UNCHANGED <<ready, settled, core>>
               ELSE /\ net' = r.net /\ core' = c.core
                    /\ IF c.ok
                       THEN Adopt(b, [proc EXCEPT !.pc = "pointer"], r.cost)
                       ELSE /\ Unconfirmed /\ Spend(r.cost + c.cost)
                            /\ UNCHANGED <<ready, settled>>
      BY <1>8, Zenon DEF ConfirmRetry
    <2>3. Ruled(r.net) => Ruled(net)
      <3>1. CASE r = same
        BY <3>1
      <3>2. CASE r \in Answers("Policy", proc.owner, Decl(b))
        BY <1>0, <2>1, <3>2, RuleKept
      <3> QED BY <3>1, <3>2
    <2>4. after \in Cores /\ after.susp = core.susp
      BY <1>0, <2>1 DEF Cores, Opt
    <2>5. c.core.susp = core.susp
      BY <2>4, CoreCalm
    <2>6. net' \in {net, r.net} /\ core' \in {core, c.core}
      BY <2>2
    <2>7. Calm
      BY <2>3, <2>5, <2>6 DEF Calm
    <2>8. CASE Unconfirmed
      BY <1>1, <2>7, <2>8
    <2>9. CASE Adopt(b, [proc EXCEPT !.pc = "pointer"], r.cost)
      <3>1. Keeps
        BY <1>0, <2>1, <2>9, ConfirmFacts, AdoptKeeps
      <3> QED BY <2>7, <3>1
    <2> QED BY <2>2, <2>8, <2>9
  <1>9. CASE PointerUnchanged
    BY <1>0, <1>1, <1>9 DEF PointerUnchanged, Calm
  <1>10. CASE PointerSuperseded
    <2>1. Calm
      BY <1>10 DEF PointerSuperseded, Calm
    <2>2. CASE Go("health")
      BY <1>0, <1>1, <2>1, <2>2
    <2>3. CASE proc' = [proc EXCEPT !.pc = "policy", !.next = cand]
      BY <1>0, <2>1, <2>3 DEF Keeps, Processes
    <2> QED BY <1>10, <2>2, <2>3 DEF PointerSuperseded
  <1>11. CASE PointerWithdrawn
    <2> DEFINE q == IF proc.steer /\ proc.susp THEN "unlink" ELSE "fbNetd"
    <2>1. proc' = [proc EXCEPT !.loss = FALSE, !.integ = FALSE, !.rejected = None,
                               !.then = "withdrawn", !.pc = q]
      BY <1>11 DEF PointerWithdrawn
    <2>2. q \in Serving
      BY <1>0
    <2> HIDE DEF q
    <2>3. Keeps
      BY <1>0, <2>1, <2>2 DEF Keeps, Processes
    <2> QED BY <1>11, <2>3 DEF PointerWithdrawn, Calm
  <1>12. CASE RemoveWithdrawnReceipt
    BY <1>0, <1>1, <1>12 DEF RemoveWithdrawnReceipt, Calm
  <1>13. CASE CheckHealth
    <2>1. Calm
      BY <1>13 DEF CheckHealth, Calm
    <2>2. CASE proc' = Retries(proc, proc.act)
      BY <2>1, <2>2, RetriesKeeps
    <2>3. CASE proc' = [proc EXCEPT !.pc = "renew"] \/ proc' = [proc EXCEPT !.pc = "routes"]
      BY <1>0, <1>1, <2>1, <2>3
    <2>4. CASE \/ proc' = [proc EXCEPT !.pc = "lvCore", !.then = "recover"]
               \/ proc' = [proc EXCEPT !.pc = "fbNetd", !.then = "loss"]
      BY <1>0, <1>2, <2>1, <2>4
    <2> QED BY <1>13, <2>2, <2>3, <2>4 DEF CheckHealth
  <1>14. CASE ReconcileRoutes
    <2>1. CASE Go("renew") /\ UNCHANGED <<core, net>>
      BY <1>0, <1>1, <2>1 DEF Calm
    <2>2. CASE proc' = [proc EXCEPT !.pc = "fbNetd", !.then = "routes"] /\ UNCHANGED <<core, net>>
      BY <1>0, <1>2, <2>2 DEF Calm
    <2> QED BY <1>4, <1>14, <2>1, <2>2 DEF ReconcileRoutes
  <1> QED BY <1>5, <1>6, <1>7, <1>8, <1>9, <1>10, <1>11, <1>12, <1>13, <1>14 DEF Supervises

\* What happens around the agent neither steers nor stops Core.
LEMMA SurroundingsForward == ASSUME Inv, ForwardInv, Around PROVE ForwardInv'
  <1>0. net \in Nets /\ core \in Cores /\ (net.phase # "Stopped" => net.live # None)
    BY Known DEF Held
  <1>1. CASE Shutdown \/ AgentKilled
    BY <1>1, EndsForward DEF Shutdown, AgentKilled
  <1>2. CASE CoreExits
    BY <1>2, AroundForward DEF CoreExits, Calm, NoCore
  <1>3. CASE PeersConnect \/ PeersLost
    <2>1. core'.susp = core.susp /\ UNCHANGED <<proc, net>>
      BY <1>0, <1>3 DEF PeersConnect, PeersLost, Cores
    <2> QED BY <2>1, AroundForward DEF Calm
  <1>4. CASE NetdRestarts \/ NetdDrains \/ LeaseExpires
    <2>1. UNCHANGED <<proc, core>> /\ net' \in {NewNet, SessionLost}
      BY <1>4 DEF NetdRestarts, NetdDrains, LeaseExpires
    <2>2. ~Ruled(NewNet)
      BY DEF Ruled, NewNet
    <2>3. Ruled(SessionLost) => Ruled(net)
      <3>1. CASE net.phase # "Draining"
        <4>1. SessionLost.live = net.live
          BY <3>1 DEF SessionLost, NewNet
        <4> QED BY <4>1 DEF Ruled
      <3>2. CASE net.phase = "Draining"
        <4>1. SessionLost.live = [net.live EXCEPT !.gen = net.gen, !.decl = net.decl]
          BY <3>2 DEF SessionLost, NewNet
        <4>2. net.live # None /\ net.live \in Records
          BY <1>0, <3>2 DEF Nets, Opt
        <4>3. SessionLost.live.rule = net.live.rule
          BY <4>1, <4>2 DEF Records
        <4> QED BY <4>2, <4>3 DEF Ruled
      <3> QED BY <3>1, <3>2
    <2> QED BY <2>1, <2>2, <2>3, AroundForward DEF Calm
  <1>5. CASE PointerMoves \/ ReceiptRemoved
    BY <1>5, AroundForward DEF PointerMoves, ReceiptRemoved, Calm
  <1> QED BY <1>1, <1>2, <1>3, <1>4, <1>5 DEF Around

\* Traffic is not steered into a Core that was told not to forward, whatever
\* else fails on the way into the fallback or out of it, as long as the answers
\* to netd's Resume and to Core's suspension arrive when the request took effect
\* (enter_proxy_fallback, leave_proxy_fallback).
THEOREM Steering ==
    ASSUME "Resume" \notin LostReplies, "CoreSuspend" \notin LostReplies
    PROVE  Spec => []SteeringSound
  <1>1. Init => Inv /\ ForwardInv
    <2> SUFFICES ASSUME Init PROVE ForwardInv
      BY InitLemma
    <2>1. proc.pc = "off" /\ core.susp = FALSE
      BY OffShape DEF Init, NoCore
    <2> QED BY <2>1 DEF ForwardInv, Serving
  <1>2. Inv /\ ForwardInv /\ [Next]_vars => Inv' /\ ForwardInv'
    <2> SUFFICES ASSUME Inv, ForwardInv, [Next]_vars PROVE ForwardInv'
      BY StepLemma DEF StepOK
    <2>1. CASE Starts
      BY <2>1, StartsForward
    <2>2. CASE Follows
      BY <2>2, FollowsForward
    <2>3. CASE Supervises
      BY <2>3, LoopForward, EnterNetdForward, EnterCoreForward, LeaveCoreForward,
         LeaveNetdForward
    <2>4. CASE Around
      BY <2>4, SurroundingsForward
    <2>5. CASE UNCHANGED vars
      BY <2>5, AroundForward DEF vars, Calm
    <2> QED BY <2>1, <2>2, <2>3, <2>4, <2>5 DEF Next, AgentSteps
  <1>3. Inv /\ ForwardInv => SteeringSound
    <2> SUFFICES ASSUME Inv, ForwardInv PROVE SteeringSound
      OBVIOUS
    <2>1. TypeOK
      BY Known DEF Inv, TypeInv, ProcInv, StartInv, Serving, TypeOK
    <2>2. SteeredIsForwarded
      BY Known DEF Inv, ProcInv, SteerInv, ForwardInv, SteeredIsForwarded
    <2> QED BY <2>1, <2>2 DEF SteeringSound
  <1> QED BY <1>1, <1>2, <1>3, PTL DEF Spec

=============================================================================
