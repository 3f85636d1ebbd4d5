-------------------------- MODULE NetdDomainsProofs --------------------------
(***************************************************************************)
(* Proofs about the multi-domain router: I/O owners stay bound and         *)
(* separate, claims are exclusive, and the number of pending requests is   *)
(* exact, for any number of domains, processes and front threads.          *)
(***************************************************************************)
EXTENDS NetdDomains, FiniteSetTheorems, SequenceTheorems, TLAPS

-----------------------------------------------------------------------------
(* The inductive invariant                                                 *)

Slots == Requests \cup {None}

Tasks == Requests \cup Answers \cup {None}

Leases == [bytes : Nat, by : SUBSET {"front", "worker"}]

Pcs == {"claim", "reserve", "send", "wait", "undo", "process", "release", "reply"}

TypeInv ==
    /\ alive \subseteq Procs
    /\ owner \in [Domains -> Owners \cup {None}]
    /\ disk \in [Domains -> Owners \cup {None}]
    /\ bindings \in [Domains -> Bindings \cup {None}]
    /\ nextToken \in Nat \ {0}
    /\ inflight \in [Domains -> BOOLEAN]
    /\ ingress \in Seq(Permits)
    /\ front \in [Fronts -> Tasks]
    /\ queue \in [Domains -> Slots] /\ work \in [Domains -> Slots]
    /\ budget \in [requests : Int, bytes : Int]
    /\ lease \in [Permits -> Leases]

\* Where a request can be, and what it looks like there.
PlaceInv ==
    /\ \A f \in Fronts : front[f] # None =>
          /\ front[f].pc \in {"claim", "reserve", "send", "wait", "undo", "answer"}
          /\ front[f].pc # "answer" /\ front[f].op = "acquire" => front[f].owner # None
          /\ front[f].pc \in {"reserve", "undo"} => front[f].op = "acquire"
    /\ \A d \in Domains : queue[d] # None =>
          /\ queue[d].pc = "send" /\ queue[d].domain = d
          /\ queue[d].op = "acquire" => queue[d].owner # None
    /\ \A d \in Domains : work[d] # None =>
          /\ work[d].pc \in {"process", "undo", "release", "reply"} /\ work[d].domain = d
          /\ work[d].op = "acquire" => work[d].owner # None
          /\ work[d].pc = "undo" => work[d].op = "acquire"

Claims(f, d) ==
    front[f] # None /\ front[f].pc \in {"reserve", "send"} /\ front[f].domain = d

Busied(d) == work[d] # None /\ work[d].pc # "reply"

\* One request at a time holds the claim of a domain.
ClaimInv ==
    \A d \in Domains :
        /\ \A f \in Fronts : Claims(f, d) =>
              /\ inflight[d] /\ queue[d] = None /\ ~Busied(d)
              /\ \A g \in Fronts : Claims(g, d) => g = f
        /\ queue[d] # None => inflight[d] /\ ~Busied(d)
        /\ Busied(d) => inflight[d]
        /\ inflight[d] => queue[d] # None \/ Busied(d) \/ \E f \in Fronts : Claims(f, d)

\* A front thread waits for the request that names it.
Awaited(f, r) ==
    /\ front[f] # None /\ front[f].pc = "wait"
    /\ front[f].domain = r.domain /\ front[f].token = r.token /\ front[f].op = r.op

LinkInv ==
    \A d \in Domains :
        /\ queue[d] # None /\ queue[d].reply # None => Awaited(queue[d].reply, queue[d])
        /\ work[d] # None /\ work[d].reply # None => Awaited(work[d].reply, work[d])
        /\ queue[d] # None /\ work[d] # None /\ queue[d].reply # None
              => queue[d].reply # work[d].reply

\* The reservation of an acquisition that is not yet decided: it is in the
\* table, and both the service's and the former owner are gone.
Holds(r, d) ==
    /\ bindings[d] = [owner |-> r.owner, token |-> r.token] /\ ~OwnerLives(d)
    /\ r.previous # None =>
          r.previous.owner.proc \notin alive /\ r.previous.token < r.token

HoldInv ==
    /\ \A d \in Domains : queue[d] # None /\ queue[d].op = "acquire" => Holds(queue[d], d)
    /\ \A d \in Domains :
          work[d] # None /\ work[d].op = "acquire" /\ work[d].pc \in {"process", "undo"}
             => Holds(work[d], d)
    /\ \A f \in Fronts :
          front[f] # None /\ front[f].pc = "send" /\ front[f].op = "acquire"
             => Holds(front[f], front[f].domain)

\* A reservation that was undone is not in the table and does not come back.
NotBefore(r, t) == r.previous # None => r.previous.token # t

Spent(t, d) ==
    /\ t < nextToken
    /\ bindings[d] # None => bindings[d].token # t
    /\ queue[d] # None /\ queue[d].op = "acquire" => NotBefore(queue[d], t)
    /\ work[d] # None /\ work[d].op = "acquire" /\ work[d].pc \in {"process", "undo"}
          => NotBefore(work[d], t)
    /\ \A f \in Fronts :
          front[f] # None /\ front[f].pc = "send" /\ front[f].op = "acquire"
             /\ front[f].domain = d => NotBefore(front[f], t)

SpentInv ==
    /\ \A f \in Fronts :
          front[f] # None /\ front[f].pc = "undo" => Spent(front[f].token, front[f].domain)
    /\ \A d \in Domains :
          /\ work[d] # None /\ work[d].op = "acquire" /\ ~work[d].ok
          /\ work[d].pc \in {"release", "reply"}
          => Spent(work[d].token, d)

\* The table: tokens are used once, live owners are kept apart.
TableInv ==
    /\ \A d \in Domains : bindings[d] # None => bindings[d].token < nextToken
    /\ \A d, e \in Domains :
          d # e /\ Live(bindings[d]) /\ Live(bindings[e])
             => ~Conflict(bindings[d].owner, bindings[e].owner)

\* Every request a front thread has or will receive holds a permit of its own.
PermitInv ==
    /\ \A i \in 1 .. Len(ingress) : "front" \in lease[ingress[i]].by
    /\ \A i, j \in 1 .. Len(ingress) : i # j => ingress[i] # ingress[j]
    /\ \A f \in Fronts : front[f] # None =>
          /\ "front" \in lease[front[f].id].by
          /\ \A i \in 1 .. Len(ingress) : ingress[i] # front[f].id
          /\ \A g \in Fronts : front[g] # None /\ g # f => front[g].id # front[f].id

\* The permits somebody holds, which the budget counts.
Held == {r \in Permits : lease[r].by # {}}

CountInv == budget.requests = Cardinality(Held) /\ budget.bytes <= MaxBytes

Inv ==
    /\ TypeInv /\ PlaceInv /\ ClaimInv /\ LinkInv /\ HoldInv /\ SpentInv
    /\ TableInv /\ PermitInv /\ CountInv /\ OwnerIsBound

-----------------------------------------------------------------------------
(* Types                                                                   *)

\* A request that goes to its next step is otherwise the same.
LEMMA Advance ==
    ASSUME NEW r \in Requests, NEW pc \in Pcs
    PROVE  LET x == [r EXCEPT !.pc = pc]
           IN /\ x \in Requests /\ x.pc = pc /\ x.id = r.id /\ x.domain = r.domain
              /\ x.op = r.op /\ x.owner = r.owner /\ x.token = r.token
              /\ x.previous = r.previous /\ x.ok = r.ok /\ x.reply = r.reply
  BY DEF Requests, Pcs

\* A request that is sent, or no longer awaited, is otherwise the same.
LEMMA Redirect ==
    ASSUME NEW r \in Requests, NEW f \in Fronts \cup {None}
    PROVE  LET x == [r EXCEPT !.reply = f]
           IN /\ x \in Requests /\ x.pc = r.pc /\ x.id = r.id /\ x.domain = r.domain
              /\ x.op = r.op /\ x.owner = r.owner /\ x.token = r.token
              /\ x.previous = r.previous /\ x.ok = r.ok /\ x.reply = f
  BY DEF Requests

\* What a front thread has before it answers is a whole request.
LEMMA FrontRequest ==
    ASSUME TypeInv, NEW f \in Fronts, front[f] # None, front[f].pc # "answer"
    PROVE  front[f] \in Requests
  BY DEF TypeInv, Tasks, Answers

\* Whatever a front thread has names a permit.
LEMMA FrontPermit ==
    ASSUME TypeInv, NEW f \in Fronts, front[f] # None
    PROVE  front[f].id \in Permits
  BY DEF TypeInv, Tasks, Answers, Requests

-----------------------------------------------------------------------------
(* What each action does, field by field                                   *)

\* x is the request r at another step.
Same(r, x) ==
    /\ x \in Requests /\ x # None /\ x.id = r.id /\ x.domain = r.domain /\ x.op = r.op
    /\ x.owner = r.owner

\* Only front thread f moves, and keeps its permit.
Moves(f) ==
    /\ front' \in [Fronts -> Tasks] /\ front'[f] # None /\ front'[f].id = front[f].id
    /\ \A g \in Fronts \ {f} : front'[g] = front[g]

\* Holder h of permit r gives it back.
Returns(r, h) ==
    /\ budget' \in [requests : Int, bytes : Int] /\ budget'.bytes <= budget.bytes
    /\ lease' \in [Permits -> Leases]
    /\ \A s \in Permits : lease'[s].by = IF s = r THEN lease[s].by \ {h} ELSE lease[s].by
    /\ budget'.requests = IF lease[r].by = {h} THEN budget.requests - 1 ELSE budget.requests

\* x is what a slot keeps of y after front thread f stopped waiting.
Forgets(y, x, f) ==
    /\ (x = None) = (y = None)
    /\ x # None =>
          /\ Same(y, x) /\ x.pc = y.pc /\ x.token = y.token
          /\ x.previous = y.previous /\ x.ok = y.ok
          /\ x.reply = (IF y.reply = f THEN None ELSE y.reply)

\* Only the thread of domain d moves, on the same request.
Works(d) ==
    /\ work[d] \in Requests /\ work[d] # None
    /\ work' \in [Domains -> Slots] /\ Same(work[d], work'[d])
    /\ work'[d].token = work[d].token /\ work'[d].previous = work[d].previous
    /\ work'[d].reply = work[d].reply
    /\ \A e \in Domains \ {d} : work'[e] = work[e]

\* A front thread goes to its next step.
LEMMA StepShape ==
    ASSUME TypeInv, NEW f \in Fronts, front[f] \in Requests, NEW pc \in Pcs \cup {"answer"},
           Step(f, pc)
    PROVE  /\ Moves(f) /\ front'[f].pc = pc
           /\ pc # "answer" => /\ Same(front[f], front'[f])
                              /\ front'[f].token = front[f].token
                              /\ front'[f].previous = front[f].previous
  <1> USE NoneAssumption
  <1>1. front \in [Fronts -> Tasks]
    BY DEF TypeInv
  <1>2. CASE pc = "answer"
    <2>1. front' = [front EXCEPT ![f] = [pc |-> "answer", id |-> front[f].id]]
      BY <1>2 DEF Step, Answered
    <2>2. [pc |-> "answer", id |-> front[f].id] \in Answers
      BY DEF Answers, Requests
    <2>3. QED
      BY <1>1, <1>2, <2>1, <2>2 DEF Moves, Tasks
  <1>3. CASE pc \in Pcs
    <2>1. pc # "answer"
      BY <1>3 DEF Pcs
    <2>2. front' = [front EXCEPT ![f] = [front[f] EXCEPT !.pc = pc]]
      BY <2>1 DEF Step
    <2>3. front'[f] = [front[f] EXCEPT !.pc = pc] /\ \A g \in Fronts \ {f} : front'[g] = front[g]
      BY <1>1, <2>2
    <2>4. front' \in [Fronts -> Tasks]
      BY <1>1, <1>3, <2>2, Advance DEF Tasks
    <2>5. QED
      BY <1>3, <2>3, <2>4, Advance DEF Moves, Same
  <1>4. QED
    BY <1>2, <1>3

\* A permit that is returned: the holder goes, and the charge with the last.
LEMMA DropShape ==
    ASSUME TypeInv, NEW r \in Permits, NEW h, Drop(r, h)
    PROVE  Returns(r, h)
  <1>1. /\ lease \in [Permits -> Leases] /\ lease[r] \in Leases /\ lease[r].bytes \in Nat
        /\ budget \in [requests : Int, bytes : Int]
    BY DEF TypeInv, Leases
  <1>2. CASE lease[r].by = {h}
    <2>1. /\ lease' = [lease EXCEPT ![r] = [bytes |-> 0, by |-> {}]]
          /\ budget' = [requests |-> budget.requests - 1, bytes |-> budget.bytes - lease[r].bytes]
      BY <1>2 DEF Drop
    <2>2. [bytes |-> 0, by |-> {}] \in Leases
      BY DEF Leases
    <2>3. \A s \in Permits : lease'[s].by = IF s = r THEN lease[s].by \ {h} ELSE lease[s].by
      BY <1>1, <1>2, <2>1
    <2>4. lease' \in [Permits -> Leases]
      BY <1>1, <2>1, <2>2
    <2>5. /\ budget' \in [requests : Int, bytes : Int] /\ budget'.bytes <= budget.bytes
          /\ budget'.requests = budget.requests - 1
      BY <1>1, <2>1
    <2>6. QED
      BY <1>2, <2>3, <2>4, <2>5 DEF Returns
  <1>3. CASE lease[r].by # {h}
    <2> DEFINE x == [lease[r] EXCEPT !.by = @ \ {h}]
    <2>1. lease' = [lease EXCEPT ![r] = x] /\ budget' = budget
      BY <1>3 DEF Drop
    <2>2. x \in Leases /\ x.by = lease[r].by \ {h}
      BY <1>1 DEF Leases
    <2> HIDE DEF x
    <2>3. QED
      BY <1>1, <1>3, <2>1, <2>2 DEF Returns
  <1>4. QED
    BY <1>2, <1>3

\* A connection takes a free permit.
LEMMA DispatchShape ==
    ASSUME TypeInv, Dispatch
    PROVE  \E r \in Permits :
              /\ lease[r].by = {} /\ ingress' = Append(ingress, r)
              /\ budget.bytes < MaxBytes
              /\ budget' = [requests |-> budget.requests + 1, bytes |-> budget.bytes + 1]
              /\ lease' \in [Permits -> Leases]
              /\ \A s \in Permits : lease'[s].by = IF s = r THEN {"front"} ELSE lease[s].by
              /\ UNCHANGED <<alive, owner, disk, bindings, nextToken, inflight, front, queue, work>>
  <1>1. PICK r \in Permits :
           /\ \A s \in 1 .. r : (lease[s].by = {}) = (s = r)
           /\ Reserve(r) /\ ingress' = Append(ingress, r)
    BY DEF Dispatch
  <1>2. lease[r].by = {}
    BY <1>1 DEF Permits
  <1>3. lease' = [lease EXCEPT ![r] = [bytes |-> 1, by |-> {"front"}]]
    BY <1>1 DEF Reserve
  <1>4. [bytes |-> 1, by |-> {"front"}] \in Leases
    BY DEF Leases
  <1>5. lease' \in [Permits -> Leases]
    BY <1>3, <1>4 DEF TypeInv
  <1>6. \A s \in Permits : lease'[s].by = IF s = r THEN {"front"} ELSE lease[s].by
    BY <1>3 DEF TypeInv
  <1>7. QED
    BY <1>1, <1>2, <1>5, <1>6 DEF Dispatch, Reserve, service, router

\* A front thread takes a connection from the queue.
LEMMA ReceiveShape ==
    ASSUME TypeInv, NEW f \in Fronts, Receive(f)
    PROVE  /\ front[f] = None /\ ingress # <<>> /\ ingress' = Tail(ingress)
           /\ front' \in [Fronts -> Tasks] /\ front'[f] # None /\ front'[f].id = Head(ingress)
           /\ \A g \in Fronts \ {f} : front'[g] = front[g]
           /\ front'[f].pc \in {"claim", "answer"}
           /\ front'[f].pc = "claim" /\ front'[f].op = "acquire" => front'[f].owner # None
           /\ UNCHANGED <<alive, owner, disk, bindings, nextToken, inflight, queue, work, budget, lease>>
  <1> USE NoneAssumption
  <1>1. Head(ingress) \in Permits /\ front \in [Fronts -> Tasks]
    BY DEF Receive, TypeInv
  <1>2. CASE front' = [front EXCEPT ![f] = [pc |-> "answer", id |-> Head(ingress)]]
    <2>1. [pc |-> "answer", id |-> Head(ingress)] \in Answers
      BY <1>1 DEF Answers
    <2>2. QED
      BY <1>1, <1>2, <2>1 DEF Receive, Tasks, service, router, charge
  <1>3. ASSUME NEW d \in Domains, NEW op \in DOMAIN Bytes, NEW o \in Owners \cup {None},
               (op = "acquire") = (o # None),
               front' = [front EXCEPT ![f] =
                            [pc |-> "claim", id |-> Head(ingress), domain |-> d, op |-> op,
                             owner |-> o, token |-> 0, previous |-> None, ok |-> FALSE,
                             reply |-> None]]
        PROVE  /\ front' \in [Fronts -> Tasks] /\ front'[f] # None
               /\ front'[f].id = Head(ingress) /\ front'[f].pc = "claim"
               /\ \A g \in Fronts \ {f} : front'[g] = front[g]
               /\ front'[f].op = "acquire" => front'[f].owner # None
    <2> DEFINE x == [pc |-> "claim", id |-> Head(ingress), domain |-> d, op |-> op,
                     owner |-> o, token |-> 0, previous |-> None, ok |-> FALSE,
                     reply |-> None]
    <2>1. op \in {"acquire", "forward"}
      BY DEF Bytes
    <2>2. /\ x \in Requests /\ x.id = Head(ingress) /\ x.pc = "claim"
          /\ x.op = "acquire" => x.owner # None
      BY <1>1, <1>3, <2>1 DEF Requests
    <2>3. front' = [front EXCEPT ![f] = x]
      BY <1>3
    <2> HIDE DEF x
    <2>4. QED
      BY <1>1, <2>2, <2>3 DEF Tasks
  <1>4. QED
    BY <1>2, <1>3 DEF Receive, service, router, charge

\* The domain is claimed, or the request refused.
LEMMA ClaimShape ==
    ASSUME TypeInv, NEW f \in Fronts, Claim(f)
    PROVE  LET d == front[f].domain
           IN /\ front[f] \in Requests /\ front[f] # None /\ front[f].pc = "claim" /\ Moves(f)
              /\ \/ front'[f].pc = "answer" /\ UNCHANGED <<inflight, budget, lease>>
                 \/ /\ ~inflight[d] /\ inflight' = [inflight EXCEPT ![d] = TRUE]
                    /\ front'[f].pc = (IF front[f].op = "acquire" THEN "reserve" ELSE "send")
                    /\ Same(front[f], front'[f])
                    /\ budget' \in [requests : Int, bytes : Int]
                    /\ budget'.requests = budget.requests /\ budget'.bytes <= MaxBytes
                    /\ lease' \in [Permits -> Leases]
                    /\ \A r \in Permits : lease'[r].by = lease[r].by
              /\ UNCHANGED <<alive, owner, disk, bindings, nextToken, ingress, queue, work>>
  <1> DEFINE req == front[f]
  <1>1. req \in Requests /\ req # None /\ req.pc = "claim"
    BY FrontRequest DEF Claim, At
  <1>2. req.id \in Permits /\ req.op \in {"acquire", "forward"} /\ req.domain \in Domains
    BY <1>1 DEF Requests
  <1>3. CASE inflight[req.domain] \/ Resized(req.id, Bytes[req.op]) > MaxBytes
    <2>1. Step(f, "answer") /\ UNCHANGED <<inflight, budget, lease>>
      BY <1>3 DEF Claim, service, charge
    <2>2. QED
      BY <1>1, <2>1, StepShape DEF Claim, service
  <1>4. CASE ~(inflight[req.domain] \/ Resized(req.id, Bytes[req.op]) > MaxBytes)
    <2> DEFINE b == Bytes[req.op]
               x == [lease[req.id] EXCEPT !.bytes = b]
               y == [budget EXCEPT !.bytes = Resized(req.id, b)]
    <2>1. /\ Step(f, IF req.op = "acquire" THEN "reserve" ELSE "send")
          /\ inflight' = [inflight EXCEPT ![req.domain] = TRUE]
          /\ budget' = y /\ lease' = [lease EXCEPT ![req.id] = x]
      BY <1>4 DEF Claim
    <2>2. b \in Nat
      BY <1>2, DomainsAssumption DEF Bytes
    <2>3. lease \in [Permits -> Leases] /\ lease[req.id] \in Leases /\ lease[req.id].bytes \in Nat
      BY <1>2 DEF TypeInv, Leases
    <2>4. x \in Leases /\ x.by = lease[req.id].by
      BY <2>2, <2>3 DEF Leases
    <2>5. Resized(req.id, b) \in Int /\ Resized(req.id, b) <= MaxBytes
      BY <1>4, <2>2, <2>3, DomainsAssumption DEF Resized, TypeInv
    <2>6. y \in [requests : Int, bytes : Int] /\ y.requests = budget.requests /\ y.bytes <= MaxBytes
      BY <2>5 DEF TypeInv
    <2>7. /\ Moves(f) /\ Same(front[f], front'[f])
          /\ front'[f].pc = (IF req.op = "acquire" THEN "reserve" ELSE "send")
      BY <1>1, <2>1, StepShape DEF Pcs
    <2> HIDE DEF x, y
    <2>8. lease' \in [Permits -> Leases] /\ \A r \in Permits : lease'[r].by = lease[r].by
      BY <1>2, <2>1, <2>3, <2>4
    <2>9. QED
      BY <1>1, <1>4, <2>1, <2>6, <2>7, <2>8 DEF Claim, service
  <1>5. QED
    BY <1>3, <1>4

\* The domain is reserved, or given back.
LEMMA BindShape ==
    ASSUME TypeInv, PlaceInv, NEW f \in Fronts, Bind(f)
    PROVE  LET d == front[f].domain
           IN /\ front[f] \in Requests /\ front[f] # None /\ front[f].pc = "reserve" /\ Moves(f)
              /\ front[f].op = "acquire" /\ front[f].owner \in Owners
              /\ \/ /\ Bindable(d, front[f].owner) /\ UNCHANGED inflight
                    /\ bindings' = [bindings EXCEPT ![d] =
                                       [owner |-> front[f].owner, token |-> nextToken]]
                    /\ front'[f].pc = "send" /\ Same(front[f], front'[f])
                    /\ front'[f].token = nextToken /\ front'[f].previous = bindings[d]
                 \/ /\ front'[f].pc = "answer" /\ UNCHANGED bindings
                    /\ inflight' = [inflight EXCEPT ![d] = FALSE]
              /\ nextToken' = nextToken + 1
              /\ UNCHANGED <<alive, owner, disk, ingress, queue, work, budget, lease>>
  <1> USE NoneAssumption
  <1> DEFINE req == front[f]
  <1>1. req \in Requests /\ req # None /\ req.pc = "reserve"
    BY FrontRequest DEF Bind, At
  <1>2. req.op = "acquire" /\ req.owner \in Owners /\ req.domain \in Domains
    BY <1>1 DEF Requests, PlaceInv
  <1>3. CASE ~Bindable(req.domain, req.owner)
    <2>1. Step(f, "answer") /\ inflight' = [inflight EXCEPT ![req.domain] = FALSE]
          /\ UNCHANGED bindings
      BY <1>3 DEF Bind
    <2>2. QED
      BY <1>1, <1>2, <2>1, StepShape DEF Bind, service, charge
  <1>4. CASE Bindable(req.domain, req.owner)
    <2> DEFINE x == [req EXCEPT !.pc = "send", !.token = nextToken,
                                !.previous = bindings[req.domain]]
    <2>1. /\ front' = [front EXCEPT ![f] = x] /\ UNCHANGED inflight
          /\ bindings' = [bindings EXCEPT ![req.domain] = [owner |-> req.owner, token |-> nextToken]]
      BY <1>4 DEF Bind
    <2>2. nextToken \in Nat /\ bindings[req.domain] \in Bindings \cup {None}
      BY <1>2 DEF TypeInv
    <2>3. /\ x \in Requests /\ x.pc = "send" /\ x.id = req.id /\ x.domain = req.domain
          /\ x.op = req.op /\ x.owner = req.owner /\ x.token = nextToken
          /\ x.previous = bindings[req.domain]
      BY <1>1, <2>2 DEF Requests
    <2> HIDE DEF x
    <2>4. front' \in [Fronts -> Tasks] /\ front'[f] = x /\ \A g \in Fronts \ {f} : front'[g] = front[g]
      BY <2>1, <2>3 DEF TypeInv, Tasks
    <2>5. QED
      BY <1>1, <1>2, <1>4, <2>1, <2>3, <2>4 DEF Bind, Moves, Same, service, charge
  <1>5. QED
    BY <1>3, <1>4

\* The request goes to the domain's thread and is awaited.
LEMMA SendShape ==
    ASSUME TypeInv, NEW f \in Fronts, Send(f)
    PROVE  LET d == front[f].domain
           IN /\ front[f] \in Requests /\ front[f] # None /\ front[f].pc = "send" /\ Moves(f)
              /\ front'[f].pc = "wait" /\ Same(front[f], front'[f])
              /\ front'[f].token = front[f].token
              /\ queue[d] = None /\ queue' \in [Domains -> Slots]
              /\ Same(front[f], queue'[d]) /\ queue'[d].pc = "send"
              /\ queue'[d].token = front[f].token /\ queue'[d].previous = front[f].previous
              /\ queue'[d].reply = f
              /\ \A e \in Domains \ {d} : queue'[e] = queue[e]
              /\ lease' \in [Permits -> Leases]
              /\ \A r \in Permits : lease'[r].by =
                    IF r = front[f].id THEN lease[r].by \cup {"worker"} ELSE lease[r].by
              /\ UNCHANGED <<alive, owner, disk, bindings, nextToken, inflight, ingress, work, budget>>
  <1> USE NoneAssumption
  <1> DEFINE req == front[f]
             x == [req EXCEPT !.reply = f]
             y == [lease[req.id] EXCEPT !.by = @ \cup {"worker"}]
  <1>1. req \in Requests /\ req # None /\ req.pc = "send"
    BY FrontRequest DEF Send, At
  <1>2. req.id \in Permits /\ req.domain \in Domains
    BY <1>1 DEF Requests
  <1>3. /\ queue[req.domain] = None /\ queue' = [queue EXCEPT ![req.domain] = x]
        /\ lease' = [lease EXCEPT ![req.id] = y] /\ Step(f, "wait")
    BY DEF Send
  <1>4. Moves(f) /\ front'[f].pc = "wait" /\ Same(req, front'[f]) /\ front'[f].token = req.token
    BY <1>1, <1>3, StepShape DEF Pcs
  <1>5. /\ x \in Requests /\ x.pc = "send" /\ x.id = req.id /\ x.domain = req.domain
        /\ x.op = req.op /\ x.owner = req.owner /\ x.token = req.token
        /\ x.previous = req.previous /\ x.reply = f
    BY <1>1, Redirect
  <1>6. lease \in [Permits -> Leases] /\ lease[req.id] \in Leases
    BY <1>2 DEF TypeInv
  <1>7. y \in Leases /\ y.by = lease[req.id].by \cup {"worker"}
    BY <1>6 DEF Leases
  <1> HIDE DEF x, y
  <1>8. /\ queue' \in [Domains -> Slots] /\ queue'[req.domain] = x
        /\ \A e \in Domains \ {req.domain} : queue'[e] = queue[e]
    BY <1>2, <1>3, <1>5 DEF TypeInv, Slots
  <1>9. /\ lease' \in [Permits -> Leases]
        /\ \A r \in Permits : lease'[r].by =
              IF r = req.id THEN lease[r].by \cup {"worker"} ELSE lease[r].by
    BY <1>2, <1>3, <1>6, <1>7
  <1>10. QED
    BY <1>1, <1>3, <1>4, <1>5, <1>8, <1>9 DEF Send, Same, service, router

\* Slots after front thread f stopped waiting.
LEMMA UnheardShape ==
    ASSUME NEW slot \in [Domains -> Slots], NEW f \in Fronts
    PROVE  /\ Unheard(slot, f) \in [Domains -> Slots]
           /\ \A d \in Domains : Forgets(slot[d], Unheard(slot, f)[d], f)
  <1> USE NoneAssumption
  <1>1. \A e \in Domains : slot[e] # None => slot[e] \in Requests
    BY DEF Slots
  <1>2. \A e \in Domains : slot[e] # None => [slot[e] EXCEPT !.reply = None] \in Requests
    BY <1>1, Redirect
  <1>3. Unheard(slot, f) \in [Domains -> Slots]
    BY <1>2 DEF Unheard, Slots
  <1>4. ASSUME NEW d \in Domains PROVE Forgets(slot[d], Unheard(slot, f)[d], f)
    <2>1. CASE slot[d] # None /\ slot[d].reply = f
      <3>1. Unheard(slot, f)[d] = [slot[d] EXCEPT !.reply = None]
        BY <2>1 DEF Unheard
      <3>2. QED
        BY <1>1, <1>3, <2>1, <3>1, Redirect DEF Same, Forgets
    <2>2. CASE ~(slot[d] # None /\ slot[d].reply = f)
      <3>1. Unheard(slot, f)[d] = slot[d]
        BY <2>2 DEF Unheard
      <3>2. QED
        BY <1>1, <1>3, <2>2, <3>1 DEF Same, Forgets
    <2>3. QED
      BY <2>1, <2>2
  <1>5. QED
    BY <1>3, <1>4

\* A front thread that waited two seconds answers, and is not heard any more.
LEMMA TimeoutShape ==
    ASSUME TypeInv, NEW f \in Fronts, Timeout(f)
    PROVE  /\ front[f] \in Requests /\ front[f] # None /\ front[f].pc = "wait"
           /\ Moves(f) /\ front'[f].pc = "answer"
           /\ queue' \in [Domains -> Slots] /\ work' \in [Domains -> Slots]
           /\ \A d \in Domains : Forgets(queue[d], queue'[d], f) /\ Forgets(work[d], work'[d], f)
           /\ UNCHANGED <<alive, owner, disk, bindings, nextToken, inflight, ingress, budget, lease>>
  <1>1. front[f] \in Requests /\ front[f] # None /\ front[f].pc = "wait"
    BY FrontRequest DEF Timeout, GivesUp, At
  <1>2. Moves(f) /\ front'[f].pc = "answer"
    BY <1>1, StepShape DEF Timeout, GivesUp
  <1>3. queue' = Unheard(queue, f) /\ work' = Unheard(work, f)
    BY DEF Timeout, GivesUp
  <1>4. queue \in [Domains -> Slots] /\ work \in [Domains -> Slots]
    BY DEF TypeInv
  <1>5. /\ queue' \in [Domains -> Slots] /\ work' \in [Domains -> Slots]
        /\ \A d \in Domains : Forgets(queue[d], queue'[d], f) /\ Forgets(work[d], work'[d], f)
    BY <1>3, <1>4, UnheardShape
  <1>6. QED
    BY <1>1, <1>2, <1>5 DEF Timeout, GivesUp, service, router, charge

\* By the time a front thread undoes a reservation, the domain's thread has
\* done so: the table stays as it is.
LEMMA FrontUndoShape ==
    ASSUME TypeInv, SpentInv, NEW f \in Fronts, FrontUndo(f)
    PROVE  /\ front[f] \in Requests /\ front[f] # None /\ front[f].pc = "undo"
           /\ Moves(f) /\ front'[f].pc = "answer"
           /\ UNCHANGED <<alive, owner, disk, bindings, nextToken, inflight, ingress, queue, work,
                          budget, lease>>
  <1>1. front[f] \in Requests /\ front[f] # None /\ front[f].pc = "undo"
    BY FrontRequest DEF FrontUndo, At
  <1>2. Moves(f) /\ front'[f].pc = "answer"
    BY <1>1, StepShape DEF FrontUndo
  <1>3. Spent(front[f].token, front[f].domain)
    BY <1>1 DEF SpentInv
  <1>4. bindings' = bindings
    BY <1>3 DEF FrontUndo, Undo, Spent
  <1>5. QED
    BY <1>1, <1>2, <1>4 DEF FrontUndo, service, charge

\* The caller is answered and the front thread free.
LEMMA AnswerShape ==
    ASSUME TypeInv, NEW f \in Fronts, Answer(f)
    PROVE  /\ front[f] # None /\ front[f].pc = "answer" /\ front[f].id \in Permits
           /\ front' \in [Fronts -> Tasks] /\ front'[f] = None
           /\ \A g \in Fronts \ {f} : front'[g] = front[g]
           /\ Returns(front[f].id, "front")
           /\ UNCHANGED <<alive, owner, disk, bindings, nextToken, inflight, ingress, queue, work>>
  <1>1. front[f] # None /\ front[f].pc = "answer" /\ Drop(front[f].id, "front")
    BY DEF Answer, At
  <1>2. front[f].id \in Permits
    BY <1>1, FrontPermit
  <1>3. Returns(front[f].id, "front")
    BY <1>1, <1>2, DropShape
  <1>4. front' = [front EXCEPT ![f] = None] /\ front \in [Fronts -> Tasks]
    BY DEF Answer, TypeInv
  <1>5. QED
    BY <1>1, <1>2, <1>3, <1>4 DEF Answer, Tasks, service, router

\* The domain's thread takes the queued request.
LEMMA TakeShape ==
    ASSUME TypeInv, NEW d \in Domains, Take(d)
    PROVE  /\ work[d] = None /\ queue[d] # None /\ queue[d] \in Requests
           /\ work' \in [Domains -> Slots] /\ Same(queue[d], work'[d])
           /\ work'[d].pc = "process" /\ work'[d].token = queue[d].token
           /\ work'[d].previous = queue[d].previous /\ work'[d].reply = queue[d].reply
           /\ \A e \in Domains \ {d} : work'[e] = work[e]
           /\ queue' \in [Domains -> Slots] /\ queue'[d] = None
           /\ \A e \in Domains \ {d} : queue'[e] = queue[e]
           /\ UNCHANGED <<alive, owner, disk, bindings, nextToken, inflight, ingress, front, budget, lease>>
  <1> USE NoneAssumption
  <1> DEFINE x == [queue[d] EXCEPT !.pc = "process"]
  <1>1. /\ work[d] = None /\ queue[d] # None /\ work' = [work EXCEPT ![d] = x]
        /\ queue' = [queue EXCEPT ![d] = None]
    BY DEF Take
  <1>2. queue[d] \in Requests
    BY <1>1 DEF TypeInv, Slots
  <1>3. /\ x \in Requests /\ x.pc = "process" /\ x.id = queue[d].id /\ x.domain = queue[d].domain
        /\ x.op = queue[d].op /\ x.owner = queue[d].owner /\ x.token = queue[d].token
        /\ x.previous = queue[d].previous /\ x.reply = queue[d].reply
    BY <1>2, Advance DEF Pcs
  <1> HIDE DEF x
  <1>4. /\ work' \in [Domains -> Slots] /\ work'[d] = x
        /\ \A e \in Domains \ {d} : work'[e] = work[e]
    BY <1>1, <1>3 DEF TypeInv, Slots
  <1>5. /\ queue' \in [Domains -> Slots] /\ queue'[d] = None
        /\ \A e \in Domains \ {d} : queue'[e] = queue[e]
    BY <1>1 DEF TypeInv, Slots
  <1>6. QED
    BY <1>1, <1>2, <1>3, <1>4, <1>5 DEF Take, Same, service, router, charge

\* The domain's thread goes to its next step.
LEMMA WorkShape ==
    ASSUME TypeInv, NEW d \in Domains, work[d] # None, NEW pc \in Pcs,
           work' = [work EXCEPT ![d].pc = pc]
    PROVE  Works(d) /\ work'[d].pc = pc /\ work'[d].ok = work[d].ok
  <1> USE NoneAssumption
  <1> DEFINE x == [work[d] EXCEPT !.pc = pc]
  <1>1. work[d] \in Requests /\ work \in [Domains -> Slots]
    BY DEF TypeInv, Slots
  <1>2. /\ x \in Requests /\ x.pc = pc /\ x.id = work[d].id /\ x.domain = work[d].domain
        /\ x.op = work[d].op /\ x.owner = work[d].owner /\ x.token = work[d].token
        /\ x.previous = work[d].previous /\ x.ok = work[d].ok /\ x.reply = work[d].reply
    BY <1>1, Advance
  <1>3. work' = [work EXCEPT ![d] = x]
    OBVIOUS
  <1> HIDE DEF x
  <1>4. /\ work' \in [Domains -> Slots] /\ work'[d] = x
        /\ \A e \in Domains \ {d} : work'[e] = work[e]
    BY <1>1, <1>2, <1>3 DEF Slots
  <1>5. QED
    BY <1>1, <1>2, <1>4 DEF Works, Same

\* The domain's service completes the operation, or fails.
LEMMA ProcessShape ==
    ASSUME TypeInv, NEW d \in Domains, Process(d)
    PROVE  /\ Works(d) /\ work[d].pc = "process"
           /\ \/ /\ work[d].op = "acquire" => ~OwnerLives(d) /\ work[d].owner.proc \in alive
                 /\ owner' = IF work[d].op = "acquire" THEN [owner EXCEPT ![d] = work[d].owner]
                             ELSE owner
                 /\ disk' = [disk EXCEPT ![d] = owner'[d]]
                 /\ work'[d].ok = TRUE /\ work'[d].pc = "release"
              \/ /\ work'[d].pc = (IF work[d].op = "acquire" THEN "undo" ELSE "release")
                 /\ UNCHANGED owner
                 /\ \/ disk' = disk
                    \/ /\ work[d].op = "acquire" => ~OwnerLives(d)
                       /\ disk' = [disk EXCEPT ![d] = IF work[d].op = "acquire"
                                                      THEN work[d].owner ELSE owner[d]]
           /\ UNCHANGED <<alive, bindings, nextToken, inflight, ingress, front, queue, budget, lease>>
  <1> USE NoneAssumption
  <1> DEFINE may == work[d].op = "acquire" => ~OwnerLives(d) /\ work[d].owner.proc \in alive
             next == IF work[d].op = "acquire" THEN work[d].owner ELSE owner[d]
  <1>1. work[d] # None /\ work[d].pc = "process" /\ work[d] \in Requests
        /\ work \in [Domains -> Slots] /\ owner \in [Domains -> Owners \cup {None}]
    BY DEF Process, Busy, TypeInv, Slots
  <1>2. CASE /\ may
             /\ owner' = [owner EXCEPT ![d] = next]
             /\ disk' = [disk EXCEPT ![d] = next]
             /\ work' = [work EXCEPT ![d].ok = TRUE, ![d].pc = "release"]
    <2> DEFINE x == [work[d] EXCEPT !.ok = TRUE, !.pc = "release"]
    <2>1. /\ x \in Requests /\ x.pc = "release" /\ x.id = work[d].id /\ x.domain = work[d].domain
          /\ x.op = work[d].op /\ x.owner = work[d].owner /\ x.token = work[d].token
          /\ x.previous = work[d].previous /\ x.ok = TRUE /\ x.reply = work[d].reply
      BY <1>1 DEF Requests
    <2>2. work' = [work EXCEPT ![d] = x]
      BY <1>1, <1>2
    <2> HIDE DEF x
    <2>3. /\ work' \in [Domains -> Slots] /\ work'[d] = x
          /\ \A e \in Domains \ {d} : work'[e] = work[e]
      BY <1>1, <2>1, <2>2 DEF Slots
    <2>4. /\ owner'[d] = next
          /\ owner' = IF work[d].op = "acquire" THEN [owner EXCEPT ![d] = work[d].owner] ELSE owner
      BY <1>1, <1>2
    <2>5. QED
      BY <1>1, <1>2, <2>1, <2>3, <2>4 DEF Works, Same, Process, router, charge
  <1>3. CASE /\ work' = [work EXCEPT ![d].pc = IF work[d].op = "acquire" THEN "undo" ELSE "release"]
             /\ UNCHANGED owner
             /\ disk' = disk \/ (may /\ disk' = [disk EXCEPT ![d] = next])
    <2>1. Works(d) /\ work'[d].pc = (IF work[d].op = "acquire" THEN "undo" ELSE "release")
      BY <1>1, <1>3, WorkShape DEF Pcs
    <2>2. QED
      BY <1>1, <1>3, <2>1 DEF Process, service, router, charge
  <1>4. QED
    BY <1>2, <1>3 DEF Process

\* The domain's thread takes its reservation back: it is still in the table.
LEMMA WorkerUndoShape ==
    ASSUME TypeInv, PlaceInv, HoldInv, NEW d \in Domains, WorkerUndo(d)
    PROVE  /\ Works(d) /\ work[d].pc = "undo" /\ work[d].op = "acquire" /\ Holds(work[d], d)
           /\ work'[d].pc = "release" /\ work'[d].ok = work[d].ok
           /\ bindings' = [bindings EXCEPT ![d] = work[d].previous]
           /\ UNCHANGED <<alive, owner, disk, nextToken, inflight, ingress, front, queue, budget, lease>>
  <1> USE NoneAssumption
  <1>1. work[d] # None /\ work[d].pc = "undo" /\ work' = [work EXCEPT ![d].pc = "release"]
    BY DEF WorkerUndo, Busy
  <1>2. Works(d) /\ work'[d].pc = "release" /\ work'[d].ok = work[d].ok
    BY <1>1, WorkShape DEF Pcs
  <1>3. work[d].op = "acquire" /\ work[d].domain = d /\ Holds(work[d], d)
    BY <1>1 DEF PlaceInv, HoldInv
  <1>4. bindings[d] # None /\ bindings[d].token = work[d].token
    <2>1. bindings[d] = [owner |-> work[d].owner, token |-> work[d].token]
      BY <1>3 DEF Holds
    <2>2. work[d].owner \in Owners /\ work[d].token \in Nat
      BY <1>1, <1>2, <1>3 DEF PlaceInv, Works, Requests
    <2>3. bindings[d] \in Bindings
      BY <2>1, <2>2 DEF Bindings
    <2>4. QED
      BY <2>1, <2>3
  <1>5. bindings' = [bindings EXCEPT ![d] = work[d].previous]
    BY <1>3, <1>4 DEF WorkerUndo, Undo
  <1>6. QED
    BY <1>1, <1>2, <1>3, <1>5 DEF WorkerUndo, service, charge

\* The claim and the worker's half of the permit are given back.
LEMMA ReleaseShape ==
    ASSUME TypeInv, NEW d \in Domains, Release(d)
    PROVE  /\ Works(d) /\ work[d].pc = "release" /\ work'[d].pc = "reply"
           /\ work'[d].ok = work[d].ok
           /\ inflight' = [inflight EXCEPT ![d] = FALSE]
           /\ work[d].id \in Permits /\ Returns(work[d].id, "worker")
           /\ UNCHANGED <<alive, owner, disk, bindings, nextToken, ingress, front, queue>>
  <1>1. work[d] # None /\ work[d].pc = "release" /\ work' = [work EXCEPT ![d].pc = "reply"]
    BY DEF Release, Busy
  <1>2. Works(d) /\ work'[d].pc = "reply" /\ work'[d].ok = work[d].ok
    BY <1>1, WorkShape DEF Pcs
  <1>3. work[d].id \in Permits
    BY <1>2 DEF Works, Requests
  <1>4. Returns(work[d].id, "worker")
    BY <1>3, DropShape DEF Release
  <1>5. QED
    BY <1>1, <1>2, <1>3, <1>4 DEF Release, service

\* The thread that waits, if one does, gets the result.
LEMMA ReplyShape ==
    ASSUME TypeInv, LinkInv, NEW d \in Domains, Reply(d)
    PROVE  /\ work[d] # None /\ work[d] \in Requests /\ work[d].pc = "reply"
           /\ work' \in [Domains -> Slots] /\ work'[d] = None
           /\ \A e \in Domains \ {d} : work'[e] = work[e]
           /\ \/ work[d].reply = None /\ UNCHANGED front
              \/ LET f == work[d].reply
                 IN /\ f \in Fronts /\ front[f] \in Requests /\ Awaited(f, work[d]) /\ Moves(f)
                    /\ \/ ~work[d].ok /\ work[d].op = "acquire" /\ front'[f].pc = "undo"
                          /\ Same(front[f], front'[f]) /\ front'[f].token = front[f].token
                       \/ front'[f].pc = "answer"
           /\ UNCHANGED <<alive, owner, disk, bindings, nextToken, inflight, ingress, queue, budget, lease>>
  <1> USE NoneAssumption
  <1>1. /\ work[d] # None /\ work[d].pc = "reply" /\ work[d] \in Requests
        /\ work' = [work EXCEPT ![d] = None] /\ work \in [Domains -> Slots]
    BY DEF Reply, Busy, TypeInv, Slots
  <1>2. /\ work' \in [Domains -> Slots] /\ work'[d] = None
        /\ \A e \in Domains \ {d} : work'[e] = work[e]
    BY <1>1 DEF Slots
  <1>3. CASE work[d].reply = None
    BY <1>1, <1>2, <1>3 DEF Reply, service, router, charge
  <1>4. CASE work[d].reply # None
    <2> DEFINE f == work[d].reply
               pc == IF ~work[d].ok /\ work[d].op = "acquire" THEN "undo" ELSE "answer"
    <2>1. f \in Fronts /\ Step(f, pc)
      BY <1>1, <1>4 DEF Reply, Requests
    <2>2. Awaited(f, work[d])
      BY <1>1, <1>4 DEF LinkInv
    <2>3. front[f] \in Requests
      BY <2>1, <2>2, FrontRequest DEF Awaited
    <2>4. /\ Moves(f) /\ front'[f].pc = pc
          /\ pc # "answer" => Same(front[f], front'[f]) /\ front'[f].token = front[f].token
      BY <2>1, <2>3, StepShape DEF Pcs
    <2>5. QED
      BY <1>1, <1>2, <2>1, <2>2, <2>3, <2>4 DEF Reply, service, router, charge
  <1>5. QED
    BY <1>3, <1>4

\* What Bind does to the table.
LEMMA BindTable ==
    ASSUME TypeInv, PlaceInv, NEW f \in Fronts, Bind(f), NEW d \in Domains, d = front[f].domain
    PROVE  /\ \A e \in Domains \ {d} : bindings'[e] = bindings[e]
           /\ \/ bindings' = bindings
              \/ /\ Bindable(d, front[f].owner) /\ bindings'[d] # None
                 /\ bindings'[d].owner = front[f].owner /\ bindings'[d].token = nextToken
  <1> USE NoneAssumption
  <1> DEFINE b == [owner |-> front[f].owner, token |-> nextToken]
  <1>1. \/ bindings' = bindings
        \/ Bindable(d, front[f].owner) /\ bindings' = [bindings EXCEPT ![d] = b]
    BY BindShape
  <1>2. b \in Bindings /\ b.owner = front[f].owner /\ b.token = nextToken
    BY BindShape DEF TypeInv, Bindings
  <1>3. bindings \in [Domains -> Bindings \cup {None}]
    BY DEF TypeInv
  <1> HIDE DEF b
  <1>4. QED
    BY <1>1, <1>2, <1>3

\* After a restart nothing is on its way, and live journaled owners are
\* bound.
LEMMA RestartShape ==
    ASSUME TypeInv, Restart
    PROVE  /\ \A f \in Fronts : front'[f] = None
           /\ \A d \in Domains :
                 /\ queue'[d] = None /\ work'[d] = None /\ inflight'[d] = FALSE
                 /\ Journaled(d) => /\ bindings'[d] # None /\ bindings'[d].owner = disk[d]
                                     /\ bindings'[d].token = 0
                 /\ ~Journaled(d) => bindings'[d] = None
           /\ \A d, e \in Domains :
                 d # e /\ Journaled(d) /\ Journaled(e) => ~Conflict(disk[d], disk[e])
           /\ front' \in [Fronts -> Tasks]
           /\ queue' \in [Domains -> Slots] /\ work' \in [Domains -> Slots]
           /\ inflight' \in [Domains -> BOOLEAN] /\ bindings' \in [Domains -> Bindings \cup {None}]
           /\ nextToken' = 1 /\ ingress' = <<>>
           /\ budget' = [requests |-> 0, bytes |-> 0] /\ lease' \in [Permits -> Leases]
           /\ \A r \in Permits : lease'[r].by = {}
           /\ owner' = disk /\ UNCHANGED <<alive, disk>>
  <1>1. \A d \in Domains : Journaled(d) => [owner |-> disk[d], token |-> 0] \in Bindings
    BY DEF TypeInv, Journaled, Bindings
  <1>2. bindings' \in [Domains -> Bindings \cup {None}]
    BY <1>1 DEF Restart
  <1>3. ASSUME NEW d \in Domains
        PROVE  /\ Journaled(d) => /\ bindings'[d] # None /\ bindings'[d].owner = disk[d]
                                  /\ bindings'[d].token = 0
               /\ ~Journaled(d) => bindings'[d] = None
    <2>1. bindings'[d] = IF Journaled(d) THEN [owner |-> disk[d], token |-> 0] ELSE None
      BY DEF Restart
    <2>2. QED
      BY <1>1, <2>1, NoneAssumption
  <1>4. [bytes |-> 0, by |-> {}] \in Leases
    BY DEF Leases
  <1>5. lease' \in [Permits -> Leases] /\ \A r \in Permits : lease'[r].by = {}
    BY <1>4 DEF Restart, Uncharged
  <1>6. QED
    BY <1>2, <1>3, <1>5 DEF Restart, Idle, Free, Tasks, Slots

-----------------------------------------------------------------------------
(* Every action keeps the invariant                                        *)

\* Every variable keeps its type.
LEMMA TypeStep ==
    ASSUME Inv, Next
    PROVE  TypeInv'
  <1> USE NoneAssumption
  <1>0. /\ TypeInv /\ PlaceInv /\ ClaimInv /\ LinkInv /\ HoldInv /\ SpentInv
        /\ TableInv /\ PermitInv /\ CountInv /\ OwnerIsBound
    BY DEF Inv
  <1>1. CASE Dispatch
    <2>1. PICK r \in Permits :
             /\ ingress' = Append(ingress, r)
             /\ budget' = [requests |-> budget.requests + 1, bytes |-> budget.bytes + 1]
             /\ lease' \in [Permits -> Leases]
             /\ UNCHANGED <<alive, owner, disk, bindings, nextToken, inflight, front, queue, work>>
      BY <1>0, <1>1, DispatchShape
    <2>2. ingress' \in Seq(Permits)
      BY <1>0, <2>1 DEF TypeInv
    <2>3. budget' \in [requests : Int, bytes : Int]
      BY <1>0, <2>1 DEF TypeInv
    <2>4. QED
      BY <1>0, <2>1, <2>2, <2>3 DEF TypeInv
  <1>2. CASE Restart
    <2>1. ingress' \in Seq(Permits) /\ budget' \in [requests : Int, bytes : Int] /\ nextToken' = 1
      BY <1>0, <1>2, RestartShape
    <2>2. /\ front' \in [Fronts -> Tasks] /\ alive' = alive /\ owner' = disk /\ disk' = disk
          /\ queue' \in [Domains -> Slots] /\ work' \in [Domains -> Slots]
          /\ inflight' \in [Domains -> BOOLEAN] /\ bindings' \in [Domains -> Bindings \cup {None}]
          /\ lease' \in [Permits -> Leases]
      BY <1>0, <1>2, RestartShape
    <2>3. QED
      BY <1>0, <2>1, <2>2 DEF TypeInv
  <1>3. ASSUME NEW f \in Fronts, Receive(f) PROVE TypeInv'
    <2>1. ingress \in Seq(Permits) /\ ingress # <<>> /\ ingress' = Tail(ingress)
      BY <1>0, <1>3, ReceiveShape DEF TypeInv
    <2>2. ingress' \in Seq(Permits)
      BY <2>1
    <2>3. QED
      BY <1>0, <1>3, <2>2, ReceiveShape DEF TypeInv
  <1>4. ASSUME NEW f \in Fronts, Claim(f) PROVE TypeInv'
    BY <1>0, <1>4, ClaimShape, ZenonT(30) DEF TypeInv, Moves, Works, Same, Returns
  <1>5. ASSUME NEW f \in Fronts, Bind(f) PROVE TypeInv'
    <2>1. /\ front[f].domain \in Domains /\ front[f].owner \in Owners
          /\ nextToken' = nextToken + 1 /\ front' \in [Fronts -> Tasks]
          /\ UNCHANGED <<alive, owner, disk, ingress, queue, work, budget, lease>>
      BY <1>0, <1>5, BindShape DEF Requests, Moves
    <2> DEFINE b == [owner |-> front[f].owner, token |-> nextToken]
    <2>2. b \in Bindings
      BY <1>0, <2>1 DEF TypeInv, Bindings
    <2>3. /\ inflight' = inflight \/ inflight' = [inflight EXCEPT ![front[f].domain] = FALSE]
          /\ bindings' = bindings
             \/ bindings' = [bindings EXCEPT ![front[f].domain] = b]
      BY <1>0, <1>5, BindShape
    <2> HIDE DEF b
    <2>4. bindings \in [Domains -> Bindings \cup {None}] /\ inflight \in [Domains -> BOOLEAN]
      BY <1>0 DEF TypeInv
    <2>5. bindings' \in [Domains -> Bindings \cup {None}]
      BY <2>1, <2>2, <2>3, <2>4
    <2>6. inflight' \in [Domains -> BOOLEAN]
      BY <2>1, <2>3, <2>4
    <2>7. QED
      BY <1>0, <2>1, <2>5, <2>6 DEF TypeInv
  <1>6. ASSUME NEW f \in Fronts, Send(f) PROVE TypeInv'
    BY <1>0, <1>6, SendShape DEF TypeInv, Moves, Works, Same, Returns
  <1>7. ASSUME NEW f \in Fronts, Timeout(f) PROVE TypeInv'
    BY <1>0, <1>7, TimeoutShape DEF TypeInv, Moves, Works, Same, Returns
  <1>8. ASSUME NEW f \in Fronts, FrontUndo(f) PROVE TypeInv'
    BY <1>0, <1>8, FrontUndoShape DEF TypeInv, Moves, Works, Same, Returns
  <1>9. ASSUME NEW f \in Fronts, Answer(f) PROVE TypeInv'
    BY <1>0, <1>9, AnswerShape DEF TypeInv, Moves, Works, Same, Returns
  <1>10. ASSUME NEW d \in Domains, Take(d) PROVE TypeInv'
    BY <1>0, <1>10, TakeShape DEF TypeInv, Moves, Works, Same, Returns
  <1>11. ASSUME NEW d \in Domains, Process(d) PROVE TypeInv'
    <2>1. work[d].op = "acquire" => work[d].owner \in Owners
      BY <1>0, <1>11, ProcessShape DEF Works, PlaceInv, Requests
    <2>2. \/ owner' = owner
          \/ work[d].op = "acquire" /\ owner' = [owner EXCEPT ![d] = work[d].owner]
      BY <1>0, <1>11, ProcessShape
    <2>3. owner' \in [Domains -> Owners \cup {None}]
      BY <1>0, <2>1, <2>2 DEF TypeInv
    <2>4. work' \in [Domains -> Slots]
      BY <1>0, <1>11, ProcessShape DEF Works
    <2>5. disk' \in [Domains -> Owners \cup {None}]
      <3>1. \E o : (o \in Owners \cup {None}) /\ disk' \in {disk, [disk EXCEPT ![d] = o]}
        BY <1>0, <1>11, <2>1, <2>3, ProcessShape DEF TypeInv
      <3>2. QED
        BY <1>0, <3>1 DEF TypeInv
    <2>6. QED
      BY <1>0, <1>11, <2>3, <2>4, <2>5, ProcessShape DEF TypeInv
  <1>12. ASSUME NEW d \in Domains, WorkerUndo(d) PROVE TypeInv'
    <2>1. work[d].previous \in Bindings \cup {None} /\ work' \in [Domains -> Slots]
      BY <1>0, <1>12, WorkerUndoShape DEF Works, Requests
    <2>2. bindings' \in [Domains -> Bindings \cup {None}]
      BY <1>0, <1>12, <2>1, WorkerUndoShape DEF TypeInv
    <2>3. QED
      BY <1>0, <1>12, <2>1, <2>2, WorkerUndoShape DEF TypeInv
  <1>13. ASSUME NEW d \in Domains, Release(d) PROVE TypeInv'
    <2>1. inflight' \in [Domains -> BOOLEAN] /\ work' \in [Domains -> Slots]
      BY <1>0, <1>13, ReleaseShape DEF TypeInv, Works
    <2>2. QED
      BY <1>0, <1>13, <2>1, ReleaseShape DEF TypeInv, Returns
  <1>14. ASSUME NEW d \in Domains, Reply(d) PROVE TypeInv'
    BY <1>0, <1>14, ReplyShape DEF TypeInv, Moves, Works, Same, Returns
  <1>15. ASSUME NEW p \in Procs, Dies(p) PROVE TypeInv'
    BY <1>0, <1>15 DEF TypeInv, Moves, Works, Same, Returns, Dies, service, router, charge
  <1>16. QED
    BY <1>1, <1>2, <1>3, <1>4, <1>5, <1>6, <1>7, <1>8, <1>9, <1>10, <1>11, <1>12, <1>13, <1>14, <1>15 DEF Next, Front, Worker

\* Every request stays where its step is taken.
LEMMA PlaceStep ==
    ASSUME Inv, Next
    PROVE  PlaceInv'
  <1> USE NoneAssumption
  <1>0. /\ TypeInv /\ PlaceInv /\ ClaimInv /\ LinkInv /\ HoldInv /\ SpentInv
        /\ TableInv /\ PermitInv /\ CountInv /\ OwnerIsBound
    BY DEF Inv
  <1>1. CASE Dispatch
    BY <1>0, <1>1, DispatchShape DEF PlaceInv, Moves, Works, Same, Forgets
  <1>2. CASE Restart
    BY <1>0, <1>2, RestartShape DEF PlaceInv, Moves, Works, Same, Forgets
  <1>3. ASSUME NEW f \in Fronts, Receive(f) PROVE PlaceInv'
    BY <1>0, <1>3, ReceiveShape DEF PlaceInv, Moves, Works, Same, Forgets
  <1>4. ASSUME NEW f \in Fronts, Claim(f) PROVE PlaceInv'
    BY <1>0, <1>4, ClaimShape DEF PlaceInv, Moves, Works, Same, Forgets
  <1>5. ASSUME NEW f \in Fronts, Bind(f) PROVE PlaceInv'
    <2>1. /\ front'[f] # None /\ front'[f].pc \in {"send", "answer"}
          /\ front'[f].pc = "send" => front'[f].owner # None
          /\ \A g \in Fronts \ {f} : front'[g] = front[g]
          /\ queue' = queue /\ work' = work
      BY <1>0, <1>5, BindShape, ZenonT(30) DEF Moves, Same
    <2>2. QED
      BY <1>0, <2>1 DEF PlaceInv
  <1>6. ASSUME NEW f \in Fronts, Send(f) PROVE PlaceInv'
    BY <1>0, <1>6, SendShape DEF PlaceInv, Moves, Works, Same, Forgets
  <1>7. ASSUME NEW f \in Fronts, Timeout(f) PROVE PlaceInv'
    BY <1>0, <1>7, TimeoutShape DEF PlaceInv, Moves, Works, Same, Forgets
  <1>8. ASSUME NEW f \in Fronts, FrontUndo(f) PROVE PlaceInv'
    BY <1>0, <1>8, FrontUndoShape DEF PlaceInv, Moves, Works, Same, Forgets
  <1>9. ASSUME NEW f \in Fronts, Answer(f) PROVE PlaceInv'
    BY <1>0, <1>9, AnswerShape DEF PlaceInv, Moves, Works, Same, Forgets
  <1>10. ASSUME NEW d \in Domains, Take(d) PROVE PlaceInv'
    BY <1>0, <1>10, TakeShape DEF PlaceInv, Moves, Works, Same, Forgets
  <1>11. ASSUME NEW d \in Domains, Process(d) PROVE PlaceInv'
    <2>1. /\ work[d] # None /\ work'[d].domain = work[d].domain /\ work'[d].op = work[d].op
          /\ work'[d].owner = work[d].owner /\ work'[d].pc \in {"undo", "release"}
          /\ work'[d].pc = "undo" => work[d].op = "acquire"
          /\ \A e \in Domains \ {d} : work'[e] = work[e]
          /\ queue' = queue /\ front' = front
      BY <1>0, <1>11, ProcessShape DEF Works, Same
    <2>2. QED
      BY <1>0, <2>1 DEF PlaceInv
  <1>12. ASSUME NEW d \in Domains, WorkerUndo(d) PROVE PlaceInv'
    BY <1>0, <1>12, WorkerUndoShape DEF PlaceInv, Moves, Works, Same, Forgets
  <1>13. ASSUME NEW d \in Domains, Release(d) PROVE PlaceInv'
    BY <1>0, <1>13, ReleaseShape DEF PlaceInv, Moves, Works, Same, Forgets
  <1>14. ASSUME NEW d \in Domains, Reply(d) PROVE PlaceInv'
    <2>1. /\ work'[d] = None /\ \A e \in Domains \ {d} : work'[e] = work[e]
          /\ queue' = queue
      BY <1>0, <1>14, ReplyShape
    <2>2. \/ front' = front
          \/ \E f \in Fronts :
                /\ front[f] # None /\ front[f].pc = "wait" /\ front'[f] # None
                /\ \A g \in Fronts \ {f} : front'[g] = front[g]
                /\ \/ front'[f].pc = "answer"
                   \/ /\ front'[f].pc = "undo" /\ front[f].op = "acquire"
                      /\ front'[f].op = front[f].op /\ front'[f].owner = front[f].owner
      BY <1>0, <1>14, ReplyShape DEF Moves, Same, Awaited
    <2>3. QED
      BY <1>0, <2>1, <2>2 DEF PlaceInv
  <1>15. ASSUME NEW p \in Procs, Dies(p) PROVE PlaceInv'
    BY <1>0, <1>15 DEF PlaceInv, Moves, Works, Same, Forgets, Dies, service, router, charge
  <1>16. QED
    BY <1>1, <1>2, <1>3, <1>4, <1>5, <1>6, <1>7, <1>8, <1>9, <1>10, <1>11, <1>12, <1>13, <1>14, <1>15 DEF Next, Front, Worker

\* A domain that is claimed has one claimant.
LEMMA ClaimStep ==
    ASSUME Inv, Next
    PROVE  ClaimInv'
  <1> USE NoneAssumption
  <1>0. /\ TypeInv /\ PlaceInv /\ ClaimInv /\ LinkInv /\ HoldInv /\ SpentInv
        /\ TableInv /\ PermitInv /\ CountInv /\ OwnerIsBound
    BY DEF Inv
  <1>1. CASE Dispatch
    BY <1>0, <1>1, DispatchShape DEF ClaimInv, Claims, Busied, PlaceInv, Moves, Works, Same, Forgets
  <1>2. CASE Restart
    BY <1>0, <1>2, RestartShape DEF ClaimInv, Claims, Busied, PlaceInv, Moves, Works, Same, Forgets
  <1>3. ASSUME NEW f \in Fronts, Receive(f) PROVE ClaimInv'
    BY <1>0, <1>3, ReceiveShape DEF ClaimInv, Claims, Busied, PlaceInv, Moves, Works, Same, Forgets
  <1>4. ASSUME NEW f \in Fronts, Claim(f) PROVE ClaimInv'
    <2> DEFINE d == front[f].domain
    <2>1. /\ d \in Domains /\ front[f].pc = "claim" /\ queue' = queue /\ work' = work
          /\ \A g \in Fronts \ {f} : front'[g] = front[g]
          /\ inflight \in [Domains -> BOOLEAN]
      BY <1>0, <1>4, ClaimShape DEF Moves, Requests, TypeInv
    <2>2. \/ front'[f].pc = "answer" /\ inflight' = inflight
          \/ /\ ~inflight[d] /\ inflight' = [inflight EXCEPT ![d] = TRUE]
             /\ front'[f] # None /\ front'[f].pc \in {"reserve", "send"} /\ front'[f].domain = d
      BY <1>0, <1>4, ClaimShape DEF Moves, Same
    <2>3. CASE front'[f].pc = "answer" /\ inflight' = inflight
      BY <1>0, <2>1, <2>3 DEF ClaimInv, Claims, Busied
    <2>4. CASE /\ ~inflight[d] /\ inflight' = [inflight EXCEPT ![d] = TRUE]
               /\ front'[f] # None /\ front'[f].pc \in {"reserve", "send"} /\ front'[f].domain = d
      <3>1. inflight'[d] /\ \A e \in Domains \ {d} : inflight'[e] = inflight[e]
        BY <2>1, <2>4
      <3>2. QED
        BY <1>0, <2>1, <2>4, <3>1 DEF ClaimInv, Claims, Busied
    <2>5. QED
      BY <2>2, <2>3, <2>4
  <1>5. ASSUME NEW f \in Fronts, Bind(f) PROVE ClaimInv'
    <2> DEFINE d == front[f].domain
    <2>1. /\ d \in Domains /\ Claims(f, d) /\ queue' = queue /\ work' = work
          /\ \A g \in Fronts \ {f} : front'[g] = front[g]
          /\ inflight \in [Domains -> BOOLEAN]
      BY <1>0, <1>5, BindShape DEF Moves, Requests, TypeInv, Claims
    <2>2. \/ front'[f].pc = "answer" /\ inflight' = [inflight EXCEPT ![d] = FALSE]
          \/ /\ inflight' = inflight
             /\ front'[f] # None /\ front'[f].pc \in {"reserve", "send"} /\ front'[f].domain = d
      BY <1>0, <1>5, BindShape DEF Moves, Same
    <2>3. CASE front'[f].pc = "answer" /\ inflight' = [inflight EXCEPT ![d] = FALSE]
      <3>1. ~inflight'[d] /\ \A e \in Domains \ {d} : inflight'[e] = inflight[e]
        BY <2>1, <2>3
      <3>2. QED
        BY <1>0, <2>1, <2>3, <3>1 DEF ClaimInv, Claims, Busied
    <2>4. CASE /\ inflight' = inflight
               /\ front'[f] # None /\ front'[f].pc \in {"reserve", "send"} /\ front'[f].domain = d
      BY <1>0, <2>1, <2>4 DEF ClaimInv, Claims, Busied
    <2>5. QED
      BY <2>2, <2>3, <2>4
  <1>6. ASSUME NEW f \in Fronts, Send(f) PROVE ClaimInv'
    BY <1>0, <1>6, SendShape, SMTT(30) DEF ClaimInv, Claims, Busied, PlaceInv, Moves, Works, Same, Forgets
  <1>7. ASSUME NEW f \in Fronts, Timeout(f) PROVE ClaimInv'
    BY <1>0, <1>7, TimeoutShape DEF ClaimInv, Claims, Busied, PlaceInv, Moves, Works, Same, Forgets
  <1>8. ASSUME NEW f \in Fronts, FrontUndo(f) PROVE ClaimInv'
    BY <1>0, <1>8, FrontUndoShape DEF ClaimInv, Claims, Busied, PlaceInv, Moves, Works, Same, Forgets
  <1>9. ASSUME NEW f \in Fronts, Answer(f) PROVE ClaimInv'
    BY <1>0, <1>9, AnswerShape DEF ClaimInv, Claims, Busied, PlaceInv, Moves, Works, Same, Forgets
  <1>10. ASSUME NEW d \in Domains, Take(d) PROVE ClaimInv'
    BY <1>0, <1>10, TakeShape DEF ClaimInv, Claims, Busied, PlaceInv, Moves, Works, Same, Forgets
  <1>11. ASSUME NEW d \in Domains, Process(d) PROVE ClaimInv'
    <2>1. /\ work[d] # None /\ work[d].pc = "process" /\ work'[d] # None
          /\ work'[d].pc \in {"undo", "release"} /\ \A e \in Domains \ {d} : work'[e] = work[e]
          /\ queue' = queue /\ front' = front /\ inflight' = inflight
      BY <1>0, <1>11, ProcessShape DEF Works, Same
    <2>2. QED
      BY <1>0, <2>1 DEF ClaimInv, Claims, Busied
  <1>12. ASSUME NEW d \in Domains, WorkerUndo(d) PROVE ClaimInv'
    BY <1>0, <1>12, WorkerUndoShape DEF ClaimInv, Claims, Busied, PlaceInv, Moves, Works, Same, Forgets
  <1>13. ASSUME NEW d \in Domains, Release(d) PROVE ClaimInv'
    <2>1. /\ Busied(d) /\ ~Busied(d)' /\ \A e \in Domains \ {d} : work'[e] = work[e]
          /\ queue' = queue /\ front' = front
      BY <1>0, <1>13, ReleaseShape DEF Works, Same, Busied
    <2>2. ~inflight'[d] /\ \A e \in Domains \ {d} : inflight'[e] = inflight[e]
      BY <1>0, <1>13, ReleaseShape DEF TypeInv
    <2>3. \A e \in Domains \ {d} : Busied(e)' = Busied(e)
      BY <2>1 DEF Busied
    <2>4. queue[d] = None /\ \A f \in Fronts : ~Claims(f, d)
      BY <1>0, <2>1 DEF ClaimInv
    <2>5. \A f \in Fronts, e \in Domains : Claims(f, e)' = Claims(f, e)
      BY <2>1 DEF Claims
    <2>6. QED
      BY <1>0, <2>1, <2>2, <2>3, <2>4, <2>5 DEF ClaimInv
  <1>14. ASSUME NEW d \in Domains, Reply(d) PROVE ClaimInv'
    <2>1. /\ ~Busied(d) /\ ~Busied(d)' /\ \A e \in Domains \ {d} : work'[e] = work[e]
          /\ queue' = queue /\ inflight' = inflight
      BY <1>0, <1>14, ReplyShape DEF Busied
    <2>2. \A e \in Domains : Busied(e)' = Busied(e)
      BY <2>1 DEF Busied
    <2>3. \/ front' = front
          \/ \E f \in Fronts :
                /\ front[f].pc = "wait" /\ front'[f].pc \in {"answer", "undo"}
                /\ \A g \in Fronts \ {f} : front'[g] = front[g]
      BY <1>0, <1>14, ReplyShape DEF Moves, Awaited
    <2>4. \A f \in Fronts, e \in Domains : Claims(f, e)' = Claims(f, e)
      BY <2>3 DEF Claims
    <2>5. QED
      BY <1>0, <2>1, <2>2, <2>4 DEF ClaimInv
  <1>15. ASSUME NEW p \in Procs, Dies(p) PROVE ClaimInv'
    BY <1>0, <1>15 DEF ClaimInv, Claims, Busied, PlaceInv, Moves, Works, Same, Forgets, Dies, service, router, charge
  <1>16. QED
    BY <1>1, <1>2, <1>3, <1>4, <1>5, <1>6, <1>7, <1>8, <1>9, <1>10, <1>11, <1>12, <1>13, <1>14, <1>15 DEF Next, Front, Worker

\* A thread that does not wait is named by no request.
LEMMA LinkKept ==
    ASSUME TypeInv, LinkInv, NEW f \in Fronts, front[f] = None \/ front[f].pc # "wait",
           \A g \in Fronts \ {f} : front'[g] = front[g], queue' = queue, work' = work
    PROVE  LinkInv'
  <1>1. \A d \in Domains :
           /\ queue[d] # None /\ queue[d].reply # None => queue[d].reply \in Fronts \ {f}
           /\ work[d] # None /\ work[d].reply # None => work[d].reply \in Fronts \ {f}
    BY DEF TypeInv, Slots, Requests, LinkInv, Awaited
  <1>2. \A g \in Fronts \ {f} : \A r : Awaited(g, r)' = Awaited(g, r)
    BY DEF Awaited
  <1>3. QED
    BY <1>1, <1>2 DEF LinkInv, Awaited

\* A reply goes to the thread that waits for it.
LEMMA LinkStep ==
    ASSUME Inv, Next
    PROVE  LinkInv'
  <1> USE NoneAssumption
  <1>0. /\ TypeInv /\ PlaceInv /\ ClaimInv /\ LinkInv /\ HoldInv /\ SpentInv
        /\ TableInv /\ PermitInv /\ CountInv /\ OwnerIsBound
    BY DEF Inv
  <1>1. CASE Dispatch
    BY <1>0, <1>1, DispatchShape DEF LinkInv, Awaited, PlaceInv, Moves, Works, Same, Forgets
  <1>2. CASE Restart
    BY <1>0, <1>2, RestartShape DEF LinkInv, Awaited, PlaceInv, Moves, Works, Same, Forgets
  <1>3. ASSUME NEW f \in Fronts, Receive(f) PROVE LinkInv'
    <2>1. /\ front[f] = None /\ \A g \in Fronts \ {f} : front'[g] = front[g]
          /\ queue' = queue /\ work' = work
      BY <1>0, <1>3, ReceiveShape DEF Moves
    <2>2. QED
      BY <1>0, <2>1, LinkKept
  <1>4. ASSUME NEW f \in Fronts, Claim(f) PROVE LinkInv'
    <2>1. /\ front[f].pc = "claim" /\ \A g \in Fronts \ {f} : front'[g] = front[g]
          /\ queue' = queue /\ work' = work
      BY <1>0, <1>4, ClaimShape DEF Moves
    <2>2. QED
      BY <1>0, <2>1, LinkKept
  <1>5. ASSUME NEW f \in Fronts, Bind(f) PROVE LinkInv'
    <2>1. /\ front[f].pc = "reserve" /\ \A g \in Fronts \ {f} : front'[g] = front[g]
          /\ queue' = queue /\ work' = work
      BY <1>0, <1>5, BindShape DEF Moves
    <2>2. QED
      BY <1>0, <2>1, LinkKept
  <1>6. ASSUME NEW f \in Fronts, Send(f) PROVE LinkInv'
    <2>0. PICK d \in Domains : d = front[f].domain
      BY <1>0, <1>6, SendShape DEF Requests
    <2>1. /\ front[f].pc = "send" /\ work' = work
          /\ \A g \in Fronts \ {f} : front'[g] = front[g]
          /\ queue'[d].reply = f /\ Awaited(f, queue[d])'
          /\ \A e \in Domains \ {d} : queue'[e] = queue[e]
      BY <1>0, <1>6, <2>0, SendShape DEF Moves, Awaited, Same
    <2>2. \A e \in Domains :
             /\ queue[e] # None /\ queue[e].reply # None => queue[e].reply \in Fronts \ {f}
             /\ work[e] # None /\ work[e].reply # None => work[e].reply \in Fronts \ {f}
      BY <1>0, <2>1 DEF TypeInv, Slots, Requests, LinkInv, Awaited
    <2>3. \A g \in Fronts \ {f} : \A r : Awaited(g, r)' = Awaited(g, r)
      BY <2>1 DEF Awaited
    <2>4. ASSUME NEW e \in Domains, e # d
          PROVE  /\ queue'[e] # None /\ queue'[e].reply # None => Awaited(queue[e].reply, queue[e])'
                 /\ queue'[e] # None /\ work'[e] # None /\ queue'[e].reply # None
                       => queue'[e].reply # work'[e].reply
      BY <1>0, <2>1, <2>2, <2>3, <2>4 DEF LinkInv, Awaited
    <2>5. ASSUME NEW e \in Domains
          PROVE  work'[e] # None /\ work'[e].reply # None => Awaited(work[e].reply, work[e])'
      BY <1>0, <2>1, <2>2, <2>3 DEF LinkInv, Awaited
    <2>6. work'[d] # None => queue'[d].reply # work'[d].reply
      BY <2>1, <2>2
    <2>7. QED
      BY <2>1, <2>4, <2>5, <2>6 DEF LinkInv
  <1>7. ASSUME NEW f \in Fronts, Timeout(f) PROVE LinkInv'
    <2>1. /\ \A g \in Fronts \ {f} : front'[g] = front[g]
          /\ \A d \in Domains : Forgets(queue[d], queue'[d], f) /\ Forgets(work[d], work'[d], f)
      BY <1>0, <1>7, TimeoutShape DEF Moves
    <2>2. \A e \in Domains :
             /\ queue[e] # None /\ queue[e].reply # None => queue[e].reply \in Fronts
             /\ work[e] # None /\ work[e].reply # None => work[e].reply \in Fronts
      BY <1>0 DEF TypeInv, Slots, Requests
    <2>3. ASSUME NEW d \in Domains, queue'[d] # None, queue'[d].reply # None
          PROVE  Awaited(queue[d].reply, queue[d])' /\ queue'[d].reply = queue[d].reply
      BY <1>0, <2>1, <2>2, <2>3 DEF Forgets, Same, LinkInv, Awaited
    <2>4. ASSUME NEW d \in Domains, work'[d] # None, work'[d].reply # None
          PROVE  Awaited(work[d].reply, work[d])' /\ work'[d].reply = work[d].reply
      BY <1>0, <2>1, <2>2, <2>4 DEF Forgets, Same, LinkInv, Awaited
    <2>5. ASSUME NEW d \in Domains, queue'[d] # None, queue'[d].reply # None, work'[d] # None
          PROVE  queue'[d].reply # work'[d].reply
      BY <1>0, <2>1, <2>3, <2>5 DEF Forgets, LinkInv
    <2>6. QED
      BY <2>3, <2>4, <2>5 DEF LinkInv
  <1>8. ASSUME NEW f \in Fronts, FrontUndo(f) PROVE LinkInv'
    <2>1. /\ front[f].pc = "undo" /\ \A g \in Fronts \ {f} : front'[g] = front[g]
          /\ queue' = queue /\ work' = work
      BY <1>0, <1>8, FrontUndoShape DEF Moves
    <2>2. QED
      BY <1>0, <2>1, LinkKept
  <1>9. ASSUME NEW f \in Fronts, Answer(f) PROVE LinkInv'
    <2>1. /\ front[f].pc = "answer" /\ \A g \in Fronts \ {f} : front'[g] = front[g]
          /\ queue' = queue /\ work' = work
      BY <1>0, <1>9, AnswerShape DEF Moves
    <2>2. QED
      BY <1>0, <2>1, LinkKept
  <1>10. ASSUME NEW d \in Domains, Take(d) PROVE LinkInv'
    BY <1>0, <1>10, TakeShape DEF LinkInv, Awaited, PlaceInv, Moves, Works, Same, Forgets
  <1>11. ASSUME NEW d \in Domains, Process(d) PROVE LinkInv'
    <2>1. /\ work[d] # None /\ work'[d].reply = work[d].reply /\ work'[d].token = work[d].token
          /\ work'[d].op = work[d].op /\ work'[d].domain = work[d].domain
          /\ \A e \in Domains \ {d} : work'[e] = work[e]
          /\ queue' = queue /\ front' = front
      BY <1>0, <1>11, ProcessShape DEF Works, Same
    <2>2. QED
      BY <1>0, <2>1 DEF LinkInv, Awaited
  <1>12. ASSUME NEW d \in Domains, WorkerUndo(d) PROVE LinkInv'
    BY <1>0, <1>12, WorkerUndoShape DEF LinkInv, Awaited, PlaceInv, Moves, Works, Same, Forgets
  <1>13. ASSUME NEW d \in Domains, Release(d) PROVE LinkInv'
    BY <1>0, <1>13, ReleaseShape DEF LinkInv, Awaited, PlaceInv, Moves, Works, Same, Forgets
  <1>14. ASSUME NEW d \in Domains, Reply(d) PROVE LinkInv'
    <2>1. /\ work[d] # None /\ work'[d] = None /\ \A e \in Domains \ {d} : work'[e] = work[e]
          /\ queue' = queue
      BY <1>0, <1>14, ReplyShape
    <2>2. CASE front' = front
      BY <1>0, <2>1, <2>2 DEF LinkInv, Awaited
    <2>3. CASE front' # front
      <3> DEFINE f == work[d].reply
      <3>1. f \in Fronts /\ Awaited(f, work[d]) /\ \A g \in Fronts \ {f} : front'[g] = front[g]
        BY <1>0, <1>14, <2>3, ReplyShape DEF Moves
      <3>2. front[f].domain = d
        BY <1>0, <2>1, <3>1 DEF Awaited, PlaceInv
      <3>3. \A e \in Domains :
               /\ queue[e] # None /\ queue[e].reply # None => queue[e].reply \in Fronts \ {f}
               /\ e # d /\ work[e] # None /\ work[e].reply # None => work[e].reply \in Fronts \ {f}
        <4>1. \A e \in Domains :
                 /\ queue[e] # None /\ queue[e].reply # None => queue[e].reply \in Fronts
                 /\ work[e] # None /\ work[e].reply # None => work[e].reply \in Fronts
          BY <1>0 DEF TypeInv, Slots, Requests
        <4>2. \A e \in Domains :
                 /\ queue[e] # None /\ queue[e].reply = f => e = d
                 /\ work[e] # None /\ work[e].reply = f => e = d
          BY <1>0, <3>1, <3>2 DEF LinkInv, Awaited, PlaceInv
        <4>3. queue[d] # None /\ queue[d].reply # None => queue[d].reply # f
          BY <1>0, <2>1 DEF LinkInv
        <4>4. QED
          BY <4>1, <4>2, <4>3
      <3> HIDE DEF f
      <3>4. \A g \in Fronts \ {f} : \A r : Awaited(g, r)' = Awaited(g, r)
        BY <3>1 DEF Awaited
      <3>5. QED
        BY <1>0, <2>1, <3>1, <3>3, <3>4 DEF LinkInv, Awaited
    <2>4. QED
      BY <2>2, <2>3
  <1>15. ASSUME NEW p \in Procs, Dies(p) PROVE LinkInv'
    BY <1>0, <1>15 DEF LinkInv, Awaited, PlaceInv, Moves, Works, Same, Forgets, Dies, service, router, charge
  <1>16. QED
    BY <1>1, <1>2, <1>3, <1>4, <1>5, <1>6, <1>7, <1>8, <1>9, <1>10, <1>11, <1>12, <1>13, <1>14, <1>15 DEF Next, Front, Worker

\* Nobody takes the reservation of an undecided acquisition away.
LEMMA HoldStep ==
    ASSUME Inv, Next
    PROVE  HoldInv'
  <1> USE NoneAssumption
  <1>0. /\ TypeInv /\ PlaceInv /\ ClaimInv /\ LinkInv /\ HoldInv /\ SpentInv
        /\ TableInv /\ PermitInv /\ CountInv /\ OwnerIsBound
    BY DEF Inv
  <1>1. CASE Dispatch
    BY <1>0, <1>1, DispatchShape DEF HoldInv, Holds, OwnerLives, PlaceInv, Moves, Works, Same, Forgets
  <1>2. CASE Restart
    BY <1>0, <1>2, RestartShape DEF HoldInv, Holds, OwnerLives, PlaceInv, Moves, Works, Same, Forgets
  <1>3. ASSUME NEW f \in Fronts, Receive(f) PROVE HoldInv'
    BY <1>0, <1>3, ReceiveShape DEF HoldInv, Holds, OwnerLives, PlaceInv, Moves, Works, Same, Forgets
  <1>4. ASSUME NEW f \in Fronts, Claim(f) PROVE HoldInv'
    BY <1>0, <1>4, ClaimShape DEF HoldInv, Holds, OwnerLives, PlaceInv, Moves, Works, Same, Forgets
  <1>5. ASSUME NEW f \in Fronts, Bind(f) PROVE HoldInv'
    <2>0. PICK d \in Domains : d = front[f].domain
      BY <1>0, <1>5, BindShape DEF Requests
    <2>1. /\ Claims(f, d) /\ front[f].op = "acquire" /\ front[f].owner \in Owners
          /\ \A g \in Fronts \ {f} : front'[g] = front[g]
          /\ alive' = alive /\ owner' = owner /\ queue' = queue /\ work' = work
      BY <1>0, <1>5, <2>0, BindShape DEF Moves, Claims
    <2>2. \A e : OwnerLives(e)' = OwnerLives(e)
      BY <2>1 DEF OwnerLives
    <2>3. CASE front'[f].pc = "answer" /\ bindings' = bindings
      BY <1>0, <2>1, <2>2, <2>3 DEF HoldInv, Holds
    <2>4. CASE /\ Bindable(d, front[f].owner)
               /\ bindings' = [bindings EXCEPT ![d] = [owner |-> front[f].owner, token |-> nextToken]]
               /\ front'[f].pc = "send" /\ Same(front[f], front'[f])
               /\ front'[f].token = nextToken /\ front'[f].previous = bindings[d]
      <3>1. /\ bindings'[d] = [owner |-> front[f].owner, token |-> nextToken]
            /\ \A e \in Domains \ {d} : bindings'[e] = bindings[e]
        BY <1>0, <2>1, <2>4 DEF TypeInv
      <3>2. ~OwnerLives(d)
        BY <1>0, <2>1, <2>4 DEF Bindable, Live, OwnerIsBound, OwnerLives
      <3>3. Holds(front[f], d)'
        <4>1. front'[f].owner = front[f].owner
          BY <2>4 DEF Same
        <4>2. bindings[d] # None => bindings[d].owner.proc \notin alive /\ bindings[d].token < nextToken
          BY <1>0, <2>1, <2>4 DEF Bindable, Live, TableInv
        <4>3. QED
          BY <2>1, <2>2, <2>4, <3>1, <3>2, <4>1, <4>2 DEF Holds
      <3>4. /\ queue[d] = None /\ (work[d] # None => work[d].pc = "reply")
            /\ \A g \in Fronts : Claims(g, d) => g = f
        BY <1>0, <2>1 DEF ClaimInv, Busied
      <3>5. ASSUME NEW e \in Domains, queue'[e] # None, queue'[e].op = "acquire" PROVE Holds(queue[e], e)'
        BY <1>0, <2>1, <2>2, <3>1, <3>4, <3>5 DEF HoldInv, Holds
      <3>6. ASSUME NEW e \in Domains, work'[e] # None, work'[e].op = "acquire",
                   work'[e].pc \in {"process", "undo"}
            PROVE  Holds(work[e], e)'
        BY <1>0, <2>1, <2>2, <3>1, <3>4, <3>6 DEF HoldInv, Holds
      <3>7. ASSUME NEW g \in Fronts, front'[g] # None, front'[g].pc = "send", front'[g].op = "acquire"
            PROVE  Holds(front[g], front[g].domain)'
        <4>1. CASE g = f
          BY <2>0, <2>4, <3>3, <4>1 DEF Same
        <4>2. CASE g # f
          <5>1. front[g] \in Requests
            BY <1>0, <2>1, <3>7, <4>2, FrontRequest
          <5>2. front[g].domain \in Domains \ {d} /\ Holds(front[g], front[g].domain)
            BY <1>0, <2>1, <3>4, <3>7, <4>2, <5>1 DEF HoldInv, Claims, Requests
          <5>3. QED
            BY <2>1, <2>2, <3>1, <4>2, <5>2 DEF Holds
        <4>3. QED
          BY <4>1, <4>2
      <3>8. QED
        BY <3>5, <3>6, <3>7 DEF HoldInv
    <2>5. QED
      BY <1>0, <1>5, <2>0, <2>3, <2>4, BindShape
  <1>6. ASSUME NEW f \in Fronts, Send(f) PROVE HoldInv'
    BY <1>0, <1>6, SendShape DEF HoldInv, Holds, OwnerLives, PlaceInv, Moves, Works, Same, Forgets
  <1>7. ASSUME NEW f \in Fronts, Timeout(f) PROVE HoldInv'
    BY <1>0, <1>7, TimeoutShape, SMTT(30) DEF HoldInv, Holds, OwnerLives, PlaceInv, Moves, Works, Same, Forgets
  <1>8. ASSUME NEW f \in Fronts, FrontUndo(f) PROVE HoldInv'
    BY <1>0, <1>8, FrontUndoShape DEF HoldInv, Holds, OwnerLives, PlaceInv, Moves, Works, Same, Forgets
  <1>9. ASSUME NEW f \in Fronts, Answer(f) PROVE HoldInv'
    BY <1>0, <1>9, AnswerShape DEF HoldInv, Holds, OwnerLives, PlaceInv, Moves, Works, Same, Forgets
  <1>10. ASSUME NEW d \in Domains, Take(d) PROVE HoldInv'
    BY <1>0, <1>10, TakeShape DEF HoldInv, Holds, OwnerLives, PlaceInv, Moves, Works, Same, Forgets
  <1>11. ASSUME NEW d \in Domains, Process(d) PROVE HoldInv'
    <2>1. /\ Works(d) /\ work[d].pc = "process" /\ Busied(d)
          /\ UNCHANGED <<alive, bindings, front, queue>>
      BY <1>0, <1>11, ProcessShape DEF Works, Busied
    <2>2. \A e \in Domains \ {d} : OwnerLives(e)' = OwnerLives(e)
      <3>1. owner' = owner \/ owner' = [owner EXCEPT ![d] = work[d].owner]
        BY <1>0, <1>11, ProcessShape
      <3>2. owner \in [Domains -> Owners \cup {None}]
        BY <1>0 DEF TypeInv
      <3>3. \A e \in Domains \ {d} : owner'[e] = owner[e]
        BY <3>1, <3>2
      <3>4. QED
        BY <2>1, <3>3 DEF OwnerLives
    <2>3. queue[d] = None /\ \A f \in Fronts : ~Claims(f, d)
      BY <1>0, <2>1 DEF ClaimInv
    <2>4. ASSUME NEW e \in Domains, queue'[e] # None, queue'[e].op = "acquire" PROVE Holds(queue[e], e)'
      BY <1>0, <2>1, <2>2, <2>3, <2>4 DEF HoldInv, Holds
    <2>5. ASSUME NEW e \in Domains, work'[e] # None, work'[e].op = "acquire",
                 work'[e].pc \in {"process", "undo"}
          PROVE  Holds(work[e], e)'
      <3>1. CASE e # d
        BY <1>0, <2>1, <2>2, <2>5, <3>1 DEF HoldInv, Holds, Works
      <3>2. CASE e = d
        <4>1. owner' = owner
          BY <1>0, <1>11, <2>5, <3>2, ProcessShape
        <4>2. Holds(work[d], d)
          BY <1>0, <2>1, <2>5, <3>2 DEF HoldInv, Works, Same
        <4>3. QED
          BY <2>1, <3>2, <4>1, <4>2 DEF Holds, OwnerLives, Works, Same
      <3>3. QED
        BY <3>1, <3>2
    <2>6. ASSUME NEW g \in Fronts, front'[g] # None, front'[g].pc = "send", front'[g].op = "acquire"
          PROVE  Holds(front[g], front[g].domain)'
      <3>1. front[g] \in Requests
        BY <1>0, <2>1, <2>6, FrontRequest
      <3>2. front[g].domain \in Domains \ {d} /\ Holds(front[g], front[g].domain)
        BY <1>0, <2>1, <2>3, <2>6, <3>1 DEF HoldInv, Claims, Requests
      <3>3. QED
        BY <2>1, <2>2, <3>2 DEF Holds
    <2>7. QED
      BY <2>4, <2>5, <2>6 DEF HoldInv
  <1>12. ASSUME NEW d \in Domains, WorkerUndo(d) PROVE HoldInv'
    <2>1. /\ Works(d) /\ work[d].pc = "undo" /\ work'[d].pc = "release" /\ Busied(d)
          /\ UNCHANGED <<alive, owner, disk, front, queue>>
      BY <1>0, <1>12, WorkerUndoShape DEF Works, Busied
    <2>2. \A e \in Domains : OwnerLives(e)' = OwnerLives(e)
      BY <2>1 DEF OwnerLives
    <2>3. queue[d] = None /\ \A f \in Fronts : ~Claims(f, d)
      BY <1>0, <2>1 DEF ClaimInv
    <2>4. \A e \in Domains \ {d} : bindings'[e] = bindings[e] /\ work'[e] = work[e]
      BY <1>0, <1>12, <2>1, WorkerUndoShape DEF TypeInv, Works
    <2>5. ASSUME NEW e \in Domains, queue'[e] # None, queue'[e].op = "acquire" PROVE Holds(queue[e], e)'
      BY <1>0, <2>1, <2>2, <2>3, <2>4, <2>5 DEF HoldInv, Holds
    <2>6. ASSUME NEW e \in Domains, work'[e] # None, work'[e].op = "acquire",
                 work'[e].pc \in {"process", "undo"}
          PROVE  Holds(work[e], e)'
      BY <1>0, <2>1, <2>2, <2>4, <2>6 DEF HoldInv, Holds
    <2>7. ASSUME NEW g \in Fronts, front'[g] # None, front'[g].pc = "send", front'[g].op = "acquire"
          PROVE  Holds(front[g], front[g].domain)'
      <3>1. front[g] \in Requests
        BY <1>0, <2>1, <2>7, FrontRequest
      <3>2. front[g].domain \in Domains \ {d} /\ Holds(front[g], front[g].domain)
        BY <1>0, <2>1, <2>3, <2>7, <3>1 DEF HoldInv, Claims, Requests
      <3>3. QED
        BY <2>1, <2>2, <2>4, <3>2 DEF Holds
    <2>8. QED
      BY <2>5, <2>6, <2>7 DEF HoldInv
  <1>13. ASSUME NEW d \in Domains, Release(d) PROVE HoldInv'
    BY <1>0, <1>13, ReleaseShape DEF HoldInv, Holds, OwnerLives, PlaceInv, Moves, Works, Same, Forgets
  <1>14. ASSUME NEW d \in Domains, Reply(d) PROVE HoldInv'
    BY <1>0, <1>14, ReplyShape DEF HoldInv, Holds, OwnerLives, PlaceInv, Moves, Works, Same, Forgets
  <1>15. ASSUME NEW p \in Procs, Dies(p) PROVE HoldInv'
    BY <1>0, <1>15 DEF HoldInv, Holds, OwnerLives, PlaceInv, Moves, Works, Same, Forgets, Dies, service, router, charge
  <1>16. QED
    BY <1>1, <1>2, <1>3, <1>4, <1>5, <1>6, <1>7, <1>8, <1>9, <1>10, <1>11, <1>12, <1>13, <1>14, <1>15 DEF Next, Front, Worker

\* What keeps spent tokens spent, and adds no place that relies on one.
LEMMA SpentSites ==
    ASSUME TypeInv, SpentInv,
           \A t \in Nat, e \in Domains : Spent(t, e) => Spent(t, e)',
           \A g \in Fronts : front'[g] # None /\ front'[g].pc = "undo" =>
              front'[g] = front[g] \/ Spent(front[g].token, front[g].domain)',
           \A e \in Domains :
              /\ work'[e] # None /\ work'[e].op = "acquire" /\ ~work'[e].ok
              /\ work'[e].pc \in {"release", "reply"}
              => \/ Spent(work[e].token, e)'
                 \/ /\ work[e] # None /\ work[e].op = "acquire" /\ ~work[e].ok
                    /\ work[e].pc \in {"release", "reply"} /\ work'[e].token = work[e].token
    PROVE  SpentInv'
  <1>1. ASSUME NEW g \in Fronts, front'[g] # None, front'[g].pc = "undo"
        PROVE  Spent(front[g].token, front[g].domain)'
    <2>1. CASE front'[g] = front[g]
      <3>1. front[g] \in Requests
        BY <1>1, <2>1, FrontRequest
      <3>2. front[g].token \in Nat /\ front[g].domain \in Domains
        BY <3>1 DEF Requests
      <3>3. Spent(front[g].token, front[g].domain)
        BY <1>1, <2>1 DEF SpentInv
      <3>4. QED
        BY <2>1, <3>2, <3>3 DEF Spent
    <2>2. QED
      BY <1>1, <2>1
  <1>2. ASSUME NEW e \in Domains, work'[e] # None, work'[e].op = "acquire", ~work'[e].ok,
               work'[e].pc \in {"release", "reply"}
        PROVE  Spent(work[e].token, e)'
    <2>1. CASE /\ work[e] # None /\ work[e].op = "acquire" /\ ~work[e].ok
               /\ work[e].pc \in {"release", "reply"} /\ work'[e].token = work[e].token
      <3>1. work[e].token \in Nat
        BY <2>1 DEF TypeInv, Slots, Requests
      <3>2. Spent(work[e].token, e)
        BY <2>1 DEF SpentInv
      <3>3. QED
        BY <2>1, <3>1, <3>2 DEF Spent
    <2>2. QED
      BY <1>2, <2>1
  <1>3. QED
    BY <1>1, <1>2 DEF SpentInv

\* A reservation that was undone does not come back.
LEMMA SpentStep ==
    ASSUME Inv, Next
    PROVE  SpentInv'
  <1> USE NoneAssumption
  <1>0. /\ TypeInv /\ PlaceInv /\ ClaimInv /\ LinkInv /\ HoldInv /\ SpentInv
        /\ TableInv /\ PermitInv /\ CountInv /\ OwnerIsBound
    BY DEF Inv
  <1>1. CASE Dispatch
    BY <1>0, <1>1, DispatchShape DEF SpentInv, Spent, NotBefore, PlaceInv, Moves, Works, Same, Forgets, Awaited
  <1>2. CASE Restart
    BY <1>0, <1>2, RestartShape DEF SpentInv, Spent, NotBefore, PlaceInv, Moves, Works, Same, Forgets, Awaited
  <1>3. ASSUME NEW f \in Fronts, Receive(f) PROVE SpentInv'
    BY <1>0, <1>3, ReceiveShape DEF SpentInv, Spent, NotBefore, PlaceInv, Moves, Works, Same, Forgets, Awaited
  <1>4. ASSUME NEW f \in Fronts, Claim(f) PROVE SpentInv'
    BY <1>0, <1>4, ClaimShape DEF SpentInv, Spent, NotBefore, PlaceInv, Moves, Works, Same, Forgets, Awaited
  <1>5. ASSUME NEW f \in Fronts, Bind(f) PROVE SpentInv'
    <2>0. PICK d \in Domains : d = front[f].domain
      BY <1>0, <1>5, BindShape DEF Requests
    <2>1. /\ queue' = queue /\ work' = work /\ nextToken \in Nat /\ nextToken' = nextToken + 1
          /\ \A g \in Fronts \ {f} : front'[g] = front[g]
          /\ front'[f].pc \in {"send", "answer"}
          /\ front'[f].pc = "send" =>
                /\ front'[f].domain = d /\ front'[f].previous = bindings[d]
      BY <1>0, <1>5, <2>0, BindShape DEF Moves, Same, TypeInv
    <2>2. /\ \A e \in Domains \ {d} : bindings'[e] = bindings[e]
          /\ bindings'[d] = bindings[d] \/ bindings'[d].token = nextToken
      BY <1>0, <1>5, <2>0, BindTable
    <2>3. ASSUME NEW t \in Nat, NEW e \in Domains, Spent(t, e) PROVE Spent(t, e)'
      BY <2>1, <2>2, <2>3 DEF Spent, NotBefore
    <2>4. QED
      BY <1>0, <2>1, <2>3, SpentSites
  <1>6. ASSUME NEW f \in Fronts, Send(f) PROVE SpentInv'
    <2>0. PICK d \in Domains : d = front[f].domain
      BY <1>0, <1>6, SendShape DEF Requests
    <2>1. /\ bindings' = bindings /\ work' = work /\ nextToken' = nextToken
          /\ front[f] # None /\ front[f].pc = "send" /\ front'[f].pc = "wait"
          /\ \A g \in Fronts \ {f} : front'[g] = front[g]
          /\ queue'[d].op = front[f].op /\ queue'[d].previous = front[f].previous
          /\ \A e \in Domains \ {d} : queue'[e] = queue[e]
      BY <1>0, <1>6, <2>0, SendShape DEF Moves, Same
    <2>2. ASSUME NEW t \in Nat, NEW e \in Domains, Spent(t, e) PROVE Spent(t, e)'
      BY <2>0, <2>1, <2>2 DEF Spent, NotBefore
    <2>3. QED
      BY <1>0, <2>1, <2>2, SpentSites
  <1>7. ASSUME NEW f \in Fronts, Timeout(f) PROVE SpentInv'
    <2>1. /\ bindings' = bindings /\ nextToken' = nextToken /\ front'[f].pc = "answer"
          /\ \A g \in Fronts \ {f} : front'[g] = front[g]
      BY <1>0, <1>7, TimeoutShape DEF Moves
    <2>2. \A e \in Domains :
             /\ queue'[e] # None => /\ queue[e] # None /\ queue'[e].op = queue[e].op
                                   /\ queue'[e].previous = queue[e].previous
             /\ work'[e] # None =>
                   /\ work[e] # None /\ work'[e].op = work[e].op /\ work'[e].pc = work[e].pc
                   /\ work'[e].previous = work[e].previous /\ work'[e].token = work[e].token
                   /\ work'[e].ok = work[e].ok
      BY <1>0, <1>7, TimeoutShape DEF Forgets, Same
    <2>3. ASSUME NEW t \in Nat, NEW e \in Domains, Spent(t, e) PROVE Spent(t, e)'
      BY <2>1, <2>2, <2>3 DEF Spent, NotBefore
    <2>4. QED
      BY <1>0, <2>1, <2>2, <2>3, SpentSites
  <1>8. ASSUME NEW f \in Fronts, FrontUndo(f) PROVE SpentInv'
    BY <1>0, <1>8, FrontUndoShape DEF SpentInv, Spent, NotBefore, PlaceInv, Moves, Works, Same, Forgets, Awaited
  <1>9. ASSUME NEW f \in Fronts, Answer(f) PROVE SpentInv'
    BY <1>0, <1>9, AnswerShape DEF SpentInv, Spent, NotBefore, PlaceInv, Moves, Works, Same, Forgets, Awaited
  <1>10. ASSUME NEW d \in Domains, Take(d) PROVE SpentInv'
    <2>1. /\ bindings' = bindings /\ nextToken' = nextToken /\ front' = front
          /\ queue[d] # None /\ queue'[d] = None /\ \A e \in Domains \ {d} : queue'[e] = queue[e]
          /\ work'[d].pc = "process" /\ work'[d].op = queue[d].op
          /\ work'[d].previous = queue[d].previous
          /\ \A e \in Domains \ {d} : work'[e] = work[e]
      BY <1>0, <1>10, TakeShape DEF Same
    <2>2. ASSUME NEW t \in Nat, NEW e \in Domains, Spent(t, e) PROVE Spent(t, e)'
      BY <2>1, <2>2 DEF Spent, NotBefore
    <2>3. QED
      BY <1>0, <2>1, <2>2, SpentSites
  <1>11. ASSUME NEW d \in Domains, Process(d) PROVE SpentInv'
    <2>1. /\ bindings' = bindings /\ nextToken' = nextToken /\ front' = front /\ queue' = queue
          /\ work[d] # None /\ work[d].pc = "process" /\ work'[d].op = work[d].op
          /\ work'[d].previous = work[d].previous
          /\ \A e \in Domains \ {d} : work'[e] = work[e]
      BY <1>0, <1>11, ProcessShape DEF Works, Same
    <2>2. work'[d].op = "acquire" => work'[d].ok \/ work'[d].pc = "undo"
      BY <1>0, <1>11, ProcessShape DEF Works, Same
    <2>3. ASSUME NEW t \in Nat, NEW e \in Domains, Spent(t, e) PROVE Spent(t, e)'
      BY <2>1, <2>3 DEF Spent, NotBefore
    <2>4. QED
      BY <1>0, <2>1, <2>2, <2>3, SpentSites
  <1>12. ASSUME NEW d \in Domains, WorkerUndo(d) PROVE SpentInv'
    <2>1. /\ nextToken' = nextToken /\ front' = front /\ queue' = queue
          /\ work[d] \in Requests /\ work[d] # None /\ work[d].pc = "undo" /\ work[d].op = "acquire"
          /\ work'[d].pc = "release" /\ work'[d].token = work[d].token
          /\ \A e \in Domains \ {d} : work'[e] = work[e]
          /\ Holds(work[d], d)
      BY <1>0, <1>12, WorkerUndoShape DEF Works, Same
    <2>2. bindings'[d] = work[d].previous /\ \A e \in Domains \ {d} : bindings'[e] = bindings[e]
      BY <1>0, <1>12, WorkerUndoShape DEF TypeInv
    <2>3. ASSUME NEW t \in Nat, NEW e \in Domains, Spent(t, e) PROVE Spent(t, e)'
      BY <2>1, <2>2, <2>3 DEF Spent, NotBefore
    <2>4. Spent(work[d].token, d)'
      <3>1. queue[d] = None /\ \A g \in Fronts : ~Claims(g, d)
        BY <1>0, <2>1 DEF ClaimInv, Busied
      <3>2. work[d].token \in Nat /\ nextToken \in Nat
        BY <1>0, <2>1 DEF Requests, TypeInv
      <3>3. work[d].token < nextToken
        <4>1. bindings[d] = [owner |-> work[d].owner, token |-> work[d].token]
          BY <2>1 DEF Holds
        <4>2. work[d].owner \in Owners
          BY <1>0, <2>1 DEF PlaceInv, Requests
        <4>3. bindings[d] # None /\ bindings[d].token = work[d].token
          BY <3>2, <4>1, <4>2 DEF Bindings
        <4>4. QED
          BY <1>0, <4>3 DEF TableInv
      <3>4. work[d].previous # None => work[d].previous.token # work[d].token
        <4>1. work[d].previous # None => work[d].previous.token < work[d].token
          BY <2>1 DEF Holds
        <4>2. work[d].previous # None => work[d].previous.token \in Nat
          BY <2>1 DEF Requests, Bindings
        <4>3. QED
          BY <3>2, <4>1, <4>2
      <3>5. QED
        BY <2>1, <2>2, <3>1, <3>3, <3>4 DEF Spent, Claims
    <2>5. QED
      BY <1>0, <2>1, <2>3, <2>4, SpentSites
  <1>13. ASSUME NEW d \in Domains, Release(d) PROVE SpentInv'
    <2>1. /\ bindings' = bindings /\ nextToken' = nextToken /\ front' = front /\ queue' = queue
          /\ work[d] # None /\ work[d].pc = "release" /\ work'[d].op = work[d].op
          /\ work'[d].pc = "reply" /\ work'[d].token = work[d].token /\ work'[d].ok = work[d].ok
          /\ \A e \in Domains \ {d} : work'[e] = work[e]
      BY <1>0, <1>13, ReleaseShape DEF Works, Same
    <2>2. ASSUME NEW t \in Nat, NEW e \in Domains, Spent(t, e) PROVE Spent(t, e)'
      BY <2>1, <2>2 DEF Spent, NotBefore
    <2>3. QED
      BY <1>0, <2>1, <2>2, SpentSites
  <1>14. ASSUME NEW d \in Domains, Reply(d) PROVE SpentInv'
    <2>1. /\ bindings' = bindings /\ nextToken' = nextToken /\ queue' = queue
          /\ work[d] \in Requests /\ work[d] # None /\ work[d].pc = "reply" /\ work'[d] = None
          /\ \A e \in Domains \ {d} : work'[e] = work[e]
      BY <1>0, <1>14, ReplyShape
    <2>2. \/ front' = front
          \/ /\ front'[work[d].reply].pc \in {"answer", "undo"}
             /\ \A g \in Fronts \ {work[d].reply} : front'[g] = front[g]
      BY <1>0, <1>14, ReplyShape DEF Moves
    <2>3. ASSUME NEW t \in Nat, NEW e \in Domains, Spent(t, e) PROVE Spent(t, e)'
      BY <2>1, <2>2, <2>3 DEF Spent, NotBefore
    <2>4. ASSUME NEW g \in Fronts, front'[g] # None, front'[g].pc = "undo", front'[g] # front[g]
          PROVE  Spent(front[g].token, front[g].domain)'
      <3>1. /\ g = work[d].reply /\ ~work[d].ok /\ work[d].op = "acquire"
            /\ front'[g].token = work[d].token /\ front'[g].domain = work[d].domain
        BY <1>0, <1>14, <2>4, ReplyShape DEF Moves, Same, Awaited
      <3>2. work[d].domain = d /\ work[d].token \in Nat
        BY <1>0, <2>1 DEF PlaceInv, Requests
      <3>3. Spent(work[d].token, d)
        BY <1>0, <2>1, <3>1 DEF SpentInv
      <3>4. \A t \in Nat, e \in Domains : Spent(t, e) => Spent(t, e)'
        BY <2>3
      <3>5. PICK t \in Nat : t = work[d].token
        BY <3>2
      <3>6. Spent(t, d)'
        BY <3>3, <3>4, <3>5
      <3>7. QED
        BY <3>1, <3>2, <3>5, <3>6 DEF Spent
    <2>5. QED
      BY <1>0, <2>1, <2>3, <2>4, SpentSites
  <1>15. ASSUME NEW p \in Procs, Dies(p) PROVE SpentInv'
    BY <1>0, <1>15 DEF SpentInv, Spent, NotBefore, PlaceInv, Moves, Works, Same, Forgets, Awaited, Dies, service, router, charge
  <1>16. QED
    BY <1>1, <1>2, <1>3, <1>4, <1>5, <1>6, <1>7, <1>8, <1>9, <1>10, <1>11, <1>12, <1>13, <1>14, <1>15 DEF Next, Front, Worker

\* Live bindings stay apart.
LEMMA TableStep ==
    ASSUME Inv, Next
    PROVE  TableInv'
  <1> USE NoneAssumption
  <1>0. /\ TypeInv /\ PlaceInv /\ ClaimInv /\ LinkInv /\ HoldInv /\ SpentInv
        /\ TableInv /\ PermitInv /\ CountInv /\ OwnerIsBound
    BY DEF Inv
  <1>1. CASE Dispatch
    BY <1>0, <1>1, DispatchShape DEF TableInv, Live, PlaceInv
  <1>2. CASE Restart
    <2>1. \A d, e \in Domains :
             d # e /\ Journaled(d) /\ Journaled(e) => ~Conflict(disk[d], disk[e])
      BY <1>0, <1>2, RestartShape
    <2>2. \A d \in Domains : bindings'[d] # None =>
             Journaled(d) /\ bindings'[d].token = 0 /\ bindings'[d].owner = disk[d]
      BY <1>0, <1>2, RestartShape
    <2>3. nextToken' = 1
      BY <1>0, <1>2, RestartShape
    <2>4. QED
      BY <2>1, <2>2, <2>3 DEF TableInv, Live
  <1>3. ASSUME NEW f \in Fronts, Receive(f) PROVE TableInv'
    BY <1>0, <1>3, ReceiveShape DEF TableInv, Live, PlaceInv
  <1>4. ASSUME NEW f \in Fronts, Claim(f) PROVE TableInv'
    BY <1>0, <1>4, ClaimShape DEF TableInv, Live, PlaceInv
  <1>5. ASSUME NEW f \in Fronts, Bind(f) PROVE TableInv'
    <2>0. PICK d \in Domains : d = front[f].domain
      BY <1>0, <1>5, BindShape DEF Requests
    <2>1. nextToken \in Nat /\ nextToken' = nextToken + 1 /\ alive' = alive
      BY <1>0, <1>5, BindShape DEF TypeInv
    <2>2. \A e \in Domains : bindings[e] # None => bindings[e].token \in Nat
      BY <1>0 DEF TypeInv, Bindings
    <2>3. CASE bindings' = bindings
      BY <1>0, <2>1, <2>2, <2>3 DEF TableInv, Live
    <2>4. CASE bindings' # bindings
      <3>1. Bindable(d, front[f].owner) /\ \A e \in Domains \ {d} : bindings'[e] = bindings[e]
        BY <1>0, <1>5, <2>0, <2>4, BindTable
      <3>2. bindings'[d].owner = front[f].owner /\ bindings'[d].token = nextToken
        BY <1>0, <1>5, <2>0, <2>4, BindTable
      <3>3. \A e \in Domains \ {d} : Live(bindings[e]) =>
               /\ ~Conflict(bindings[e].owner, front[f].owner)
               /\ ~Conflict(front[f].owner, bindings[e].owner)
        BY <3>1 DEF Bindable, Conflict
      <3>4. QED
        BY <1>0, <2>1, <2>2, <3>1, <3>2, <3>3 DEF TableInv, Live
    <2>5. QED
      BY <2>3, <2>4
  <1>6. ASSUME NEW f \in Fronts, Send(f) PROVE TableInv'
    BY <1>0, <1>6, SendShape DEF TableInv, Live, PlaceInv
  <1>7. ASSUME NEW f \in Fronts, Timeout(f) PROVE TableInv'
    BY <1>0, <1>7, TimeoutShape DEF TableInv, Live, PlaceInv
  <1>8. ASSUME NEW f \in Fronts, FrontUndo(f) PROVE TableInv'
    BY <1>0, <1>8, FrontUndoShape DEF TableInv, Live, PlaceInv
  <1>9. ASSUME NEW f \in Fronts, Answer(f) PROVE TableInv'
    BY <1>0, <1>9, AnswerShape DEF TableInv, Live, PlaceInv
  <1>10. ASSUME NEW d \in Domains, Take(d) PROVE TableInv'
    BY <1>0, <1>10, TakeShape DEF TableInv, Live, PlaceInv
  <1>11. ASSUME NEW d \in Domains, Process(d) PROVE TableInv'
    <2>1. UNCHANGED <<alive, bindings, nextToken>>
      BY <1>0, <1>11, ProcessShape
    <2>2. QED
      BY <1>0, <2>1 DEF TableInv, Live
  <1>12. ASSUME NEW d \in Domains, WorkerUndo(d) PROVE TableInv'
    <2>1. /\ bindings'[d] = work[d].previous /\ \A e \in Domains \ {d} : bindings'[e] = bindings[e]
          /\ alive' = alive /\ nextToken' = nextToken
      BY <1>0, <1>12, WorkerUndoShape DEF TypeInv
    <2>2. ~Live(work[d].previous)
      BY <1>0, <1>12, WorkerUndoShape DEF Holds, Live
    <2>3. bindings'[d] # None => bindings'[d].token < nextToken
      <3>1. work[d] \in Requests /\ Holds(work[d], d) /\ work[d] # None /\ work[d].op = "acquire"
        BY <1>0, <1>12, WorkerUndoShape DEF Works
      <3>2. work[d].owner \in Owners /\ work[d].token \in Nat /\ nextToken \in Nat
        BY <1>0, <3>1 DEF PlaceInv, Requests, TypeInv
      <3>3. bindings[d] = [owner |-> work[d].owner, token |-> work[d].token]
        BY <3>1 DEF Holds
      <3>4. bindings[d] # None /\ bindings[d].token = work[d].token
        BY <3>2, <3>3 DEF Bindings
      <3>5. work[d].token < nextToken
        BY <1>0, <3>4 DEF TableInv
      <3>6. work[d].previous # None =>
               work[d].previous.token \in Nat /\ work[d].previous.token < work[d].token
        BY <3>1 DEF Holds, Requests, Bindings
      <3>7. QED
        BY <2>1, <3>2, <3>5, <3>6
    <2>4. QED
      BY <1>0, <2>1, <2>2, <2>3 DEF TableInv, Live
  <1>13. ASSUME NEW d \in Domains, Release(d) PROVE TableInv'
    BY <1>0, <1>13, ReleaseShape DEF TableInv, Live, PlaceInv
  <1>14. ASSUME NEW d \in Domains, Reply(d) PROVE TableInv'
    BY <1>0, <1>14, ReplyShape DEF TableInv, Live, PlaceInv
  <1>15. ASSUME NEW p \in Procs, Dies(p) PROVE TableInv'
    BY <1>0, <1>15 DEF TableInv, Live, PlaceInv, Dies, service, router, charge
  <1>16. QED
    BY <1>1, <1>2, <1>3, <1>4, <1>5, <1>6, <1>7, <1>8, <1>9, <1>10, <1>11, <1>12, <1>13, <1>14, <1>15 DEF Next, Front, Worker

\* Every live owner stays bound and journaled.
LEMMA OwnerStep ==
    ASSUME Inv, Next
    PROVE  OwnerIsBound'
  <1> USE NoneAssumption
  <1>0. /\ TypeInv /\ PlaceInv /\ ClaimInv /\ LinkInv /\ HoldInv /\ SpentInv
        /\ TableInv /\ PermitInv /\ CountInv /\ OwnerIsBound
    BY DEF Inv
  <1>1. CASE Dispatch
    BY <1>0, <1>1, DispatchShape DEF OwnerIsBound, OwnerLives
  <1>2. CASE Restart
    <2>1. /\ \A d \in Domains : Journaled(d) => bindings'[d] # None /\ bindings'[d].owner = disk[d]
          /\ alive' = alive /\ owner' = disk /\ disk' = disk
      BY <1>0, <1>2, RestartShape
    <2>2. QED
      BY <2>1 DEF OwnerIsBound, OwnerLives, Journaled
  <1>3. ASSUME NEW f \in Fronts, Receive(f) PROVE OwnerIsBound'
    BY <1>0, <1>3, ReceiveShape DEF OwnerIsBound, OwnerLives
  <1>4. ASSUME NEW f \in Fronts, Claim(f) PROVE OwnerIsBound'
    BY <1>0, <1>4, ClaimShape DEF OwnerIsBound, OwnerLives
  <1>5. ASSUME NEW f \in Fronts, Bind(f) PROVE OwnerIsBound'
    <2>0. PICK d \in Domains : d = front[f].domain
      BY <1>0, <1>5, BindShape DEF Requests
    <2>1. alive' = alive /\ owner' = owner /\ disk' = disk
      BY <1>0, <1>5, BindShape
    <2>2. /\ \A e \in Domains \ {d} : bindings'[e] = bindings[e]
          /\ bindings' = bindings \/ ~Live(bindings[d])
      BY <1>0, <1>5, <2>0, BindTable DEF Bindable
    <2>3. QED
      BY <1>0, <2>1, <2>2 DEF OwnerIsBound, OwnerLives, Live
  <1>6. ASSUME NEW f \in Fronts, Send(f) PROVE OwnerIsBound'
    BY <1>0, <1>6, SendShape DEF OwnerIsBound, OwnerLives
  <1>7. ASSUME NEW f \in Fronts, Timeout(f) PROVE OwnerIsBound'
    BY <1>0, <1>7, TimeoutShape DEF OwnerIsBound, OwnerLives
  <1>8. ASSUME NEW f \in Fronts, FrontUndo(f) PROVE OwnerIsBound'
    BY <1>0, <1>8, FrontUndoShape DEF OwnerIsBound, OwnerLives
  <1>9. ASSUME NEW f \in Fronts, Answer(f) PROVE OwnerIsBound'
    BY <1>0, <1>9, AnswerShape DEF OwnerIsBound, OwnerLives
  <1>10. ASSUME NEW d \in Domains, Take(d) PROVE OwnerIsBound'
    BY <1>0, <1>10, TakeShape DEF OwnerIsBound, OwnerLives
  <1>11. ASSUME NEW d \in Domains, Process(d) PROVE OwnerIsBound'
    <2>1. /\ alive' = alive /\ bindings' = bindings /\ work[d] # None /\ work[d].pc = "process"
          /\ owner \in [Domains -> Owners \cup {None}] /\ disk \in [Domains -> Owners \cup {None}]
      BY <1>0, <1>11, ProcessShape DEF Works, TypeInv
    <2>2. \/ /\ owner' = IF work[d].op = "acquire" THEN [owner EXCEPT ![d] = work[d].owner]
                         ELSE owner
             /\ disk' = [disk EXCEPT ![d] = owner'[d]]
          \/ /\ owner' = owner
             /\ \/ disk' = disk
                \/ /\ work[d].op = "acquire" => ~OwnerLives(d)
                   /\ disk' = [disk EXCEPT ![d] = IF work[d].op = "acquire"
                                                  THEN work[d].owner ELSE owner[d]]
      BY <1>0, <1>11, ProcessShape
    <2>3. \A e \in Domains \ {d} : owner'[e] = owner[e] /\ disk'[e] = disk[e]
      BY <2>1, <2>2
    <2>4. CASE owner'[d] = owner[d] /\ (disk'[d] \in {disk[d], owner[d]} \/ ~OwnerLives(d))
      BY <1>0, <2>1, <2>3, <2>4 DEF OwnerIsBound, OwnerLives
    <2>5. CASE work[d].op = "acquire" /\ owner'[d] = work[d].owner /\ disk'[d] = work[d].owner
      <3>1. bindings[d] = [owner |-> work[d].owner, token |-> work[d].token]
        BY <1>0, <2>1, <2>5 DEF HoldInv, Holds
      <3>2. work[d].owner \in Owners /\ work[d].token \in Nat
        BY <1>0, <2>1, <2>5 DEF PlaceInv, TypeInv, Slots, Requests
      <3>3. bindings[d] # None /\ bindings[d].owner = work[d].owner
        BY <3>1, <3>2 DEF Bindings
      <3>4. QED
        BY <1>0, <2>1, <2>3, <2>5, <3>3 DEF OwnerIsBound, OwnerLives
    <2>6. QED
      BY <2>1, <2>2, <2>4, <2>5
  <1>12. ASSUME NEW d \in Domains, WorkerUndo(d) PROVE OwnerIsBound'
    <2>1. /\ alive' = alive /\ owner' = owner /\ disk' = disk /\ ~OwnerLives(d)
          /\ \A e \in Domains \ {d} : bindings'[e] = bindings[e]
      BY <1>0, <1>12, WorkerUndoShape DEF TypeInv, Holds
    <2>2. QED
      BY <1>0, <2>1 DEF OwnerIsBound, OwnerLives
  <1>13. ASSUME NEW d \in Domains, Release(d) PROVE OwnerIsBound'
    BY <1>0, <1>13, ReleaseShape DEF OwnerIsBound, OwnerLives
  <1>14. ASSUME NEW d \in Domains, Reply(d) PROVE OwnerIsBound'
    BY <1>0, <1>14, ReplyShape DEF OwnerIsBound, OwnerLives
  <1>15. ASSUME NEW p \in Procs, Dies(p) PROVE OwnerIsBound'
    BY <1>0, <1>15 DEF OwnerIsBound, OwnerLives, Dies, service, router, charge
  <1>16. QED
    BY <1>1, <1>2, <1>3, <1>4, <1>5, <1>6, <1>7, <1>8, <1>9, <1>10, <1>11, <1>12, <1>13, <1>14, <1>15 DEF Next, Front, Worker

\* Permits are finitely many.
LEMMA HeldFinite ==
    /\ IsFiniteSet(Held) /\ Cardinality(Held) \in Nat /\ Cardinality(Held) <= MaxPending
  <1>1. IsFiniteSet(Permits) /\ Cardinality(Permits) = MaxPending
    BY DomainsAssumption, FS_Interval DEF Permits
  <1>2. Held \in SUBSET Permits
    BY DEF Held
  <1>3. IsFiniteSet(Held) /\ Cardinality(Held) <= MaxPending
    BY <1>1, <1>2, FS_Subset
  <1>4. QED
    BY <1>3, FS_CardinalityType

\* The budget falls when the last holder returns a permit, and only then.
LEMMA ReturnCounts ==
    ASSUME TypeInv, CountInv, NEW r \in Permits, NEW h, Returns(r, h)
    PROVE  CountInv'
  <1>1. CASE lease[r].by = {h}
    <2>1. Held' = Held \ {r} /\ r \in Held
      BY <1>1 DEF Held, Returns
    <2>2. Cardinality(Held \ {r}) = Cardinality(Held) - 1
      BY <2>1, HeldFinite, FS_RemoveElement
    <2>3. budget'.requests = budget.requests - 1 /\ budget'.bytes <= budget.bytes
      BY <1>1 DEF Returns
    <2>4. budget.bytes \in Int /\ budget'.bytes \in Int /\ MaxBytes \in Int
      BY DomainsAssumption DEF TypeInv, Returns
    <2>5. QED
      BY <2>1, <2>2, <2>3, <2>4 DEF CountInv
  <1>2. CASE lease[r].by # {h}
    <2>1. Held' = Held
      <3>1. lease[r].by # {} => lease[r].by \ {h} # {}
        BY <1>2
      <3>2. \A s \in Permits : (lease'[s].by # {}) = (lease[s].by # {})
        BY <3>1 DEF Returns
      <3>3. QED
        BY <3>2 DEF Held
    <2>2. budget'.requests = budget.requests /\ budget'.bytes <= budget.bytes
      BY <1>2 DEF Returns
    <2>3. budget.bytes \in Int /\ budget'.bytes \in Int /\ MaxBytes \in Int
      BY DomainsAssumption DEF TypeInv, Returns
    <2>4. QED
      BY <2>1, <2>2, <2>3 DEF CountInv
  <1>3. QED
    BY <1>1, <1>2

\* Steps that let nobody give a permit back and hand none on.
LEMMA PermitKept ==
    ASSUME TypeInv, PermitInv, ingress' = ingress,
           \A r \in Permits : lease[r].by \subseteq lease'[r].by,
           \A f \in Fronts : front'[f] # None => front[f] # None /\ front'[f].id = front[f].id
    PROVE  PermitInv'
  <1>1. \A i \in 1 .. Len(ingress) : ingress[i] \in Permits
    BY DEF TypeInv
  <1>2. \A f \in Fronts : front[f] # None => front[f].id \in Permits
    BY FrontPermit
  <1>3. QED
    BY <1>1, <1>2 DEF PermitInv

\* Every request keeps a permit of its own until it is answered.
LEMMA PermitStep ==
    ASSUME Inv, Next
    PROVE  PermitInv'
  <1> USE NoneAssumption
  <1>0. /\ TypeInv /\ PlaceInv /\ ClaimInv /\ LinkInv /\ HoldInv /\ SpentInv
        /\ TableInv /\ PermitInv /\ CountInv /\ OwnerIsBound
    BY DEF Inv
  <1>1. CASE Dispatch
    <2>1. PICK r \in Permits :
             /\ lease[r].by = {} /\ ingress' = Append(ingress, r)
             /\ \A s \in Permits : lease'[s].by = IF s = r THEN {"front"} ELSE lease[s].by
             /\ front' = front
      BY <1>0, <1>1, DispatchShape
    <2>2. ingress \in Seq(Permits) /\ Len(ingress) \in Nat
      BY <1>0 DEF TypeInv
    <2>3. /\ Len(ingress') = Len(ingress) + 1 /\ ingress'[Len(ingress) + 1] = r
          /\ \A i \in 1 .. Len(ingress) : ingress'[i] = ingress[i] /\ ingress[i] \in Permits
      BY <2>1, <2>2, AppendProperties
    <2>4. \A i \in 1 .. Len(ingress) : ingress[i] # r
      BY <1>0, <2>1 DEF PermitInv
    <2>5. \A f \in Fronts : front[f] # None => front[f].id # r /\ front[f].id \in Permits
      BY <1>0, <2>1, FrontPermit DEF PermitInv
    <2>6. \A i \in 1 .. Len(ingress') :
             \/ i = Len(ingress) + 1 /\ ingress'[i] = r
             \/ i \in 1 .. Len(ingress) /\ ingress'[i] = ingress[i]
      BY <2>2, <2>3
    <2>7. \A i \in 1 .. Len(ingress') : "front" \in lease'[ingress'[i]].by
      BY <1>0, <2>1, <2>3, <2>6 DEF PermitInv
    <2>8. \A i, j \in 1 .. Len(ingress') : i # j => ingress'[i] # ingress'[j]
      BY <1>0, <2>4, <2>6 DEF PermitInv
    <2>9. ASSUME NEW f \in Fronts, front[f] # None
          PROVE  /\ "front" \in lease'[front[f].id].by
                 /\ \A i \in 1 .. Len(ingress') : ingress'[i] # front[f].id
      BY <1>0, <2>1, <2>5, <2>6, <2>9 DEF PermitInv
    <2>10. QED
      BY <1>0, <2>1, <2>7, <2>8, <2>9 DEF PermitInv
  <1>2. CASE Restart
    <2>1. Len(ingress') = 0 /\ \A f \in Fronts : front'[f] = None
      BY <1>0, <1>2, RestartShape
    <2>2. QED
      BY <2>1 DEF PermitInv
  <1>3. ASSUME NEW f \in Fronts, Receive(f) PROVE PermitInv'
    <2>1. /\ ingress \in Seq(Permits) /\ ingress # <<>> /\ ingress' = Tail(ingress) /\ lease' = lease
          /\ front'[f].id = Head(ingress) /\ \A g \in Fronts \ {f} : front'[g] = front[g]
      BY <1>0, <1>3, ReceiveShape DEF TypeInv
    <2>2. /\ Len(ingress) \in Nat /\ Len(ingress) > 0 /\ Len(ingress') = Len(ingress) - 1
          /\ \A i \in 1 .. Len(ingress') : ingress'[i] = ingress[i + 1]
          /\ Head(ingress) = ingress[1]
      BY <2>1, HeadTailProperties
    <2>3. \A i \in 1 .. Len(ingress') : i + 1 \in 1 .. Len(ingress) /\ i + 1 # 1
      BY <2>2
    <2>4. 1 \in 1 .. Len(ingress)
      BY <2>2
    <2>5. /\ \A i \in 1 .. Len(ingress') : "front" \in lease'[ingress'[i]].by
          /\ "front" \in lease'[front'[f].id].by
      BY <1>0, <2>1, <2>2, <2>3, <2>4 DEF PermitInv
    <2>6. \A i, j \in 1 .. Len(ingress') : i # j => ingress'[i] # ingress'[j]
      BY <1>0, <2>2, <2>3 DEF PermitInv
    <2>7. \A i \in 1 .. Len(ingress') : ingress'[i] # front'[f].id
      BY <1>0, <2>1, <2>2, <2>3, <2>4 DEF PermitInv
    <2>8. \A g \in Fronts \ {f} : front[g] # None =>
             /\ front[g].id # front'[f].id /\ "front" \in lease'[front[g].id].by
             /\ \A i \in 1 .. Len(ingress') : ingress'[i] # front[g].id
      BY <1>0, <2>1, <2>2, <2>3, <2>4 DEF PermitInv
    <2>9. QED
      BY <1>0, <2>1, <2>5, <2>6, <2>7, <2>8 DEF PermitInv
  <1>4. ASSUME NEW f \in Fronts, Claim(f) PROVE PermitInv'
    <2>1. /\ ingress' = ingress /\ \A r \in Permits : lease[r].by \subseteq lease'[r].by
          /\ \A g \in Fronts : front'[g] # None => front[g] # None /\ front'[g].id = front[g].id
      BY <1>0, <1>4, ClaimShape DEF Moves
    <2>2. QED
      BY <1>0, <2>1, PermitKept
  <1>5. ASSUME NEW f \in Fronts, Bind(f) PROVE PermitInv'
    <2>1. /\ ingress' = ingress /\ \A r \in Permits : lease[r].by \subseteq lease'[r].by
          /\ \A g \in Fronts : front'[g] # None => front[g] # None /\ front'[g].id = front[g].id
      BY <1>0, <1>5, BindShape DEF Moves
    <2>2. QED
      BY <1>0, <2>1, PermitKept
  <1>6. ASSUME NEW f \in Fronts, Send(f) PROVE PermitInv'
    <2>1. /\ ingress' = ingress
          /\ \A g \in Fronts : front'[g] # None => front[g] # None /\ front'[g].id = front[g].id
      BY <1>0, <1>6, SendShape DEF Moves
    <2>2. \A r \in Permits : lease'[r].by = lease[r].by \/ lease'[r].by = lease[r].by \cup {"worker"}
      BY <1>0, <1>6, SendShape
    <2>3. \A r \in Permits : lease[r].by \subseteq lease'[r].by
      BY <2>2
    <2>4. QED
      BY <1>0, <2>1, <2>3, PermitKept
  <1>7. ASSUME NEW f \in Fronts, Timeout(f) PROVE PermitInv'
    <2>1. /\ ingress' = ingress /\ \A r \in Permits : lease[r].by \subseteq lease'[r].by
          /\ \A g \in Fronts : front'[g] # None => front[g] # None /\ front'[g].id = front[g].id
      BY <1>0, <1>7, TimeoutShape DEF Moves
    <2>2. QED
      BY <1>0, <2>1, PermitKept
  <1>8. ASSUME NEW f \in Fronts, FrontUndo(f) PROVE PermitInv'
    <2>1. /\ ingress' = ingress /\ \A r \in Permits : lease[r].by \subseteq lease'[r].by
          /\ \A g \in Fronts : front'[g] # None => front[g] # None /\ front'[g].id = front[g].id
      BY <1>0, <1>8, FrontUndoShape DEF Moves
    <2>2. QED
      BY <1>0, <2>1, PermitKept
  <1>9. ASSUME NEW f \in Fronts, Answer(f) PROVE PermitInv'
    <2>1. /\ front[f] # None /\ front[f].id \in Permits /\ front'[f] = None /\ ingress' = ingress
          /\ \A g \in Fronts \ {f} : front'[g] = front[g]
          /\ \A s \in Permits \ {front[f].id} : lease'[s].by = lease[s].by
      BY <1>0, <1>9, AnswerShape, ZenonT(30) DEF Returns
    <2>2. \A i \in 1 .. Len(ingress) : ingress[i] \in Permits \ {front[f].id}
      BY <1>0, <2>1 DEF TypeInv, PermitInv
    <2>3. \A g \in Fronts \ {f} : front[g] # None => front[g].id \in Permits \ {front[f].id}
      BY <1>0, <2>1, FrontPermit DEF PermitInv
    <2>4. QED
      BY <1>0, <2>1, <2>2, <2>3 DEF PermitInv
  <1>10. ASSUME NEW d \in Domains, Take(d) PROVE PermitInv'
    <2>1. /\ ingress' = ingress /\ \A r \in Permits : lease[r].by \subseteq lease'[r].by
          /\ \A g \in Fronts : front'[g] # None => front[g] # None /\ front'[g].id = front[g].id
      BY <1>0, <1>10, TakeShape DEF Moves
    <2>2. QED
      BY <1>0, <2>1, PermitKept
  <1>11. ASSUME NEW d \in Domains, Process(d) PROVE PermitInv'
    <2>1. /\ ingress' = ingress /\ \A r \in Permits : lease[r].by \subseteq lease'[r].by
          /\ \A g \in Fronts : front'[g] # None => front[g] # None /\ front'[g].id = front[g].id
      BY <1>0, <1>11, ProcessShape DEF Moves
    <2>2. QED
      BY <1>0, <2>1, PermitKept
  <1>12. ASSUME NEW d \in Domains, WorkerUndo(d) PROVE PermitInv'
    <2>1. /\ ingress' = ingress /\ \A r \in Permits : lease[r].by \subseteq lease'[r].by
          /\ \A g \in Fronts : front'[g] # None => front[g] # None /\ front'[g].id = front[g].id
      BY <1>0, <1>12, WorkerUndoShape DEF Moves
    <2>2. QED
      BY <1>0, <2>1, PermitKept
  <1>13. ASSUME NEW d \in Domains, Release(d) PROVE PermitInv'
    <2>1. /\ front' = front /\ ingress' = ingress
          /\ \A s \in Permits : "front" \in lease[s].by => "front" \in lease'[s].by
      BY <1>0, <1>13, ReleaseShape DEF Returns
    <2>2. \A i \in 1 .. Len(ingress) : ingress[i] \in Permits
      BY <1>0 DEF TypeInv
    <2>3. \A g \in Fronts : front[g] # None => front[g].id \in Permits
      BY <1>0, FrontPermit
    <2>4. QED
      BY <1>0, <2>1, <2>2, <2>3 DEF PermitInv
  <1>14. ASSUME NEW d \in Domains, Reply(d) PROVE PermitInv'
    <2>1. /\ ingress' = ingress /\ \A r \in Permits : lease[r].by \subseteq lease'[r].by
          /\ \A g \in Fronts : front'[g] # None => front[g] # None /\ front'[g].id = front[g].id
      BY <1>0, <1>14, ReplyShape DEF Moves, Awaited
    <2>2. QED
      BY <1>0, <2>1, PermitKept
  <1>15. ASSUME NEW p \in Procs, Dies(p) PROVE PermitInv'
    <2>1. ingress' = ingress /\ lease' = lease /\ front' = front
      BY <1>15 DEF Dies, service, charge
    <2>2. QED
      BY <1>0, <2>1 DEF PermitInv
  <1>16. QED
    BY <1>1, <1>2, <1>3, <1>4, <1>5, <1>6, <1>7, <1>8, <1>9, <1>10, <1>11, <1>12, <1>13, <1>14, <1>15 DEF Next, Front, Worker

\* The budget counts the permits that are held.
LEMMA CountStep ==
    ASSUME Inv, Next
    PROVE  CountInv'
  <1> USE NoneAssumption
  <1>0. /\ TypeInv /\ PlaceInv /\ ClaimInv /\ LinkInv /\ HoldInv /\ SpentInv
        /\ TableInv /\ PermitInv /\ CountInv /\ OwnerIsBound
    BY DEF Inv
  <1>1. CASE Dispatch
    <2>1. PICK r \in Permits :
             /\ lease[r].by = {} /\ budget.bytes < MaxBytes
             /\ budget' = [requests |-> budget.requests + 1, bytes |-> budget.bytes + 1]
             /\ \A s \in Permits : lease'[s].by = IF s = r THEN {"front"} ELSE lease[s].by
      BY <1>0, <1>1, DispatchShape
    <2>2. Held' = Held \cup {r} /\ r \notin Held
      BY <2>1 DEF Held
    <2>3. Cardinality(Held \cup {r}) = Cardinality(Held) + 1
      BY <2>2, HeldFinite, FS_AddElement
    <2>4. budget.bytes \in Int /\ MaxBytes \in Int
      BY <1>0, DomainsAssumption DEF TypeInv
    <2>5. QED
      BY <1>0, <2>1, <2>2, <2>3, <2>4 DEF CountInv
  <1>2. CASE Restart
    <2>1. Held' = {} /\ budget'.requests = 0 /\ budget'.bytes = 0
      BY <1>0, <1>2, RestartShape DEF Held
    <2>2. QED
      BY <2>1, FS_EmptySet, DomainsAssumption DEF CountInv
  <1>3. ASSUME NEW f \in Fronts, Receive(f) PROVE CountInv'
    <2>1. budget' = budget /\ lease' = lease
      BY <1>0, <1>3, ReceiveShape
    <2>2. QED
      BY <1>0, <2>1 DEF CountInv, Held
  <1>4. ASSUME NEW f \in Fronts, Claim(f) PROVE CountInv'
    <2>1. /\ \A r \in Permits : (lease'[r].by = {}) = (lease[r].by = {})
          /\ budget'.requests = budget.requests /\ budget'.bytes <= MaxBytes
      BY <1>0, <1>4, ClaimShape DEF CountInv
    <2>2. Held' = Held
      BY <2>1 DEF Held
    <2>3. QED
      BY <1>0, <2>1, <2>2 DEF CountInv
  <1>5. ASSUME NEW f \in Fronts, Bind(f) PROVE CountInv'
    <2>1. budget' = budget /\ lease' = lease
      BY <1>0, <1>5, BindShape
    <2>2. QED
      BY <1>0, <2>1 DEF CountInv, Held
  <1>6. ASSUME NEW f \in Fronts, Send(f) PROVE CountInv'
    <2>1. "front" \in lease[front[f].id].by /\ budget' = budget
      BY <1>0, <1>6, SendShape DEF PermitInv
    <2>2. \A r \in Permits :
             lease'[r].by = IF r = front[f].id THEN lease[r].by \cup {"worker"} ELSE lease[r].by
      BY <1>0, <1>6, SendShape
    <2>3. \A r \in Permits : (lease'[r].by # {}) = (lease[r].by # {})
      BY <2>1, <2>2
    <2>4. Held' = Held
      BY <2>3 DEF Held
    <2>5. QED
      BY <1>0, <2>1, <2>4 DEF CountInv
  <1>7. ASSUME NEW f \in Fronts, Timeout(f) PROVE CountInv'
    <2>1. budget' = budget /\ lease' = lease
      BY <1>0, <1>7, TimeoutShape
    <2>2. QED
      BY <1>0, <2>1 DEF CountInv, Held
  <1>8. ASSUME NEW f \in Fronts, FrontUndo(f) PROVE CountInv'
    <2>1. budget' = budget /\ lease' = lease
      BY <1>0, <1>8, FrontUndoShape
    <2>2. QED
      BY <1>0, <2>1 DEF CountInv, Held
  <1>9. ASSUME NEW f \in Fronts, Answer(f) PROVE CountInv'
    BY <1>0, <1>9, AnswerShape, ReturnCounts
  <1>10. ASSUME NEW d \in Domains, Take(d) PROVE CountInv'
    <2>1. budget' = budget /\ lease' = lease
      BY <1>0, <1>10, TakeShape
    <2>2. QED
      BY <1>0, <2>1 DEF CountInv, Held
  <1>11. ASSUME NEW d \in Domains, Process(d) PROVE CountInv'
    <2>1. budget' = budget /\ lease' = lease
      BY <1>0, <1>11, ProcessShape
    <2>2. QED
      BY <1>0, <2>1 DEF CountInv, Held
  <1>12. ASSUME NEW d \in Domains, WorkerUndo(d) PROVE CountInv'
    <2>1. budget' = budget /\ lease' = lease
      BY <1>0, <1>12, WorkerUndoShape
    <2>2. QED
      BY <1>0, <2>1 DEF CountInv, Held
  <1>13. ASSUME NEW d \in Domains, Release(d) PROVE CountInv'
    BY <1>0, <1>13, ReleaseShape, ReturnCounts
  <1>14. ASSUME NEW d \in Domains, Reply(d) PROVE CountInv'
    <2>1. budget' = budget /\ lease' = lease
      BY <1>0, <1>14, ReplyShape
    <2>2. QED
      BY <1>0, <2>1 DEF CountInv, Held
  <1>15. ASSUME NEW p \in Procs, Dies(p) PROVE CountInv'
    BY <1>0, <1>15 DEF CountInv, Held, Dies, service, charge
  <1>16. QED
    BY <1>1, <1>2, <1>3, <1>4, <1>5, <1>6, <1>7, <1>8, <1>9, <1>10, <1>11, <1>12, <1>13, <1>14, <1>15 DEF Next, Front, Worker

-----------------------------------------------------------------------------
(* Theorems                                                                *)

\* Nothing is on its way and nobody is bound when the router first starts.
LEMMA InvInit ==
    Init => Inv
  <1> USE NoneAssumption, DomainsAssumption
  <1> SUFFICES ASSUME Init PROVE Inv
    OBVIOUS
  <1>1. /\ \A f \in Fronts : front[f] = None
        /\ \A d \in Domains : /\ queue[d] = None /\ work[d] = None /\ inflight[d] = FALSE
                              /\ bindings[d] = None /\ owner[d] = None /\ disk[d] = None
        /\ \A r \in Permits : lease[r].by = {}
        /\ Len(ingress) = 0 /\ budget.requests = 0 /\ budget.bytes = 0
    BY DEF Init, Idle, Free, Uncharged
  <1>2. TypeInv
    <2>1. Uncharged \in [Permits -> Leases]
      BY DEF Uncharged, Leases
    <2>2. ingress \in Seq(Permits) /\ budget \in [requests : Int, bytes : Int]
      BY DEF Init
    <2>3. QED
      BY <2>1, <2>2 DEF Init, TypeInv, Idle, Free, Tasks, Slots
  <1>3. CountInv
    <2>1. Held = {}
      BY <1>1 DEF Held
    <2>2. QED
      BY <1>1, <2>1, FS_EmptySet DEF CountInv
  <1>4. PlaceInv /\ ClaimInv /\ LinkInv /\ HoldInv /\ SpentInv
    BY <1>1 DEF PlaceInv, ClaimInv, Claims, Busied, LinkInv, HoldInv, SpentInv
  <1>5. TableInv /\ PermitInv /\ OwnerIsBound
    BY <1>1 DEF TableInv, Live, PermitInv, OwnerIsBound, OwnerLives
  <1>6. QED
    BY <1>2, <1>3, <1>4, <1>5 DEF Inv

\* A step of any thread, a death or a restart keeps the invariant.
LEMMA InvNext ==
    Inv /\ [Next]_vars => Inv'
  <1> SUFFICES ASSUME Inv, [Next]_vars PROVE Inv'
    OBVIOUS
  <1>1. CASE Next
    BY <1>1, TypeStep, PlaceStep, ClaimStep, LinkStep, HoldStep, SpentStep, TableStep, PermitStep,
       CountStep, OwnerStep DEF Inv
  <1>2. CASE UNCHANGED vars
    <2>1. /\ alive' = alive /\ owner' = owner /\ disk' = disk /\ bindings' = bindings
          /\ nextToken' = nextToken /\ inflight' = inflight /\ ingress' = ingress
          /\ front' = front /\ queue' = queue /\ work' = work
          /\ budget' = budget /\ lease' = lease
      BY <1>2 DEF vars, service, router, charge
    <2>2. TypeInv' /\ PlaceInv'
      BY <2>1 DEF Inv, TypeInv, PlaceInv
    <2>3. ClaimInv' /\ LinkInv'
      BY <2>1 DEF Inv, ClaimInv, Claims, Busied, LinkInv, Awaited
    <2>4. HoldInv'
      BY <2>1 DEF Inv, HoldInv, Holds, OwnerLives
    <2>5. SpentInv'
      BY <2>1 DEF Inv, SpentInv, Spent, NotBefore
    <2>6. TableInv' /\ OwnerIsBound'
      BY <2>1 DEF Inv, TableInv, Live, OwnerIsBound, OwnerLives
    <2>7. PermitInv' /\ CountInv'
      BY <2>1 DEF Inv, PermitInv, CountInv, Held
    <2>8. QED
      BY <2>2, <2>3, <2>4, <2>5, <2>6, <2>7 DEF Inv
  <1>3. QED
    BY <1>1, <1>2

\* The invariant holds in every reachable state.
LEMMA Invariance ==
    Spec => []Inv
  BY InvInit, InvNext, PTL DEF Spec

\* The router's promise about I/O owners (IoBinding, validate_io_binding,
\* IoRollback::apply): every live process that a domain has given its
\* descriptor to is bound and journaled, and no process and no caller instance
\* serves two domains, for any number of domains, front threads and processes,
\* whatever is timed out, undone, answered late, left in a journal by a store
\* that failed after its rename, or restarted.
THEOREM IoBinding ==
    Spec => []IoBindingSound
  <1>1. Inv => IoBindingSound
    <2> SUFFICES ASSUME Inv PROVE IoBindingSound
      OBVIOUS
    <2>1. OwnerIsBound /\ TableInv
      BY DEF Inv
    <2>2. IoSeparated
      BY <2>1 DEF OwnerIsBound, TableInv, IoSeparated, OwnerLives, Live
    <2>3. QED
      BY <2>1, <2>2 DEF IoBindingSound
  <1>2. QED
    BY <1>1, Invariance, PTL

\* Admission (ControlBudget::reserve, ControlLease::drop): the number of
\* pending requests is the number of permits somebody holds, and neither
\* limit is ever exceeded.
THEOREM Admission ==
    Spec => []RequestsCounted
  <1>1. Inv => RequestsCounted
    <2> SUFFICES ASSUME Inv PROVE RequestsCounted
      OBVIOUS
    <2>1. budget.requests = Cardinality(Held) /\ budget.bytes <= MaxBytes
      BY DEF Inv, CountInv
    <2>2. QED
      BY <2>1, HeldFinite DEF RequestsCounted, Held
  <1>2. QED
    BY <1>1, Invariance, PTL

\* One operation per domain (DomainPermit): a claimed domain has exactly one
\* request that will free it, and a request on its way has its domain claimed.
THEOREM ClaimExclusive ==
    Spec => []ClaimsCounted
  <1>1. Inv => ClaimsCounted
    <2> SUFFICES ASSUME Inv, NEW d \in Domains
                 PROVE  Cardinality({f \in Fronts : front[f] # None
                                        /\ front[f].pc \in {"reserve", "send"}
                                        /\ front[f].domain = d})
                        + (IF queue[d] # None THEN 1 ELSE 0)
                        + (IF work[d] # None /\ work[d].pc # "reply" THEN 1 ELSE 0)
                        = (IF inflight[d] THEN 1 ELSE 0)
      BY DEF ClaimsCounted
    <2> DEFINE at == {f \in Fronts : front[f] # None /\ front[f].pc \in {"reserve", "send"}
                                     /\ front[f].domain = d}
    <2>1. ClaimInv
      BY DEF Inv
    <2>2. \A f \in Fronts : f \in at <=> Claims(f, d)
      BY DEF Claims
    <2>3. at \subseteq Fronts
      OBVIOUS
    <2> HIDE DEF at
    <2>4. CASE \E f \in Fronts : Claims(f, d)
      <3>1. PICK f \in Fronts : Claims(f, d)
        BY <2>4
      <3>2. inflight[d] /\ queue[d] = None /\ ~Busied(d) /\ at = {f}
        BY <2>1, <2>2, <2>3, <3>1 DEF ClaimInv
      <3>3. Cardinality(at) = 1
        BY <3>2, FS_Singleton
      <3>4. QED
        BY <3>2, <3>3 DEF Busied, at
    <2>5. CASE ~\E f \in Fronts : Claims(f, d)
      <3>1. at = {}
        BY <2>2, <2>3, <2>5
      <3>2. Cardinality(at) = 0
        BY <3>1, FS_EmptySet
      <3>3. /\ queue[d] # None => inflight[d] /\ ~Busied(d)
            /\ Busied(d) => inflight[d]
            /\ inflight[d] => queue[d] # None \/ Busied(d)
        BY <2>1, <2>5 DEF ClaimInv
      <3>4. QED
        BY <3>2, <3>3 DEF Busied, at
    <2>6. QED
      BY <2>4, <2>5
  <1>2. QED
    BY <1>1, Invariance, PTL

=============================================================================
