----------------------------- MODULE NetdDomains -----------------------------
(***************************************************************************)
(* The multi-domain router of candy-netd (v2/domains.rs): a fixed pool of   *)
(* front threads, one control thread per domain, and the table that binds   *)
(* every TUNIO process and caller instance to one domain.                   *)
(*                                                                         *)
(* A front thread validates a request, claims the domain, reserves the      *)
(* binding, queues the request and waits two seconds.  The domain thread    *)
(* goes on when nobody waits any more, so the reservation and the two       *)
(* permits belong to the queued request, not to its caller.                 *)
(*                                                                         *)
(* Of a domain's service (NetdForward) only the I/O owner is kept, in its   *)
(* memory and in its journal.  A process stands for its pid, start time and *)
(* boot; a pid is not used again while one of its requests is on the way.   *)
(* A process may move between namespaces, so that the check of its          *)
(* namespace excludes nothing.                                              *)
(***************************************************************************)
EXTENDS Integers, Sequences, FiniteSets, Functions

CONSTANTS
    None,
    Domains, Procs, Fronts,
    Owners,                \* I/O owners: a process and its caller instance
    MaxPending, MaxBytes,  \* max_pending_control_requests and .._bytes
    Large,                 \* bytes of a large declaration; other requests have 1
    MaxRequests            \* bound on connections

\* DomainBudgets::admit: the budgets hold one request per front thread.
Admitted ==
    /\ Cardinality(Fronts) >= 2
    /\ Cardinality(Fronts) <= MaxPending /\ Cardinality(Fronts) <= MaxBytes

ASSUME DomainsAssumption ==
    /\ \A o \in Owners : o.proc \in Procs
    /\ IsFiniteSet(Fronts) /\ MaxPending \in Nat /\ MaxBytes \in Nat /\ Large \in Nat \ {0}
    /\ MaxRequests \in Nat
    /\ Admitted

Permits == 1 .. MaxPending

\* request_queue_bytes: only declarations can outgrow the ingress charge.
Bytes == [acquire |-> 1, forward |-> Large]

Bindings == [owner : Owners, token : Nat]

\* What a front thread keeps of a request, before and after it is answered,
\* and the two threads pass to each other.
Requests ==
    [pc : {"claim", "reserve", "send", "wait", "undo", "process", "release", "reply"},
     id : Permits, domain : Domains, op : {"acquire", "forward"},
     owner : Owners \cup {None}, token : Nat, previous : Bindings \cup {None},
     ok : BOOLEAN, reply : Fronts \cup {None}]

Answers == [pc : {"answer"}, id : Permits]

ASSUME NoneAssumption ==
    None \notin Requests \cup Answers \cup Bindings \cup Owners \cup Fronts

VARIABLES
    alive,       \* processes that run
    owner,       \* per domain: its service's I/O owner, in memory
    disk,        \* per domain: the I/O owner in its journal
    bindings,    \* per domain: the router's binding
    nextToken,   \* next_binding_token
    inflight,    \* per domain: claimed
    ingress,     \* accepted connections
    front,       \* per front thread: its request and next step
    queue, work, \* per domain: the queued request, the one in process
    budget,      \* PendingBudget
    lease,       \* per permit: bytes charged, and its holders
    accepted     \* connections so far

router == <<bindings, nextToken, inflight>>

charge == <<budget, lease>>

service == <<owner, disk>>

vars == <<alive, service, router, ingress, front, queue, work, charge, accepted>>

Free == [d \in Domains |-> None]

Idle == [f \in Fronts |-> None]

Uncharged == [r \in Permits |-> [bytes |-> 0, by |-> {}]]

Init ==
    /\ alive = Procs
    /\ owner = Free /\ disk = Free /\ bindings = Free /\ nextToken = 1
    /\ inflight = [d \in Domains |-> FALSE]
    /\ ingress = <<>> /\ front = Idle /\ queue = Free /\ work = Free
    /\ budget = [requests |-> 0, bytes |-> 0] /\ lease = Uncharged
    /\ accepted = 0

-----------------------------------------------------------------------------
(* Permits                                                                 *)

\* ControlBudget::reserve
Reserve(r) ==
    /\ budget.requests < MaxPending /\ budget.bytes < MaxBytes
    /\ budget' = [requests |-> budget.requests + 1, bytes |-> budget.bytes + 1]
    /\ lease' = [lease EXCEPT ![r] = [bytes |-> 1, by |-> {"front"}]]

Resized(r, bytes) == budget.bytes - lease[r].bytes + bytes

\* Faulty variant: every holder returns the whole charge.
DropTwice(r, holder) ==
    /\ lease' = [lease EXCEPT ![r].by = @ \ {holder}]
    /\ budget' = [requests |-> budget.requests - 1,
                  bytes |-> budget.bytes - lease[r].bytes]

\* ControlLease::drop: the last holder returns the charge.
Drop(r, holder) ==
    IF lease[r].by = {holder}
    THEN /\ lease' = [lease EXCEPT ![r] = [bytes |-> 0, by |-> {}]]
         /\ budget' = [requests |-> budget.requests - 1,
                       bytes |-> budget.bytes - lease[r].bytes]
    ELSE /\ lease' = [lease EXCEPT ![r].by = @ \ {holder}]
         /\ UNCHANGED budget

-----------------------------------------------------------------------------
(* I/O bindings                                                            *)

Conflict(o, p) == o.inst = p.inst \/ o.proc = p.proc

Live(binding) == binding # None /\ binding.owner.proc \in alive

\* validate_io_binding
Bindable(d, o) ==
    /\ ~Live(bindings[d])
    /\ \A e \in Domains \ {d} : Live(bindings[e]) => ~Conflict(bindings[e].owner, o)

\* IoRollback::apply: only the reservation that is still there is undone.
Undo(req) ==
    bindings' = IF bindings[req.domain] # None /\ bindings[req.domain].token = req.token
                THEN [bindings EXCEPT ![req.domain] = req.previous]
                ELSE bindings

-----------------------------------------------------------------------------
(* Front threads                                                           *)

\* FrontDispatcher::dispatch; a connection that finds no room is closed.
Dispatch ==
    /\ accepted < MaxRequests /\ accepted' = accepted + 1
    /\ Len(ingress) < Cardinality(Fronts)
    /\ \E r \in Permits :
          /\ \A s \in 1 .. r : (lease[s].by = {}) = (s = r)
          /\ Reserve(r)
          /\ ingress' = Append(ingress, r)
    /\ UNCHANGED <<alive, service, router, front, queue, work>>

Answered(id) == [pc |-> "answer", id |-> id]

Step(f, pc) ==
    front' = [front EXCEPT ![f] = IF pc = "answer" THEN Answered(@.id) ELSE [@ EXCEPT !.pc = pc]]

\* recv_request, and process_admitted up to the claim: caller, identity,
\* binding and namespace are checked.  What is refused here is answered at
\* once; so is a request that does not come in time.
Receive(f) ==
    /\ front[f] = None /\ ingress # <<>>
    /\ ingress' = Tail(ingress)
    /\ \/ front' = [front EXCEPT ![f] = [pc |-> "answer", id |-> Head(ingress)]]
       \/ \E d \in Domains, op \in DOMAIN Bytes, o \in Owners \cup {None} :
             /\ (op = "acquire") = (o # None)
             /\ o # None => o.proc \in alive /\ Bindable(d, o)
             /\ front' = [front EXCEPT ![f] =
                             [pc |-> "claim", id |-> Head(ingress), domain |-> d, op |-> op,
                              owner |-> o, token |-> 0, previous |-> None, ok |-> FALSE,
                              reply |-> None]]
    /\ UNCHANGED <<alive, service, router, queue, work, charge, accepted>>

At(f, pc) == front[f] # None /\ front[f].pc = pc

\* One operation per domain; a permit that cannot grow gives the domain back.
Claim(f) ==
    /\ At(f, "claim")
    /\ LET req == front[f]
       IN IF inflight[req.domain] \/ Resized(req.id, Bytes[req.op]) > MaxBytes
          THEN Step(f, "answer") /\ UNCHANGED <<inflight, charge>>
          ELSE /\ Step(f, IF req.op = "acquire" THEN "reserve" ELSE "send")
               /\ inflight' = [inflight EXCEPT ![req.domain] = TRUE]
               /\ budget' = [budget EXCEPT !.bytes = Resized(req.id, Bytes[req.op])]
               /\ lease' = [lease EXCEPT ![req.id].bytes = Bytes[req.op]]
    /\ UNCHANGED <<alive, service, bindings, nextToken, ingress, queue, work, accepted>>

\* The binding is checked again under the lock that inserts it.
Bind(f) ==
    /\ At(f, "reserve")
    /\ LET req == front[f]
       IN /\ IF Bindable(req.domain, req.owner)
             THEN /\ bindings' = [bindings EXCEPT ![req.domain] =
                                     [owner |-> req.owner, token |-> nextToken]]
                  /\ front' = [front EXCEPT ![f].pc = "send", ![f].token = nextToken,
                                            ![f].previous = bindings[req.domain]]
                  /\ UNCHANGED inflight
             ELSE /\ Step(f, "answer")
                  /\ inflight' = [inflight EXCEPT ![req.domain] = FALSE]
                  /\ UNCHANGED bindings
          /\ nextToken' = nextToken + 1
    /\ UNCHANGED <<alive, service, ingress, queue, work, charge, accepted>>

\* try_send: permits and reservation go with the request.
Send(f) ==
    /\ At(f, "send")
    /\ LET req == front[f]
       IN /\ queue[req.domain] = None
          /\ queue' = [queue EXCEPT ![req.domain] = [req EXCEPT !.reply = f]]
          /\ lease' = [lease EXCEPT ![req.id].by = @ \cup {"worker"}]
    /\ Step(f, "wait")
    /\ UNCHANGED <<alive, service, router, ingress, work, budget, accepted>>

\* The receiver of f's reply is dropped.
Unheard(slot, f) ==
    [d \in Domains |->
        IF slot[d] # None /\ slot[d].reply = f THEN [slot[d] EXCEPT !.reply = None]
        ELSE slot[d]]

GivesUp(f, pc) ==
    /\ At(f, "wait")
    /\ Step(f, pc)
    /\ queue' = Unheard(queue, f) /\ work' = Unheard(work, f)
    /\ UNCHANGED <<alive, service, router, ingress, charge, accepted>>

\* Faulty variant: an operation that is still pending is undone as well.
TimeoutUndoing(f) == GivesUp(f, IF front[f].op = "acquire" THEN "undo" ELSE "answer")

\* recv_timeout: the reservation stays, the operation may still complete.
Timeout(f) == GivesUp(f, "answer")

\* After an error of the operation both threads undo its reservation.
FrontUndo(f) ==
    /\ At(f, "undo")
    /\ Undo(front[f])
    /\ Step(f, "answer")
    /\ UNCHANGED <<alive, service, nextToken, inflight, ingress, queue, work, charge, accepted>>

\* The response is sent or lost; the charge lasts until then.
Answer(f) ==
    /\ At(f, "answer")
    /\ Drop(front[f].id, "front")
    /\ front' = [front EXCEPT ![f] = None]
    /\ UNCHANGED <<alive, service, router, ingress, queue, work, accepted>>

Front(f) ==
    \/ Receive(f) \/ Claim(f) \/ Bind(f) \/ Send(f) \/ Timeout(f) \/ FrontUndo(f) \/ Answer(f)

-----------------------------------------------------------------------------
(* run_domain                                                              *)

Take(d) ==
    /\ work[d] = None /\ queue[d] # None
    /\ work' = [work EXCEPT ![d] = [queue[d] EXCEPT !.pc = "process"]]
    /\ queue' = [queue EXCEPT ![d] = None]
    /\ UNCHANGED <<alive, service, router, ingress, front, charge, accepted>>

OwnerLives(d) == owner[d] # None /\ owner[d].proc \in alive

Busy(d, pc) == work[d] # None /\ work[d].pc = pc

\* InfrastructureService::process: a descriptor is only given out when the
\* owner in memory is gone, and anything may fail.  A store that fails after
\* its rename has replaced the journal and not the memory.  Any other
\* operation may write the journal from memory, and so may recover_expired.
\* InfraReleaseIo and InfraRetire clear an owner that is gone: the router sees
\* no difference.
Process(d) ==
    /\ Busy(d, "process")
    /\ LET req == work[d]
           acquires == req.op = "acquire"
           may == acquires => ~OwnerLives(d) /\ req.owner.proc \in alive
           next == IF acquires THEN req.owner ELSE owner[d]
           stored == [disk EXCEPT ![d] = next]
       IN \/ /\ may
             /\ owner' = [owner EXCEPT ![d] = next]
             /\ disk' = stored
             /\ work' = [work EXCEPT ![d].ok = TRUE, ![d].pc = "release"]
          \/ /\ work' = [work EXCEPT ![d].pc = IF acquires THEN "undo" ELSE "release"]
             /\ UNCHANGED disk \/ (may /\ disk' = stored)
             /\ UNCHANGED owner
    /\ UNCHANGED <<alive, router, ingress, front, queue, charge, accepted>>

\* Faulty variant: undoing is left to the thread that waits.
WorkerUndoLeft(d) ==
    /\ Busy(d, "undo")
    /\ work' = [work EXCEPT ![d].pc = "release"]
    /\ UNCHANGED <<alive, service, router, ingress, front, queue, charge, accepted>>

WorkerUndo(d) ==
    /\ Busy(d, "undo")
    /\ Undo(work[d])
    /\ work' = [work EXCEPT ![d].pc = "release"]
    /\ UNCHANGED <<alive, service, nextToken, inflight, ingress, front, queue, charge, accepted>>

\* Both permits are dropped before the reply.
Release(d) ==
    /\ Busy(d, "release")
    /\ Drop(work[d].id, "worker")
    /\ inflight' = [inflight EXCEPT ![d] = FALSE]
    /\ work' = [work EXCEPT ![d].pc = "reply"]
    /\ UNCHANGED <<alive, service, bindings, nextToken, ingress, front, queue, accepted>>

\* A reply that nobody waits for is dropped, and a descriptor with it.
Reply(d) ==
    /\ Busy(d, "reply")
    /\ LET f == work[d].reply
       IN IF f = None THEN UNCHANGED front
          ELSE Step(f, IF ~work[d].ok /\ work[d].op = "acquire" THEN "undo" ELSE "answer")
    /\ work' = [work EXCEPT ![d] = None]
    /\ UNCHANGED <<alive, service, router, ingress, queue, charge, accepted>>

Worker(d) == Take(d) \/ Process(d) \/ WorkerUndo(d) \/ Release(d) \/ Reply(d)

-----------------------------------------------------------------------------
(* Surroundings                                                            *)

Dies(p) ==
    /\ alive' = alive \ {p} /\ p \in alive
    /\ UNCHANGED <<service, router, ingress, front, queue, work, charge, accepted>>

Journaled(d) == disk[d] # None /\ disk[d].proc \in alive

\* MultiDomainService::new: live owners are bound from the journals, and two
\* that conflict keep the service from starting: netd ends and is started
\* again and again, until one of them has gone.
Restart ==
    /\ \A d, e \in Domains :
          d # e /\ Journaled(d) /\ Journaled(e) => ~Conflict(disk[d], disk[e])
    /\ owner' = disk
    /\ bindings' = [d \in Domains |->
                       IF Journaled(d) THEN [owner |-> disk[d], token |-> 0] ELSE None]
    /\ nextToken' = 1 /\ inflight' = [d \in Domains |-> FALSE]
    /\ ingress' = <<>> /\ front' = Idle /\ queue' = Free /\ work' = Free
    /\ budget' = [requests |-> 0, bytes |-> 0]
    /\ lease' = Uncharged
    /\ UNCHANGED <<alive, disk, accepted>>

Next ==
    \/ Dispatch \/ Restart
    \/ \E f \in Fronts : Front(f)
    \/ \E d \in Domains : Worker(d)
    \/ \E p \in Procs : Dies(p)

\* Threads are scheduled and operations of the kernel return.
Spec ==
    /\ Init /\ [][Next]_vars
    /\ \A f \in Fronts : WF_vars(Front(f))
    /\ \A d \in Domains : WF_vars(Worker(d))

-----------------------------------------------------------------------------
(* Properties                                                              *)

\* Every live process that a domain has given its descriptor to is known to
\* the router and to the domain's journal, which is what a restarted router
\* knows: neither a timed-out caller nor the undoing of another request, nor a
\* journal write that fails half way, ever removes it.
OwnerIsBound ==
    \A d \in Domains :
        OwnerLives(d) => /\ bindings[d] # None /\ bindings[d].owner = owner[d]
                         /\ disk[d] = owner[d]

\* No process and no caller instance ever serves two domains, however the
\* requests of two front threads interleave and whatever a failed acquisition
\* left in a journal.
IoSeparated ==
    \A d, e \in Domains :
        d # e /\ OwnerLives(d) /\ OwnerLives(e) => ~Conflict(owner[d], owner[e])

\* The two halves of the router's promise about I/O owners.
IoBindingSound == OwnerIsBound /\ IoSeparated

\* The budget counts the requests that still have memory, no more and no
\* less, across timeouts, lost answers and refusals, and keeps its limits.
RequestsCounted ==
    /\ budget.requests = Cardinality({r \in Permits : lease[r].by # {}})
    /\ budget.requests <= MaxPending /\ budget.bytes <= MaxBytes

\* So it is for their bytes.
BytesCounted ==
    budget.bytes = SumFunctionOnSet([r \in Permits |-> lease[r].bytes],
                                    {r \in Permits : lease[r].by # {}})

\* A claimed domain always has exactly one request to free it, and a request
\* on its way has its domain claimed.
ClaimsCounted ==
    LET at(d) == {f \in Fronts : front[f] # None /\ front[f].pc \in {"reserve", "send"}
                                 /\ front[f].domain = d}
        held(d) == Cardinality(at(d)) + (IF queue[d] # None THEN 1 ELSE 0)
                   + (IF work[d] # None /\ work[d].pc # "reply" THEN 1 ELSE 0)
    IN \A d \in Domains : held(d) = (IF inflight[d] THEN 1 ELSE 0)

\* What the admission of requests relies on (ControlBudget, DomainPermit).
BudgetExact == RequestsCounted /\ BytesCounted /\ ClaimsCounted

\* A reservation whose acquisition fails does not lock the domain: it is
\* taken back also when nobody waits for the result any more.
ReservationSettles ==
    \A d \in Domains :
        Live(bindings[d]) ~> (~Live(bindings[d]) \/ owner[d] = bindings[d].owner)

=============================================================================
