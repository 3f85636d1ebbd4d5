# TLA+ models of candy-runtime

candy-runtime runs an SD-WAN data path on Linux and OpenWrt hosts: a privileged
network service (netd), the process that holds the TUN device (tunio), an agent
that supervises the data path, and the synchronisation with Candy Cloud. This
directory models these programs, checks the models with TLC and proves part of
them with TLAPS.

| file | content |
|------|---------|
| `NetdKernel.tla` | kernel objects of one routing domain and the backend calls that change them |
| `NetdForward.tla` | netd protocol v2: journal, interface, descriptor, forwarding policy |
| `NetdForwardProofs.tla` | type correctness, token order, descriptor exclusiveness: theorems and proofs |
| `NetdFencingProofs.tla` | consumed fences, the progress of owners, proven activation, adoption: theorems and proofs |
| `NetdTransaction.tla` | netd protocol v1: session, journaled transaction, candidate and drain, orphan recovery |
| `NetdTransactionProofs.tla` | session and transaction agree, the live path is kept: theorems and proofs |
| `NetdDomains.tla` | netd's multi-domain router: front threads, domain threads, budgets, I/O bindings |
| `NetdDomainsProofs.tla` | I/O bindings, exact admission, exclusive claims: theorems and proofs |
| `ActivationAgent.tla` | what the agent promises to those who share its state directory (abstract) |
| `SdwanAgent.tla` | the agent's supervision in detail; implements `ActivationAgent` |
| `SdwanAgentProofs.tla` | the refinement of `ActivationAgent`, and steering: theorems and proofs |
| `CloudSync.tla` | sync-once, its grants and the service script, composed with `ActivationAgent` |
| `CloudSyncProofs.tla` | promotion, renewal and rejection: theorems and proofs |
| `TunioAuthority.tla` | tunio's authority endpoint, the packet-port manager, the boot-clock guard |
| `SignedRenewal.tla` | the agent's renewal handoff, composed with `TunioAuthority` and netd's forwarding owner |
| `SignedRenewalProofs.tla` | transactions accounted, handover order, the guard: theorems and proofs |
| `NodeUpgrade.tla` | upgrades ordered by Cloud, with the OpenWrt restart handoff |
| `NodeUpgradeProofs.tla` | one verdict, success only when loaded: theorems and proofs |
| `MC*.tla`, `*.cfg` | instances for TLC |
| `PROJECT.json` | components, runs, source map, mutants, findings, hazards, theorems |

Run a check with `tlc -config NetdReplace.cfg MCNetdForward` (the module of each
run is in the table below) and the proofs with `tlapm NetdForwardProofs.tla`, and
likewise for the other seven `*Proofs` modules.

## Inventory

Paths are below `src/linux/common` unless they start with `src/`.

| component | state it keeps | operations | hard part |
|-----------|----------------|------------|-----------|
| netd v2, `apps/candy-netd/src/v2.rs` | journal (interface identity, I/O owner, retained forwarding record, one candidate, fencing token), lifecycle descriptor | InfraEnsure, InfraAcquireIoFd, InfraReleaseIo, InfraRetire, ForwardPrepare, Authorize, Commit, Guard, Revoke, LeaseRenew, FailedPrefixes, PolicyUpdate; `recover_expired` before each | crash between any two kernel writes, failing rollback, expiry, fencing |
| netd backend, `linux.rs`, `nft.rs` | route table, policy rules, nft table, sysctls | loops of netlink requests | not atomic, order matters for steering |
| netd v1, `network.rs`, `journal.rs`, `lib.rs` | step journal, session, candidate in a second table | prepare, commit with drain, reconfigure, update_policy, suspend, resume, rollback, orphan recovery | best-effort clean-up, drain deadline, recovery by phase |
| netd router, `v2/domains.rs` | I/O bindings, permits, one in-flight flag per domain | admission, dispatch, late completion | caller's timeout against the domain thread's completion |
| netd clients, `crates/candy-netd-client`, `-proto` | NetdSession | framing, requests | lost replies |
| tunio, `apps/candy-tunio` | controller epoch, active and pending authority, high-water marks | prepare, commit, abort owner, precommit recovery, attach, boot-clock guard | exchange over an unreliable socket, guard thread against commits |
| packet port, `src/shared/vendor/candy-packet-port` | attached owner, retained owner, epochs | attach, swap, revoke, drain | vendored |
| agent candidate handoff, `apps/candy-sdwan-agent/src/candidate_ownership.rs`, `signed_mbb.rs`, `signed_renewal.rs` | durable transaction with commit intent, cancellation, retirement | prepare, begin_commit, recover_precommit, retire_expired_commit, lease repair | uncertain outcomes of tunio and netd commits |
| agent managed policy, `managed_policy.rs` | installed and pending policy | hot update through netd and core | two parties to update |
| agent supervision, `lib.rs`, `runtime_agent.rs`, `experimental_tunio.rs`, ... | process records, listener registrations | spawn, supervise, hand off | process identity |
| cloud sync, `apps/candy-cloud-sync` (`lib.rs`, `grant.rs`, `upgrade.rs`) | assignment, grant state, upgrade journal | sync, refresh, upgrade phases | idempotent retry, crash between receipt and journal |
| cloud enrol, `apps/candy-cloud-enroll` | identity file | enrol | one exchange |
| scripts, `src/openwrt`, `src/linux/server` | installed versions, backups | switch, roll back, upgrade | interrupted file switch |
| LuCI, packaging, gates | none | - | - |

The agent decides, netd executes. In the signed renewal the agent prepares a candidate at netd and at
tunio, proves the packet path, commits at tunio and then at netd with a receipt
that names the I/O process, its epoch and the business process. tunio obtains
the TUN descriptor from netd (InfraAcquireIoFd) and hands packets to the worker
that owns the packet port. Cloud sync supplies the signed generation that all of
them carry: sync-once turns a delivery into an immutable activation and moves the
`candidate` pointer, the agent follows the pointer, drives netd (protocol v1) and
Core, and leaves a receipt that the next sync-once reports.

What makes netd v2 correct: traffic is forwarded only under a live, journaled
owner and through its firewall; a prefix of a retained policy is forwarded or
rejected and never left to the main routing table; a commit ends as the new
policy or as the old one; owners and fencing tokens only advance; the descriptor
has one reader; a foreign interface is never adopted; expired owners are fenced
and journaled repairs complete.

What makes the others correct: v1 never leaves in the kernel what its journal
does not cover, and never builds on a record whose firewall is incomplete; the
router binds a live I/O owner to one domain and gives back what a failed request
took; a device activates only what some Core committed, asks for each grant once
and completes a withdrawal wherever it is interrupted; traffic is steered only
into a Core that forwards; a renewal never takes the packet port from the worker
that carries traffic before its successor does; an upgrade job is installed once
and gets one verdict.

## How the models correspond to the code

### netd v2: `NetdKernel`, `NetdForward`

**State.** `mem` is `InfrastructureService.state` and `disk` the journal file,
both records of `States` (`State`, `ForwardRecord`, `PendingPolicy`, `IoOwner`).
`lifefd` is `lifecycle_fd`, `restart` is `restart_recovery_pending`, `up` is
whether the journal could be loaded. `kern` and `dev` are the kernel's objects
and the interface. `now`, `boot`, `alive` are the host. `holders` is the set of
processes that have received the descriptor. `proven` and `torn` are history
variables of the properties `ActivationProven` and `ForwardingIsFiltered`.

**Requests and jobs.** The service is single-threaded. A handler is an action
that evaluates the code's conditions and starts a *job*: the elementary kernel
operations still to execute and the state to persist after them. `Step` executes
one operation, `Finish` performs the journal write and, for a handler that
persists an intent first, goes on with `Continue`. `OpFails` lets an operation
fail after an arbitrary part of its writes, `StoreFails` fails the journal write,
and both continue with the handler's own error path (`OpErrorJob`,
`StoreErrorJob`: rollback, unwinding or nothing). `Crash` may happen between any
two of these steps. Thus a handler's body is never one atomic step, and no other
handler runs inside it. A request the code refuses changes nothing and is not an
action.

**Recovery.** `recover_expired` runs before every request and on the 100 ms
poll. Its stages are the `Recover...` actions, in the order of the code;
`Serving` holds when none is due or the due one was tried and the code goes on
after its failure.

**Kernel.** `NetdKernel` translates each backend call into its sequence of
batches of one kind (routes of the table, selectors to add, selectors to delete,
the nft table, sysctls). The writes of one batch fail in any combination, which
covers every order in which a loop can visit them.

**Abstractions.** A declaration is its Remote, Local and exclusion sets, the
forwarding permission and one value for the attributes a replacement must keep;
prefixes are model values and disjoint. A caller's process identity (pid, start
ticks) is one value; process values may be reused after a reboot, which is what
`boot` in `IoOwner` is for. The administrator value also stands for the immutable
`InfraSpec`. Interface indexes and ownership markers are drawn from one counter,
which abstracts a random marker by a fresh one. Checksums, permissions and frame
formats are left out.

**External parts** (marked so in the map): the clock, process exits, a crash, a
host reboot, the deletion of the interface by somebody else and a foreign
interface of the same name.

### netd v1: `NetdTransaction`

`mem` is `NetworkTransaction.record`, `disk` its journal, `session` the
`NetdSession` of the protocol crate, `tun` and `fd` the descriptor and its
duplicate. A handler is a *script* (`job`): the backend calls and journal writes
of the method in the order of the code, each with the branch it takes when the
call fails: return, ignore, or continue with clean-up. One step runs one element;
`Crash` may fall between any two. What the journal's encoding drops or refuses
(a candidate owned by the owner itself, a candidate of an older generation) is
part of the write (`encode_record`, `decode_record`). The main loop alternates
between one request and `recover_orphan` (`turn`). `torn` and `doubtful` are
history variables for two situations the properties exempt. `torn` holds the
tables in which a removal outside clean-up failed. `doubtful` says that a write
replaced the file and then reported an error: the file may name what is not in the
kernel (`"disk"`) until it is written again, and when the service restarts from
such a file so may its memory (`"both"`), until clean-up removes the record.

### netd router: `NetdDomains`

A front thread (`front`) validates, claims the domain, reserves the I/O binding,
takes a permit for the request and one for its bytes, queues the request and
waits; the wait may time out at any moment. A domain thread (`work`) executes and
settles the reservation whether or not anybody waits. Of a domain's service only
the I/O owner is kept, in memory (`owner`) and in the journal (`disk`);
`NetdForward` has the rest. A store that fails after its rename leaves the new
owner on `disk` while memory keeps the old one and the binding is undone. `Restart`
may come at any time; it loads the owners from the journals, rebuilds the bindings
from them and refuses journals whose live owners conflict. `ReleaseIo` and
`Retire` clear only an owner that is dead. A process stands for pid, start time and boot, and a pid is not
used again while one of its requests is in flight. Processes may move between
namespaces, so the namespace check excludes nothing.

### Activation: `ActivationAgent`, `SdwanAgent`, `CloudSync`

`ActivationAgent` is the abstract specification: which activation the tunnel
serves, whether traffic is steered into it, which receipts are left. `CloudSync`
composes it with the synchroniser: every file of the state directory is a
variable, every write of sync-once an action, and `sync` says which write comes
next. `SdwanAgent` is the detailed agent: `proc.pc` is the point of the
supervision loop, `proc` also holds the client's view of netd, `core` and `net`
are what Core and netd hold. Each netd or Core call may be refused, be lost
before it takes effect, or lose its answer (`LostReplies`). `ImplementsContract`
is the refinement: `INSTANCE ActivationAgent` with the abstract agent computed
from `proc`, `core` and `net`, so what `CloudSync` relies on is what the agent's
code does. Two activations may carry the same generation (lib.rs:4104-4111 compares
with `>=`, so that a credential can be refreshed), hence the contract lets the
pointer go back to the activation being served while a replacement is pending.
The service script runs sync-once and then reconciles, or defers that to a later
round (`Defer`); a user's stop of SD-WAN (`stopped`, `UserStops`, `UserStarts`)
makes it leave everything as it is until a different candidate arrives. A server
whose own configuration changed forgets the etag in memory (`Loaded`).
Core is external. Signatures, certificates and the contents of a
delivery are verdicts; time is an age of grants and rejections.

### Renewal handoff: `TunioAuthority`, `SignedRenewal`

`mgr` is the packet-port manager (owner, retained predecessor, one prepared
candidate, last outcome), `ctl` the endpoint's `Controller` with its envelopes,
`guard` what the boot-clock guard copied before it dropped the lock. Endpoint
operations are functions of these states, because each runs under the controller
mutex; the guard's reading and revoking are separate actions. `SignedRenewal`
adds the agent: `jr` is `renewal.json`, `orec` and `crec` the process records,
`fw` netd's forwarding owner and candidate, `ag.pc` the next request. An exchange
may fail before or after it took effect, the agent may die anywhere, workers may
die and authorizations may end. The process that holds the TUN device does not
die (everything here would end with it), a worker is recorded and forwarding at
the start, and managed policies are left out.

`UnknownProbeRefused` selects how the endpoint answers the discovery probe. The
code's answer (TRUE) is what `RenewalProbe` checks, and with it no renewal starts.
`Handoff` sets it to FALSE, that is, it checks the protocol behind discovery as it
would run if the probe succeeded; everything else in it is the code's.

### Upgrades: `NodeUpgrade`

`jrn` is `receipt.json`, `marker`, `completed` and `failure` are the evidence
files, `exe` and `loop` the Runtime each process has loaded. Each write, removal,
exchange and restart is an action. The helper stops the service and starts it in
two steps (`HelperStop`, `HelperStart`): when it dies between them, or gives up
after failed starts, the service stays down (`Deserted`) until a reboot. OpenWrt's
update manager refuses an older Runtime (`Accepted`). A version stands for a release's files and
digests; the catalog and the package managers are verdicts; Cloud is external and
keeps one open job per node.

## Runs

Bounds are constants of the modules, checked in the guards of the actions.

| run | module | instance | result |
|-----|--------|----------|--------|
| `NetdReplace` | `MCNetdForward` | three owners (the third outranks by its token alone), both policies, one policy revision, time to 2, two faults, fairness | all hold |
| `NetdPublish` | `MCNetdForward` | two owners, both policies, one failure revision, one policy revision, time to 1, one fault, unknown store outcome, fairness | all hold |
| `NetdDevice` | `MCNetdForward` | two processes, two I/O epochs, two boots, one fault, device loss, a foreign device | all hold |
| `NetdTransaction` | `MCNetdTransaction` | two owner processes, a policy update in the table and a replacement in another, one generation, one fault | all hold |
| `NetdDomains` | `MCNetdDomains` | two domains, two processes as three owners, two front threads, two requests, stores that fail on either side of the rename, restarts at any time | all hold |
| `CloudSync` | `MCCloudSync` | a prepared and a committed delivery, two renewals, deferred reconciliations, two faults of which one may be the user's stop | all hold |
| `SdwanAgent` | `MCSdwanAgent` | three activations: one tunnel with two policies, then another tunnel; one fault | all hold |
| `Handoff` | `MCSignedRenewal` | two renewals after the first owner, one lost exchange and one death | all hold |
| `NodeUpgrade` | `MCNodeUpgrade` | both platforms, two jobs, three versions, three faults, one installation by hand | all hold |
| `NetdRepairJournal` | `MCNetdForward` | one owner, device loss, two faults | violated, see below |
| `CloudSyncWedged` | `MCCloudSync` | as `CloudSync` with a refused delivery, interrupted before the proof | violated |
| `RenewalProbe` | `MCSignedRenewal` | one renewal, nothing fails, fairness | violated |

**netd v2.** Prefixes `a`, `b`, `l`, `x` make two policies: Wide forwards `a`, `b`
with Local `l`; Narrow forwards `b` and makes `a` Local. They share a Remote
prefix, and one prefix changes its role, which is what the order of writes can get
wrong.

*Replacement* (`NetdReplace`). `KernelSound` joins six statements about kernel and
journal. `ForwardingIsJournaled`: whatever forwards, or is a firewall table,
belongs to an unrevoked record on disk. `ExpiredNeverForwards`: no request is
served over routes of an expired owner. `ActiveMatchesKernel`: between requests
the kernel holds exactly the retained plan, or a more closed one after a fault.
`ForwardingIsFiltered`: nothing forwards without the nft table, except during a
commit over a guarded owner (whose I/O is quiesced). `NoFallthrough`: routes and
selectors shared by the policies in force survive every write.
`CommitIntentKept`: the intent outlives the rollback. Besides it, about fencing:
`TokensDominate` (every token held is remembered), `FenceConsumed` (the remembered
token never falls while the domain exists, and every owner or candidate that comes
has a larger one, so a cancelled or expired token never comes back),
`OwnerAdvances`; `GuardedUndisturbed`: replacing a
guarded owner, or undoing it, never interrupts a shared prefix; `ExpiryFences` and
`CommitResolves` (liveness). Two faults are needed for a failing rollback of a
failing commit and for a cancelled publication whose fencing fails, and three
owners for a candidate that loses against a cancelled one.

*Publication* (`NetdPublish`). `PublicationSound` (`FailedNeverForwards` and, under
publication, `ActiveMatchesKernel` and `NoFallthrough`), `JournalLoadable` (what
the service stores, `load` accepts), `PublicationUndisturbed`, and the liveness
property `RepairsConverge`.

*Device* (`NetdDevice`). `IoExclusive`, `DeviceOwnership` (`NoForeignAdoption` and
`RetiredLeavesNothing`), `ActivationProven` (an owner with a bound authority is
active only after a commit that saw its I/O owner and business process). Time
stands still here: no lease decides about the device.

**netd v1** (`NetdTransaction`). `DurableIsFiltered`: a record that Resume or
Commit may build on has its whole firewall in the kernel, at every moment a crash
can come. It is a claim about a single failure; when the restoration after a failed
call fails as well, the code does not keep it (see the observations). The instance
in which the update changes the remote prefixes only, and so keeps the firewall,
was checked once (5.6 million states) and holds. `ResidueIsJournaled`: every firewall and changed sysctl is covered by the
durable record, so clean-up finds it. `LivePathKept`: staging, failing or
discarding a candidate takes nothing from the live declaration. `SessionSound`:
the types, and session and transaction name the same owner. One generation is
enough because a generation only matters by its order and the encoding's check of
it; the instance with two generations (7.5 million states) was checked once and
holds. Deadlock is not checked: time is bounded, and a service whose processes are
gone and whose clock has stopped has nothing left to do.

**Router** (`NetdDomains`). `IoBindingSound`: every live I/O owner is bound and in
its domain's journal (`OwnerIsBound`), whatever stores failed, and no process or caller instance serves two domains
(`IoSeparated`). `BudgetExact`: the budgets count the unfinished requests
(`RequestsCounted`) and their bytes (`BytesCounted`), and a claimed domain has
exactly one request that will free it (`ClaimsCounted`). `ReservationSettles`: a
reservation ends as a binding or is given back, also when its caller has timed
out. Two domains and two fronts give the race for one process and for one
instance; byte budget 3 against a request of 2 makes the byte limit bite.
Deadlock is not checked because connections are bounded.

**Cloud sync** (`CloudSync`). `ActiveSound`: the types, and the active pointer
names only what some Core committed. `IssuanceIdempotent`, `RejectionHolds`,
`DeliveryConverges`. `WithdrawalCompletes`: once Cloud has no configuration for the
device, steering ends and the candidate goes in any case; active pointer and proof
go unless the loop defers for ever or the user stopped SD-WAN, the two cases in
which the script leaves them alone. Interruptions are taken at every write except
the one between pointer and proof, which `CloudSyncWedged` is about; in place of
the reconciliation the loop may always defer it. With a third delivery, one that Core
refuses, the instance (871,087 states) was checked once and holds; such a delivery
ends the round where it is fetched and leaves every file as it was.

**Agent** (`SdwanAgent`). `SteeringSound`: the types, and traffic is steered only
into a Core that forwards for it. `CommittedIsServed`: Core runs what the agent
reports as committed, and netd has its policy in force or that of an update which
netd applied without the agent knowing and which is to be retried (`Reportable`);
a netd without a session, or with the replacement still staged, may have the
previous one. `ImplementsContract`, `WithdrawalEndsSteering`. Every answer may be
lost but that of Resume, with which `SteeringSound` does not hold; a lost answer of
Core's suspension does it no harm with the run's single fault (see the
observations). `CommittedIsServed` was checked once with every answer lossy, that of
Resume included, and two faults (2.2 million states), and holds.

**Handoff.** `TransactionsAccounted`: a cancelled transaction never owns the port,
and whatever is pending at the manager is in the journal. `HandoverOrdered`: intent
on disk, then packet port, then netd. `GuardSparesSuccessor`: the guard revokes
only an owner whose authorization ended. `CarrierKept`: the agent never stops the
worker that owns the port while netd forwards for it.
`PredecessorOutlivesHandover`: a predecessor is stopped only after it left the
port. The bounds separate lost exchanges from deaths; the instance with any two
faults (5.2 million states) was checked once and holds.

**Upgrade** (`NodeUpgrade`). `SettledOnce`: one installation and one verdict per
job. `SuccessIsLoaded`: success on OpenWrt means both processes run the new
Runtime. `JobSettles`, `HandoffEnds` (liveness): both exempt an installation by
hand and a service that its helper left down, until the reboot that ends this (see
the observations). Three faults cover a crash, a lost report and a failed restart in
one job; an instance with three jobs and one fault (1.2 million states) was checked
once and holds.

**Fairness.** netd v2: weak fairness of the running job and of recovery, because
the main loop calls `recover_expired` every 100 ms and a handler runs to its end;
strong fairness of the clock, because time passes although jobs interrupt `Tick`
in the model. Router: weak fairness of each thread; kernel operations return.
Cloud sync: the service script repeats sync-once, and reconciles or defers after
it (nothing promises that it does not defer for ever); the agent, while it runs or
may be started, inspects its pointer in every round and ends what it started. Agent: its thread runs, and
netd's main loop looks at drains and leases. Upgrade: the loop of a running service polls
for ever, a started helper runs to its end. Renewal (`RenewalProbe` only): the agent repeats
its run. No fairness on requests, on faults, crashes or on what the outside does.
Faults are bounded, so a fault that never goes away is outside these properties.

Every property has at least one mutant in `PROJECT.json`, a conjunction often one
for each part: a variant of a definition, as a plausible mistake in that code would
make it, under which TLC finds the property violated. Deadlock is checked in every
other passing run.

## Disagreements between the code and its documentation

1. **Device repair with a pending publication** (`NetdRepairJournal`). A
   publication fails, the interface is deleted, the administrator repeats
   `InfraEnsure`. The repair revokes the record and keeps its pending policy;
   the journal written then is rejected by `load`, and the service cannot be
   restarted.
2. **Interrupted promotion** (`CloudSyncWedged`). sync-once ends between the active
   pointer and the proof that belongs to it. Every later run that finds no usable
   receipt fails before it asks Cloud for a configuration, so neither a newer
   delivery nor a withdrawal arrives until an agent publishes a receipt again.
3. **Discovery of a renewal** (`RenewalProbe`). A renewal begins with a probe of a
   fresh random transaction; the endpoint refuses to probe a transaction it does
   not know, and the agent takes the refusal for an error.

Observed while modelling, without a run of their own.

*netd v1:*

- `reconfigure` of a suspended declaration journals its intent the way
  `update_policy` does: RollingBack, the candidate, the requester as its owner. If
  a backend call fails and the restoration fails too, the record stays in memory,
  and `recover_orphan` takes it for an interrupted policy update when the requester
  is the recorded owner (network.rs:603-611). `recover_policy_update` puts the
  firewall back only if it differs between the two declarations
  (network.rs:687-690); `reconfigure` had removed it whatever differs. When only the
  remote prefixes differ, a durable Suspended record without a firewall results,
  which "a failed restoration must never leave" (network.rs:809-812). A crash is
  harmless: the decoded record has no candidate owner. It takes two failures, which
  is why `DurableIsFiltered` claims a single one: without its condition on `faults`,
  TLC finds this with `MaxFaults = 2` and a second declaration that differs from the
  first in `remote` only.
- A Draining record whose owner is gone before the deadline is handed to `drain_old`
  (network.rs:643-652), which refuses until the deadline: recovery fails and the
  main loop ends, as it does for every failed recovery.
- The proof that memory and journal agree failed where a write reports an error
  after the rename and a restart reads that file: the record is then current in
  both places while the kernel has the older state, until it is cleaned up. The
  history variable `doubtful` has a value for it, and `DurableIsFiltered` exempts it.

*netd v2:*

- A rollback to an owner that expired meanwhile revokes its record and leaves the
  candidate's selectors (v2.rs:1689-1710); `validate_forwarding_replacement`
  (linux.rs:1301-1340) then refuses every candidate, although README-v2.md:10
  allows one after a revoked policy.
- `ForwardGuard` is accepted while a failure snapshot is pending (v2.rs:611-628),
  and recovery retries only active owners (v2.rs:1545), unlike README-v2.md:54-55.
- A publication that was cancelled or expired is fenced before each request
  (v2.rs:1524, 1601); that fencing restores the old plan and needs the interface
  (linux.rs:1080). If the interface is gone, every request fails, the
  `InfraEnsure` that would repair it included.
- When the directory sync fails after the rename (v2.rs:311), the new journal is
  on disk and memory keeps the old one. With the outcome `"replaced"` in
  `StoreOutcomes`, `NetdReplace` no longer satisfies `CommitIntentKept`,
  `ForwardingIsJournaled`, `ExpiredNeverForwards` and `ForwardingIsFiltered`:
  after the last write of a commit, the journal may name the new owner while the
  kernel is rolled back to the old one, and if a crash cuts that rollback short
  the restarted service takes a half-undone kernel for the new owner's. `NetdReplace`
  therefore uses `{"kept"}`; `NetdPublish` and `NetdDevice`, with one fault, use
  both outcomes.
- A revocation without a pending publication journals nothing before it rejects
  the routes and removes the firewall. If it is cut short there, the record is
  still active: a later failure snapshot can put a forwarding route back without
  the nft table, and a later publication cannot complete, because
  `replace_firewall` needs the table. `torn` records this situation;
  `ForwardingIsFiltered` and `RepairsConverge` exempt it.
- A failed journal write in renew, authorize or release fences the live routes
  and nothing puts them back before the next commit or publication.
- An initial commit whose unwinding fails too leaves a Prepared record with
  forwarding routes; recovery at the next restart or expiry removes them.
- Losing the interface leaves selectors with no route until it is repaired; only
  then does traffic fall through, so `NoFallthrough` is about an interface in
  place.
- The ownership marker is written by name (linux.rs:1110-1124). Deleting the new
  interface and creating another of its name between `create_exclusive` and the
  stamp marks the other one, and a crash before its descriptor is compared makes
  the recovery adopt it. It takes three events of somebody else in one creation:
  TLC finds it with `MaxFaults = 3`, and `NoForeignAdoption` holds in `NetdDevice`,
  which has one. Without the deletion it always holds (`Adoption`).
- `InfraRetire` erases the fencing token and the I/O epoch with the journal.
- The clock is read before the request frame (main.rs:162), so a handler's `now`
  may be two seconds old.

*netd v1 and router:*

- `update_policy` journals its candidate with the owner itself as candidate owner;
  `decode_record` (journal.rs:361-363) drops such a candidate, so the in-place
  repair of `recover_orphan` (network.rs:599-604, "a crash must never tear down the
  live TUN") is never taken after a restart and the tunnel is cleaned up.
- The journal's V4 form of a record with a candidate and failed prefixes cannot be
  read back, and a candidate of an older generation than its owner cannot be
  written.
- Resume, and the commit of a candidate, install the rule before they journal it. A
  rollback while draining never removes the candidate's rule. `reconcile_routes`
  (linux.rs:404-408) leaves prefixes that a policy dropped. Removing a candidate's
  firewall also removes the global DOCKER-USER rules.
- A failed candidate commit leaves the session Prepared with a pending candidate. An
  owner that dies during a drain ends the main loop.
- An acquisition that times out and then succeeds leaves its domain with an owner
  that never got the descriptor, until that process exits.
- When the store of an acquisition fails after its rename (v2.rs:311-312), the
  router undoes the binding (domains.rs:1076) although the journal names the
  process. If the process then acquires another domain, two journals name it, and
  netd refuses to start (domains.rs:600-601) until the process ends.

*Agent:*

- A candidate superseded between staging and Core's commit is discarded with
  `NetdClient::rollback` (lib.rs:3515-3530), after which netd and client are
  Stopped: the next lease renewal is refused and the healthy tunnel is torn down
  (lib.rs:3374-3378, "Never tear down the currently active lane").
- netd's own drain at the deadline resets the session (network.rs:643-651), so the
  agent's later Drain or Renew is refused and the committed tunnel is torn down
  (unlike network.rs:444-447).
- A failed rollback of a staged candidate leaves netd Staged, where a withdrawal
  cannot suspend steering. A lost reply of Resume leaves steering into a suspended
  Core. So does a lost answer of Core's suspension: the peers return, Core is
  resumed, netd refuses to resume the steering, Core is suspended again
  (lib.rs:3332-3337), and the answer to that is lost (the lease cannot be renewed
  or the deadline passes after the request was written, lib.rs:1745-1752). The
  agent takes Core for resumed and the next recovery restores the steering only.
  TLC finds this with `LostReplies = {"CoreSuspend"}` and two faults. An error of `commit_replacement` after Core's commit leaves a rejected
  receipt for what Core serves; an unresolved Core commit may end as a committed
  receipt that netd never committed.
- A withdrawn activation is resumed when a later replacement is refused while
  suspended; after a withdrawal, publishing the same activation again does not
  resume steering. A lost policy update leaves netd and Core with different
  policies.

*Cloud sync and upgrades:*

- Answer 304 with phase commit reports "active" while the candidate is still pending
  (lib.rs:2125-2127). A rejected hot replacement drops the candidate pointer, which
  suspends the last good one (docs/FAILURE_CODES.md:14-15). A replayed grant that
  has expired is asked for again for ever.
- While the user has stopped SD-WAN, every reconciliation returns at once
  (candy.init:4375-4392). When Cloud withdraws the configuration then, active
  pointer and proof stay: a start is refused without a candidate, and only a
  different candidate ends the stop. The loop likewise defers the clearing as long
  as the service is disabled, in transition or faulted (candy-cloud-sync-loop:53-92).
- The handoff helper restarts the service by a stop and a start. If it is killed
  between them, or five attempts do not make the service run
  (candy-cloud-sync-handoff:127-137), nothing starts it again before a reboot, and
  job and marker stay as they are. A lock directory without a pid, left by a helper
  killed while it took the lock, makes every later helper fail (68-87). A catalog
  that no longer lists the job's version fails the job's poll for ever
  (upgrade.rs:1354-1360); in the model that is a bounded fault.
- `candidate()?` failing before the upgrade journal exists leaves the job without a
  receipt. An interruption after the installation reports "failed" and never hands
  off. An installation by hand during a handoff makes `runtime_handoff_marker_conflict`
  or `handoff_binary_changed` permanent, which is why `JobSettles` and `HandoffEnds`
  exempt it.

*Renewal handoff:*

- A commit intent whose outcome is "aborted" can never be resolved. A crash between
  spawning a worker and recording it leaves a worker that is only waited for. The
  owner cut at its deadline is journaled after netd's Prepare, so an undo after a
  crash leaves netd's candidate until its lease ends.

## Proofs

The theorems hold for every choice of the constants that satisfies their
assumptions, and for any number of faults, crashes and restarts.

| module | theorem | statement |
|--------|---------|-----------|
| `NetdForwardProofs` | `TypeCorrectness` | `Spec => []TypeOK` |
| | `TokenDominance` | `Spec => []TokensDominate` |
| | `IoExclusiveness` | `Spec => []IoExclusive` |
| `NetdFencingProofs` | `FenceConsumption` | `Spec => FenceConsumed` |
| | `OwnerProgress` | `Spec => OwnerAdvances` |
| | `Activation` | `Spec => []ActivationProven` |
| | `Adoption` | `~DeviceLoss` implies `Spec => []NoForeignAdoption` |
| `NetdTransactionProofs` | `SessionSafety` | `Spec => []SessionSound` |
| | `LivePathSafety` | `Spec => LivePathKept` |
| | `ResidueSafety` | `Spec => []ResidueIsJournaled` |
| `NetdDomainsProofs` | `IoBinding` | `Spec => []IoBindingSound` |
| | `Admission`, `ClaimExclusive` | `Spec => []RequestsCounted`, `Spec => []ClaimsCounted` |
| `CloudSyncProofs` | `Promotion` | `Spec => []ActiveSound` |
| | `Renewal` | `Spec => []IssuanceIdempotent` |
| | `Rejection` | `Spec => RejectionHolds` |
| `SdwanAgentProofs` | `Refinement` | `Spec => ImplementsContract` |
| | `Steering` | `Spec => []SteeringSound`, if the answers of Resume and CoreSuspend are not lost |
| `SignedRenewalProofs` | `EveryTransactionAccounted` | `Spec => []TransactionsAccounted` |
| | `HandoverKeepsOrder` | `Spec => []HandoverOrdered` |
| | `GuardNeverHitsSuccessor` | `Spec => GuardSparesSuccessor` |
| `NodeUpgradeProofs` | `OneVerdict` | `Spec => SettledOnce` |
| | `LoadedBeforeSuccess` | `Spec => SuccessIsLoaded` |

*Assumptions* are those of the constants: bounds are naturals; in `NetdForward`,
owners carry a positive token and a lease within their authorization (the
protocol's validation) and declarations are valid (`PrepareDeclaration::validate`);
in `NetdTransaction`, declarations have remote prefixes that are not also local,
so there is a prefix;
in every module `None` is none of the values it is told apart from
(`NoneAssumption`, `DeviceAssumption` for interfaces and `NoneRenewalAssumption`
for the records of the handoff). Two theorems have a hypothesis of their own, and
need it: `Steering`, because with either answer lost the property is violated, and
`Adoption`, because a deletion between creation and stamp breaks it (see the
observations about the agent and about netd v2).

Each invariant below was checked with TLC before it was proved, on the instance
of its run, on a larger one or, for `DeviceInv`, on one with more faults and no
deletion.

### netd v2

`TypeOK` is not inductive: a handler's continuation is computed from
`mem` when its first journal write is done, so the job must be known to fit it.
`TypeInv` adds that both journals are *good* (`GoodState`: well typed, tokens
ordered, a candidate has an owner to replace) and `JobOK`, which says of each kind
of job what its operations contain, that its final state is good, and which
records its continuation or its error path will read (a "failing" or "failures"
job has a pending snapshot, an "install" or "rollback" job a candidate, and so
on). One lemma per job constructor shows that it is well formed, one lemma per
group of actions that `TypeInv` is kept. Token order is a part of `GoodState`,
so `TokenDominance` follows from the same invariant.

`IoExclusive` says nothing about the journal, and it is the journal that
prevents a second reader. `IoInv` adds `Bound` for `mem`, for `disk` and for the
state a job is about to write: every holder is the recorded I/O process of this
boot. A new descriptor is handed out only when the recorded process is not
running; holders are running; hence there is none. `Bound` has to hold of all
three states because a crash or a failing store can make any of them current.

`FenceConsumed` and `OwnerAdvances` relate two states, and neither follows from
one handler: the state a handler computes becomes current many steps later, or
after a crash, or, when a store fails with unknown outcome, only at the next
restart. `MemoryFollowsJournal` shows that memory only ever becomes `job.final`
or `disk`; `FencingInv` says that both *follow* `mem` (the remembered token is no
smaller, an owner or candidate that `mem` does not hold has a token above it, the
owner's record advances), and that this stays so:
a pending snapshot or policy carries revisions no older than those in force, a
candidate is no older than its owner, and a record in `Preparing`, which a
repeated preparation replaces, has no revision to lose. The fence is consumed
per domain: retirement erases the journal with the token.

`ActivationProven` compares what is active with what a commit found, and the
record that becomes active may wait in the journal for a later step or restart.
`ProvenInv` therefore says of `mem`, `disk` and `job.final` that they are *backed*:
an active record with an authority has its witness in `proven`, and the epoch of
the I/O owner is the durable I/O epoch, since a commit compares the former and
records the latter. A "commit" job's candidate is witnessed before it is active;
every other job *retains*: it makes nothing active that was not. The witnesses are
never removed, so a rollback to the previous owner needs no new one.

`NoForeignAdoption` rests on the order of a creation. `DeviceInv` says that a
foreign interface is unmarked, that an open lifecycle descriptor belongs to the
present interface and that this is the service's own, and that the stamp is the
next operation only while the descriptor is open. For the last part the type of a
job says which operations follow each other in a creation (`CreateOps`) and that no
other job contains a stamp. `LoseDevice` breaks the second part, whence the
hypothesis `~DeviceLoss`.

### netd v1

A handler is a sequence of elements, and a step takes the first one away, so
every invariant is a statement about the positions of `job.todo` that its tail
inherits. `ServiceInv` says so of the shape: `WellFormed` for each element, `Shape`
(only a refusal or an adopting write can come first when there is no record, a
clear comes last), `CleanupShape` (what clears bits of the record runs under
RollingBack, after its first write) and `Catchable`, which is what an error branch
relies on: a clean-up has no candidate to lose, a dropped candidate exists, a
restoration has the record the request started from and the intent that was
journaled. With that, the branch that starts after a failure is again such a
script (`CaughtScripted`), and so is what a success leaves (`TailScripted`,
`ThenScripted`). One lemma per handler shows that what it returns is one.

`SessionSafety` then needs `AgreeInv`: every record the script will write belongs to
the process of the session, of the session the request will leave, and of the
record it started from; and what recovery still has to do (`Recovers`): its script
ends in a write that is not RollingBack, or in a clean-up that has an element for every
step bit and for the candidate, so that it clears the record or reports an error.
The second half is why a poisoned transaction never meets a client.

`LivePathSafety` is about two states. `LiveInv` says that whenever a record with a
staged candidate is in memory, or is written by an element of the script, no
element of the script touches firewall or rules of its live table (`Sparing`).
The tables differ by `SoundRecord`. `AppliedEffect` shows, call by call, that a
backend call, completed or not, leaves the firewalls and rules of the other
tables alone.

`ResidueSafety` takes one object at a time: the firewall of a table, or the changed
sysctls. `ResidueInv` says that a present object is accounted for by the journal and
by the record in memory, and gives the rest of the script a `Plan` for it. Outside
clean-up there are three: every record it writes accounts for the object (`Kept`);
the object is absent and a record that accounts for it is written before anything
creates it (`Raised`); nothing creates it, and a record that does not account for it
is only written after its removal (`Released`). Inside clean-up (`Cleaned`), a bit is
cleared only after the removal it stands for succeeded, and the candidate is
dropped only when no error was met. One lemma per handler shows that the script it
returns has such a plan, one per kind of step that the rest of the script keeps
it, and `CaughtPlan` that an error branch starts with one. That memory and journal
both account for the object is what a crash and a failed write need: either
may be the record that clean-up starts from. A journal write that fails leaves the
old or the new file, so both must do.

### Router

The difficulty is that a caller that has timed out and the domain thread that
completes its request both undo, free and return permits. `ClaimInv` says that
one request at a time holds the claim of a domain, in a front thread, in the
queue or in the domain thread; hence only the claimant changes the domain's
binding. `HoldInv` describes a reservation that is not decided: it is in the
table, and the service's and the former owner are gone, so both deciding it and
undoing it keep `OwnerIsBound`. `SpentInv` says that a reservation that was
undone never comes back, because tokens are used once (`TableInv`); a front thread
that undoes after the domain thread did so finds another token and changes
nothing. The journal of a domain may name an owner that memory does not know, after
a store that failed past its rename; then the owner in memory is none that lives, so
`OwnerIsBound` asks nothing of it, and `Restart`, which makes the journals the
memory, binds every live owner they name. `LinkInv` ties a waiting thread to the
request that will answer it, `PermitInv` gives every request a permit of its own, and `CountInv` is the count.
`BytesCounted` stays with TLC: it is a sum over a function, and what such a sum
does under an update needs induction.

### Cloud sync

`ActiveIsCommitted` needs to know that the receipt another process rewrites is
about a committed activation whenever it says so (`ReceiptInv`), also the copy
sync-once has read (`VerdictInv`). `Renewal` needs that the pending transaction
is the one after the completed one and that a completed one was answered
(`GrantInv`). `Rejection` is an action property: a rejection is always of the
delivery the state names, the delivery in hand is never that one, and the state
in memory is the one on disk when a configuration is fetched (`RejectInv`), but for
the etag that a server may have forgotten, which the property exempts.

### Agent

`Refinement` is a step simulation under the mapping of `ImplementsContract`: one
lemma per action shows which step of `ActivationAgent` it is, or that it is none.
`Inv` says of each point of the supervision loop what the process holds there
(`StartInv`, `NextInv`, `SteerInv`, `FallbackInv`: a replacement in hand, the
caller a shared step returns to, what is known of steering and Core), that a
session of netd has a record, and that a committed receipt is about a settled
activation. The proof attempt showed that an earlier form of the contract was too
strong for activations of equal generation; it was corrected (see Activation
above). `Steering` adds `ForwardInv`: what the agent believes of steering and of
Core is on the safe side of what holds. A stopped Core is known to be stopped,
suspended steering is suspended, and during the clean-up of a stopped Core there
is no rule.

### Renewal handoff

The agent, tunio's endpoint, the packet-port manager, the guard and netd keep
their own picture of who owns the port, and none of the checked properties is
inductive by itself. `Inv` has three layers, all operators of values, so that a
lemma about a request states the state before and after it in the same words:

- `Port` relates the endpoint to the manager and mentions nobody else. While the
  port has an owner the endpoint knows its epoch (`Agreed`), the manager holds a
  transaction only for the envelope the endpoint staged, whose epoch is still to
  come (`Held`), and a commit is never behind the endpoint's back (`Concluded`).
- `Filed` ties both to the journal and the owner's record: what is staged is the
  journal's envelope, a transaction has one envelope, a transaction that was
  called off is neither staged nor the owner's (`CalledOff`), and whoever came to
  own the port by a commit has its intent or its record on disk (`Intended`).
- `Place` says what the agent may still rely on where it stands: which phases and
  records the journal has there (`Journaled`), and what of its reading of the port
  still holds when it acts on it several exchanges later.

`Guarded` says that the guard's copy names at most the owner whose authorization
ended, and `Forwarded` that netd's active epoch does not run ahead of the port's.
`Intended` holds because the journal is written before the commit is sent, the
answer of which may be lost; `Forwarded` because the evidence the agent requires
before netd's commit shows that the port has applied its worker's epoch; `Guarded` because the guard revokes by the copied epoch, and
the next owner has a larger one.

A request acts on endpoint and manager first (`Reconciled`, `Follows`), so there
is one lemma per request about `Port`, and one per step of the agent about the
rest. Three notions carry them: `Keeps`, a change of endpoint and manager that
takes nothing new in, so that whatever a journal accounted for it still does;
`Moves`, the manager never goes back to an earlier owner; and `Continues`, a
journal written over one of the same transaction.

### Upgrades

`OneVerdict` needs that the verdict Cloud has is the journal's (`JournalInv`), that
a job whose installer started has a verdict or is in the journal, past its first
phase (`BegunInv`), and that marker and completion belong to the job in the
journal or to one that has its verdict (`MarkerInv`), since evidence of an earlier
handoff survives it. `LoadedBeforeSuccess` needs that a completion equal to the
marker exists only while both processes run what is installed (`LoadedInv`), and
that what succeeded is installed (`VersionInv`).

### Only model-checked

The liveness properties (fairness and ENABLED are beyond the prover):
`ExpiryFences`, `CommitResolves`, `RepairsConverge`, `ReservationSettles`,
`WithdrawalCompletes`, `DeliveryConverges`, `WithdrawalEndsSteering`, `JobSettles`,
`HandoffEnds`. `BytesCounted`, for the reason above. Not proved yet, see the plan:
`KernelSound`, `GuardedUndisturbed`, `PublicationSound`, `JournalLoadable`,
`PublicationUndisturbed` and, of `DeviceOwnership`, `RetiredLeavesNothing` (and
`NoForeignAdoption` where somebody else deletes the interface, for one such event)
of netd v2; `DurableIsFiltered` of netd v1, a claim about one failure (see the observations); `CarrierKept` and `PredecessorOutlivesHandover` of
`SignedRenewal`, which are about steps that stop a worker on evidence read several
exchanges earlier; `CommittedIsServed`.

## Plan

1. `NetdKernel`, `NetdForward`, its runs, type correctness, fencing and descriptor
   theorems (done).
2. `NetdTransaction`, `NetdDomains`, `ActivationAgent` with `CloudSync` and
   `SdwanAgent`, `TunioAuthority` with `SignedRenewal`, `NodeUpgrade` (done).
3. Theorems about the router, cloud sync, upgrades, the agent with the refinement
   of its contract, and the renewal handoff (done).
4. Theorems about the session, the live path and the residue of netd v1 (done).
   Further ones: `RetiredLeavesNothing` and the parts of `KernelSound` of netd v2.
5. An abstract forwarding service (one owner in force, replaced atomically by a
   higher token, revoked by expiry) that `NetdForward` implements.
6. The managed policy hot update, composed with `NetdForward`'s publication; the
   core manager's switch and rollback; cloud enrolment.

## Not modelled

The components marked `not_modelled` in `PROJECT.json`, each with its reason:
the ones of the plan, and those without protocol state (user interface,
packaging, logging). Of the modelled components: contents of frames and files,
checksums, permissions and signatures (verdicts where the code depends on them);
read-only requests; netlink and nft encoding; the agent's server role, its
discovery clients and process spawning; tunio's `AbortOwner`, which nothing in the
repository sends, the manager's renewal in place, and the attach exchange;
telemetry, status projection and certificate renewal of cloud sync; in the
handoff, the first start without a worker.

Left out where the outcome is the same or only a fault away, each said at its
definition: the agent renews its lease in any round, not only when a third of it is
over (lib.rs:1984), and does not leave the integrity fallback by a withdrawal of
prefixes (lib.rs:4700-4729, two faults); netd drops the candidate whose commit
failed (network.rs:391-407) while the session stays; the endpoint's test of
`auth_deadline` and the manager's refusals for eight retired owners or a pending
commit queue appear as bounded faults; the agent publishes the records at the end of
a renewal, and "verified" before "mbb_reserving", in one step; recovery always asks
for the commit proof; overlapping shared listeners (signed_renewal.rs:1342-1373);
a helper's lock directory without a pid.
