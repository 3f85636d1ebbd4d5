----------------------------- MODULE NodeUpgrade -----------------------------
(***************************************************************************)
(* Upgrades ordered by Cloud (candy-cloud-sync: upgrade.rs, and on OpenWrt *)
(* the scripts candy-cloud-sync-handoff and candy-cloud-sync.init).        *)
(*                                                                         *)
(* The worker of `upgrade-loop` asks Cloud for a job, installs it and       *)
(* reports the verdict.  receipt.json is its journal.  On OpenWrt a new    *)
(* Runtime is not loaded by installing it: the worker leaves a marker and  *)
(* starts a detached helper, the helper restarts the whole service, which  *)
(* kills the worker wherever it is, and leaves a completion; only then may *)
(* a worker report success.  Three evidence files survive everything, each *)
(* removal is a step of its own, and the worker, the helper, a power loss  *)
(* and an upgrade started from the web interface interleave.  A restart    *)
(* that fails, or a helper that is killed in the middle of one, leaves the *)
(* service down: only a reboot or the web interface starts it again.       *)
(*                                                                         *)
(* A version stands for the files of a release and their digests.  Cloud   *)
(* is external: it keeps one open job per node and hands it out until it   *)
(* has a verdict.                                                          *)
(***************************************************************************)
EXTENDS Integers, Sequences

CONSTANTS
    None,
    MaxVersion,  \* versions of each component
    MaxJobs,     \* bound on jobs
    MaxFaults,   \* bound on failed exchanges, crashes and restarts that fail
    MaxLocal     \* bound on upgrades from the web interface

Versions == 1 .. MaxVersion

\* A job as Cloud keeps it; the journal; the marker and the completion.
Jobs == [comp : {"runtime", "core"}, version : Versions, base : Versions,
         state : {"queued", "running", "succeeded", "failed"}]

Journals == [job : Nat, phase : {"prepared", "executing", "succeeded", "failed"}]

Markers == [job : Nat, version : Versions, digest : Versions]

Helpers ==
    [pc : {"check", "stop", "start", "commit", "tidy"}, expects : Versions \cup {None},
     version : Versions \cup {0}]

ASSUME UpgradeAssumption ==
    /\ MaxVersion \in Nat \ {0} /\ MaxJobs \in Nat /\ MaxFaults \in Nat
    /\ MaxLocal \in Nat
    /\ None \notin Journals \cup Markers \cup Helpers \cup Versions \cup {0}

VARIABLES
    openwrt,    \* platform
    inst,       \* installed version of each component
    exe, loop,  \* Runtime loaded by the upgrade worker and by the sync loop
    jrn,        \* receipt.json
    marker, completed, failure,  \* runtime-restart-*.json
    overdue,    \* the marker is older than the handoff timeout
    wk,         \* the worker: next step ("down": the service is not running),
                \* and whether what it tries can work
    helper,     \* candy-cloud-sync-handoff, or None
    cloud,      \* the jobs of this node
    begun,      \* jobs whose installer was started (history)
    faults, local

evidence == <<marker, completed, failure>>

loaded == <<exe, loop>>

vars == <<openwrt, inst, loaded, jrn, evidence, overdue, wk, helper, cloud, begun,
          faults, local>>

Final == {"succeeded", "failed"}

At(pc) == [pc |-> pc, ok |-> TRUE]

Poll == At("poll")

Init ==
    /\ openwrt \in BOOLEAN
    /\ inst = [runtime |-> 1, core |-> 1] /\ exe = 1 /\ loop = 1
    /\ jrn = None /\ marker = None /\ completed = None /\ failure = None
    /\ overdue = FALSE /\ wk = Poll /\ helper = None
    /\ cloud = <<>> /\ begun = {} /\ faults = 0 /\ local = 0

Fault == faults < MaxFaults /\ faults' = faults + 1

NoFault == UNCHANGED faults

\* Frames: what a step of the worker may touch besides wk and faults.
Elsewhere == UNCHANGED <<openwrt, loop, helper, local>>

Quiet == Elsewhere /\ UNCHANGED <<inst, exe, overdue, cloud, begun>>

Job == cloud[jrn.job]

-----------------------------------------------------------------------------
(* run: the journal, the evidence of an earlier handoff, the next job      *)

\* An interrupted installation is not tried again; its outcome is unknown.
Wake ==
    /\ wk.pc = "poll"
    /\ jrn' = IF jrn # None /\ jrn.phase = "executing"
              THEN [jrn EXCEPT !.phase = "failed"] ELSE jrn
    /\ wk' = At(IF jrn' # None /\ jrn'.phase \in Final THEN "finish" ELSE "marker")
    /\ NoFault /\ Quiet /\ UNCHANGED evidence

\* Faulty variant: evidence of another version is a conflict too.
CompletionConflictsAlways(Match, Absent) ==
    \/ completed = None /\ Absent /\ UNCHANGED completed
    \/ completed = marker /\ Match /\ UNCHANGED completed
    \/ completed \notin {None, marker} /\ wk' = Poll /\ UNCHANGED completed

\* read_runtime_handoff_completion: evidence of another version is stale and
\* removed, other evidence for this version is an error.
ReadCompletion(Match, Absent) ==
    \/ completed = None /\ Absent /\ UNCHANGED completed
    \/ completed = marker /\ Match /\ UNCHANGED completed
    \/ /\ completed \notin {None, marker}
       /\ IF completed.version # marker.version
          THEN Absent /\ completed' = None
          ELSE wk' = Poll /\ UNCHANGED completed

\* Faulty variant: a marker without a journal waits for a completion.
LeftoverWaits ==
    /\ wk.pc = "marker"
    /\ IF openwrt /\ marker # None
       THEN ReadCompletion(wk' = IF exe = marker.digest THEN At("cleanMarker") ELSE Poll,
                           wk' = Poll)
       ELSE wk' = At("ask") /\ UNCHANGED completed
    /\ NoFault /\ Quiet /\ UNCHANGED <<jrn, marker, failure>>

\* A marker without a journal: the job has its verdict, the handoff is still
\* to be finished.
Leftover ==
    /\ wk.pc = "marker"
    /\ IF openwrt /\ marker # None
       THEN ReadCompletion(wk' = At(IF exe = marker.digest THEN "cleanMarker" ELSE "schedule"),
                           wk' = At("schedule"))
       ELSE wk' = At("ask") /\ UNCHANGED completed
    /\ NoFault /\ Quiet /\ UNCHANGED <<jrn, marker, failure>>

Open == {j \in 1 .. Len(cloud) : cloud[j].state \notin Final}

\* The signed catalog and the inventory may fail; the job's target is
\* compared with what is installed now.  A catalog that has lost the job's
\* version is a failure that lasts; here failures are bounded.
Ask ==
    /\ wk.pc = "ask"
    /\ \/ Fault /\ wk' = Poll /\ UNCHANGED jrn
       \/ Open = {} /\ wk' = Poll /\ NoFault /\ UNCHANGED jrn
       \/ \E j \in Open :
             /\ jrn' = [job |-> j, phase |-> "prepared"]
             /\ wk' = [pc |-> "announce", ok |-> cloud[j].base = inst[cloud[j].comp]]
             /\ NoFault
    /\ Quiet /\ UNCHANGED evidence

\* receipt: applied or not, when it fails.
Receipt(state, next) ==
    LET told == [cloud EXCEPT ![jrn.job].state = state]
    IN /\ \/ wk' = next /\ cloud' = told /\ NoFault
          \/ Fault /\ wk' = Poll /\ cloud' \in {cloud, told}
       /\ Elsewhere /\ UNCHANGED <<inst, exe, overdue, begun, jrn, evidence>>

Announce == wk.pc = "announce" /\ Receipt("running", [wk EXCEPT !.pc = "begin"])

\* Faulty variant: the journal stays as it was prepared.
BeginUnjournaled ==
    /\ wk.pc = "begin"
    /\ wk' = [wk EXCEPT !.pc = "install"]
    /\ NoFault /\ Quiet /\ UNCHANGED <<jrn, evidence>>

Begin ==
    /\ wk.pc = "begin"
    /\ jrn' = [jrn EXCEPT !.phase = "executing"]
    /\ wk' = [wk EXCEPT !.pc = "install"]
    /\ NoFault /\ Quiet /\ UNCHANGED evidence

\* The update manager of OpenWrt refuses an older Runtime.
Accepted(comp, version) == openwrt /\ comp = "runtime" => version > inst.runtime

\* install: the managers install or roll back.  A target that no longer
\* fits is refused without them.
Install ==
    /\ wk.pc = "install"
    /\ begun' = IF wk.ok THEN begun \cup {jrn.job} ELSE begun
    /\ \/ wk.ok /\ Accepted(Job.comp, Job.version)
          /\ inst' = [inst EXCEPT ![Job.comp] = Job.version] /\ wk' = At("record")
       \/ wk' = [pc |-> "record", ok |-> FALSE] /\ UNCHANGED inst
    /\ NoFault /\ Elsewhere /\ UNCHANGED <<exe, overdue, cloud, jrn, evidence>>

\* What the managers' operation files and logs say about a failure is only
\* wording; they never turn it into a success.
Outcome(ok) == IF ok THEN "succeeded" ELSE "failed"

Record ==
    /\ wk.pc = "record"
    /\ jrn' = [jrn EXCEPT !.phase = Outcome(wk.ok)]
    /\ wk' = At("finish")
    /\ NoFault /\ Quiet /\ UNCHANGED evidence

-----------------------------------------------------------------------------
(* finish_terminal_upgrade                                                 *)

HandsOff == openwrt /\ jrn.phase = "succeeded" /\ Job.comp = "runtime"

NewMarker == [job |-> jrn.job, version |-> Job.version, digest |-> inst.runtime]

\* The marker is written once; a marker of another job or other files is an
\* error.
Finish ==
    /\ wk.pc = "finish"
    /\ \/ ~HandsOff /\ wk' = At("verdict") /\ UNCHANGED <<marker, overdue>>
       \/ HandsOff /\ marker \notin {None, NewMarker} /\ wk' = Poll /\ UNCHANGED <<marker, overdue>>
       \/ HandsOff /\ marker \in {None, NewMarker}
          /\ marker' = NewMarker /\ wk' = At("completion")
          /\ overdue' = (marker # None /\ overdue)
    /\ NoFault /\ Elsewhere
    /\ UNCHANGED <<inst, exe, cloud, begun, jrn, completed, failure>>

\* Only a worker that runs the new binary may report success.
CompletionLook ==
    /\ wk.pc = "completion"
    /\ ReadCompletion(wk' = At(IF exe = marker.digest THEN "success" ELSE "schedule"),
                      wk' = At("failure"))
    /\ NoFault /\ Quiet /\ UNCHANGED <<jrn, marker, failure>>

Succeed == wk.pc = "success" /\ Receipt("succeeded", At("closeSuccess"))

\* read_runtime_handoff_failure, twice, and the timeout in between.
FailureLook ==
    /\ wk.pc = "failure"
    /\ LET own == failure # None /\ failure = marker.version
       IN /\ failure' = IF own THEN failure ELSE IF overdue THEN marker.version ELSE None
          /\ wk' = At(IF failure' = None THEN "schedule" ELSE "failed")
    /\ NoFault /\ Quiet /\ UNCHANGED <<jrn, marker, completed>>

\* Faulty variant: the failed verdict is reported before it is written.
FailHandoffUnjournaled ==
    /\ wk.pc = "failed"
    /\ wk' = At("report")
    /\ NoFault /\ Quiet /\ UNCHANGED <<jrn, evidence>>

\* finalize_failed_runtime_handoff: the verdict is durable before it is
\* reported.
FailHandoff ==
    /\ wk.pc = "failed"
    /\ jrn' = [jrn EXCEPT !.phase = "failed"]
    /\ wk' = At("report")
    /\ NoFault /\ Quiet /\ UNCHANGED evidence

Report == wk.pc = "report" /\ Receipt("failed", At("closeFailure"))

Verdict == wk.pc = "verdict" /\ Receipt(jrn.phase, At("close"))

\* The journal goes after the receipt.  The worker of a plain Linux node
\* ends after a new Runtime, and its successor runs it.
Close ==
    /\ wk.pc \in {"close", "closeSuccess", "closeFailure"}
    /\ jrn' = None
    /\ wk' = At(CASE wk.pc = "closeSuccess" -> "cleanMarker"
                  [] wk.pc = "closeFailure" -> "schedule"
                  [] OTHER -> "poll")
    /\ exe' = IF wk.pc = "close" /\ jrn.phase = "succeeded" /\ Job.comp = "runtime"
              THEN inst.runtime ELSE exe
    /\ NoFault /\ Elsewhere /\ UNCHANGED <<inst, overdue, cloud, begun, evidence>>

\* Marker, completion and failure are removed one by one.
Clean ==
    /\ \/ wk.pc = "cleanMarker" /\ marker' = None /\ wk' = At("cleanCompleted")
          /\ UNCHANGED <<completed, failure>>
       \/ wk.pc = "cleanCompleted" /\ completed' = None /\ wk' = At("cleanFailure")
          /\ UNCHANGED <<marker, failure>>
       \/ wk.pc = "cleanFailure" /\ failure' = None /\ wk' = Poll
          /\ UNCHANGED <<marker, completed>>
    /\ NoFault /\ Quiet /\ UNCHANGED jrn

\* schedule_committed_runtime_handoff: a helper that runs owns the handoff.
Schedule ==
    /\ wk.pc = "schedule"
    /\ wk' = Poll
    /\ \/ /\ helper' = IF helper = None THEN [pc |-> "check", expects |-> None, version |-> 0] ELSE helper
          /\ NoFault /\ UNCHANGED failure
       \/ /\ Fault /\ failure' = marker.version /\ UNCHANGED helper
    /\ UNCHANGED <<openwrt, loop, local, inst, exe, overdue, cloud, begun, jrn, marker, completed>>

-----------------------------------------------------------------------------
(* candy-cloud-sync-handoff                                                *)

HelperFrame == UNCHANGED <<openwrt, inst, jrn, marker, overdue, cloud, begun, local>>

\* fail_handoff: the failure names the version the helper read, 0 before.
FailHelper(version) == failure' = version /\ helper' = None

\* The helper has its lock.  (A lock directory whose owner died before it
\* wrote its pid, which makes every later helper fail, is left out.)
HelperCheck ==
    /\ helper # None /\ helper.pc = "check"
    /\ IF marker = None THEN FailHelper(0) /\ UNCHANGED completed
       ELSE IF completed = marker
       THEN failure' = None /\ helper' = None /\ UNCHANGED completed
       ELSE IF completed # None /\ completed.version = marker.version
       THEN FailHelper(marker.version) /\ UNCHANGED completed
       ELSE /\ completed' = None
            /\ IF inst.runtime # marker.digest THEN FailHelper(marker.version)
               ELSE /\ helper' = [pc |-> "stop", expects |-> marker.digest,
                                 version |-> marker.version]
                    /\ UNCHANGED failure
    /\ HelperFrame /\ UNCHANGED <<wk, loaded, faults>>

\* Faulty variant: completion is claimed before the restart.
HelperSkipsRestart ==
    /\ helper # None /\ helper.pc = "stop"
    /\ helper' = [helper EXCEPT !.pc = "commit"]
    /\ UNCHANGED <<wk, loaded, evidence, faults>> /\ HelperFrame

\* `restart` stops the service first, which ends the worker and the loop ...
HelperStop ==
    /\ helper # None /\ helper.pc = "stop"
    /\ helper' = [helper EXCEPT !.pc = "start"]
    /\ wk' = At("down")
    /\ UNCHANGED <<loaded, evidence, faults>> /\ HelperFrame

\* Both instances of the service are new.
Restarted == wk' = Poll /\ exe' = inst.runtime /\ loop' = inst.runtime

\* ... and then starts it.  A start that is not seen to work, whether or not
\* it does, is followed by another restart or, after the last, by giving up.
HelperStart ==
    /\ helper # None /\ helper.pc = "start"
    /\ \/ Restarted /\ helper' = [helper EXCEPT !.pc = "commit"]
          /\ UNCHANGED <<failure, faults>>
       \/ /\ Fault /\ (Restarted \/ UNCHANGED <<wk, loaded>>)
          /\ \/ FailHelper(helper.version)
             \/ helper' = [helper EXCEPT !.pc = "stop"] /\ UNCHANGED failure
    /\ HelperFrame /\ UNCHANGED completed

\* The completion is a copy of the marker that is there now.
HelperCommit ==
    /\ helper # None /\ helper.pc = "commit"
    /\ IF marker = None \/ inst.runtime # helper.expects
       THEN FailHelper(helper.version) /\ UNCHANGED completed
       ELSE /\ completed' = marker
            /\ helper' = [helper EXCEPT !.pc = "tidy"]
            /\ UNCHANGED failure
    /\ HelperFrame /\ UNCHANGED <<wk, loaded, faults>>

HelperTidy ==
    /\ helper # None /\ helper.pc = "tidy"
    /\ failure' = None /\ helper' = None
    /\ HelperFrame /\ UNCHANGED <<wk, loaded, completed, faults>>

-----------------------------------------------------------------------------
(* Surroundings                                                            *)

Surrounding == UNCHANGED <<openwrt, jrn, evidence, begun>>

\* An administrator orders an upgrade.
Order ==
    /\ Len(cloud) < MaxJobs /\ Open = {}
    /\ \E comp \in {"runtime", "core"} : \E v \in Versions \ {inst[comp]} :
          cloud' = Append(cloud, [comp |-> comp, version |-> v, base |-> inst[comp],
                                  state |-> "queued"])
    /\ Surrounding /\ UNCHANGED <<inst, loaded, overdue, wk, helper, faults, local>>

TimePasses ==
    /\ marker # None /\ ~overdue
    /\ overdue' = TRUE
    /\ Surrounding /\ UNCHANGED <<inst, loaded, wk, helper, cloud, faults, local>>

\* The service is down and no helper is left to start it.
Deserted == wk.pc = "down" /\ helper = None

\* procd starts a dead worker of a running service again; after a power loss,
\* or the reboot that ends a desertion, everything is new.
WorkerDies ==
    /\ wk.pc # "down" /\ Fault
    /\ wk' = Poll /\ exe' = inst.runtime
    /\ Surrounding /\ UNCHANGED <<inst, loop, overdue, helper, cloud, local>>

HelperDies ==
    /\ Fault
    /\ helper # None /\ helper' = None
    /\ Surrounding /\ UNCHANGED <<inst, loaded, overdue, wk, cloud, local>>

PowerLoss ==
    /\ Fault \/ (Deserted /\ NoFault)
    /\ Restarted /\ helper' = None
    /\ Surrounding /\ UNCHANGED <<inst, overdue, cloud, local>>

\* The web interface installs a Runtime and restarts the service; the update
\* manager runs one installation at a time.
LocalInstall ==
    /\ openwrt /\ local < MaxLocal /\ wk.pc # "install"
    /\ \E v \in Versions :
          /\ Accepted("runtime", v)
          /\ inst' = [inst EXCEPT !.runtime = v]
          /\ wk' = Poll /\ exe' = v /\ loop' = v
    /\ local' = local + 1
    /\ Surrounding /\ UNCHANGED <<overdue, helper, cloud, faults>>

Worker ==
    \/ Wake \/ Leftover \/ Ask \/ Announce \/ Begin \/ Install \/ Record \/ Finish
    \/ CompletionLook \/ Succeed \/ FailureLook \/ FailHandoff \/ Report \/ Verdict
    \/ Close \/ Clean \/ Schedule

Helper == HelperCheck \/ HelperStop \/ HelperStart \/ HelperCommit \/ HelperTidy

Next ==
    \/ Worker \/ Helper \/ Order \/ TimePasses
    \/ WorkerDies \/ HelperDies \/ PowerLoss \/ LocalInstall

\* The loop polls for ever and a started helper runs to its end.
Spec == Init /\ [][Next]_vars /\ WF_vars(Worker) /\ WF_vars(Helper)

-----------------------------------------------------------------------------
(* Properties                                                              *)

\* An installer is started once per job, whatever is killed or lost: a job
\* that may have been installed is reported, never tried again.
InstallOnce == [][Install => jrn.job \notin begun]_vars

\* Cloud never hears two verdicts on one job: a receipt whose answer was
\* lost, a worker killed before its journal is gone, or a handoff that
\* completes after it was given up, repeat the verdict that was sent.
VerdictStable ==
    [][\A j \in DOMAIN cloud :
          cloud[j].state \in Final => cloud'[j].state = cloud[j].state]_vars

\* One installation and one verdict per job (upgrade.rs run,
\* finish_terminal_upgrade).
SettledOnce == InstallOnce /\ VerdictStable

\* On OpenWrt success means loaded: when Cloud hears that a Runtime job
\* succeeded, worker and sync loop both run it, or both run what somebody
\* installed by hand meanwhile.
SuccessIsLoaded ==
    [][\A j \in DOMAIN cloud :
          /\ openwrt /\ cloud[j].comp = "runtime"
          /\ cloud[j].state # "succeeded" /\ cloud'[j].state = "succeeded"
          => exe = loop /\ (exe = cloud[j].version \/ local > 0)]_vars

\* Every ordered job gets a verdict, unless somebody installs by hand or a
\* helper leaves the service down; after a reboot the promise holds again.
JobSettles ==
    \A j \in 1 .. MaxJobs :
        (j \in Open) ~> (j \in DOMAIN cloud \ Open \/ local > 0 \/ Deserted)

\* A handoff that was begun ends, also when its job was given up, unless the
\* service is left down: no marker stays to keep later jobs away.
HandoffEnds == (marker # None) ~> (marker = None \/ local > 0 \/ Deserted)

=============================================================================
