-------------------------- MODULE NodeUpgradeProofs --------------------------
(***************************************************************************)
(* Proofs about upgrades ordered by Cloud: one installation and one        *)
(* verdict per job, and success only for a Runtime that is loaded, for any *)
(* number of versions, jobs, failures and local installations.             *)
(***************************************************************************)
EXTENDS NodeUpgrade, TLAPS

-----------------------------------------------------------------------------
(* The inductive invariant                                                 *)

Pcs ==
    {"poll", "marker", "ask", "announce", "begin", "install", "record", "finish",
     "completion", "success", "failure", "failed", "report", "verdict", "close",
     "closeSuccess", "closeFailure", "cleanMarker", "cleanCompleted", "cleanFailure",
     "schedule", "down"}

TypeInv ==
    /\ openwrt \in BOOLEAN
    /\ inst \in [runtime : Versions, core : Versions]
    /\ exe \in Versions /\ loop \in Versions
    /\ jrn \in Journals \cup {None}
    /\ marker \in Markers \cup {None} /\ completed \in Markers \cup {None}
    /\ overdue \in BOOLEAN
    /\ wk \in [pc : Pcs, ok : BOOLEAN]
    /\ helper \in Helpers \cup {None}
    /\ cloud \in Seq(Jobs)
    /\ local \in Nat

\* What the worker knows at each of its steps.
StepInv ==
    /\ wk.pc \in {"announce", "begin"} => jrn # None /\ jrn.phase = "prepared"
    /\ wk.pc \in {"install", "record"} => jrn # None /\ jrn.phase = "executing"
    /\ wk.pc \in {"finish", "verdict", "close"} => jrn # None /\ jrn.phase \in Final
    /\ wk.pc \in {"completion", "success", "failure", "failed", "closeSuccess"} =>
          jrn # None /\ HandsOff /\ marker # None
    /\ wk.pc \in {"report", "closeFailure"} =>
          jrn # None /\ jrn.phase = "failed" /\ marker # None
    /\ wk.pc \in {"verdict", "close"} => ~HandsOff
    /\ wk.pc \in {"close", "closeSuccess", "closeFailure"} => Job.state = jrn.phase
    /\ wk.pc \in {"marker", "ask"} => jrn = None \/ jrn.phase = "prepared"
    /\ wk.pc \in {"ask", "announce", "begin", "install", "record", "cleanCompleted"} =>
          marker = None
    /\ wk.pc \in {"cleanMarker", "cleanCompleted", "cleanFailure"} => jrn = None
    /\ wk.pc \in {"schedule", "cleanMarker"} => marker # None
    /\ wk.pc \in {"success", "closeSuccess", "cleanMarker"} => completed = marker

\* The verdict Cloud has is the one in the journal; after a reported success
\* the evidence for it lasts as long as the journal.
JournalInv ==
    jrn # None =>
        /\ jrn.job \in DOMAIN cloud
        /\ Job.state \in Final => Job.state = jrn.phase
        /\ openwrt /\ Job.comp = "runtime" /\ Job.state = "succeeded" =>
              marker # None /\ completed = marker /\ wk.pc \notin {"failure", "failed"}

\* A job whose installer was started has a verdict or is in the journal.
BegunInv ==
    /\ \A j \in begun :
          /\ j \in DOMAIN cloud
          /\ \/ cloud[j].state \in Final
             \/ jrn # None /\ jrn.job = j /\ jrn.phase # "prepared"
    /\ wk.pc = "install" => jrn.job \notin begun

\* A marker is for the job in the journal, or for one that has its verdict;
\* a completion that is not its copy is for an earlier job.
MarkerInv ==
    /\ marker # None =>
          /\ openwrt /\ marker.job \in DOMAIN cloud
          /\ jrn = None => cloud[marker.job].state \in Final
          /\ jrn # None => jrn.job = marker.job /\ jrn.phase \in Final
    /\ completed # None /\ completed # marker =>
          /\ completed.job \in DOMAIN cloud /\ cloud[completed.job].state \in Final
          /\ jrn # None => jrn.job # completed.job

\* A completion is only written, and only stays, when everything is loaded.
LoadedInv ==
    /\ helper # None /\ helper.pc \in {"stop", "start", "commit"} =>
          marker # None /\ completed = None
    /\ helper # None /\ helper.pc = "commit" => exe = inst.runtime /\ loop = inst.runtime
    /\ marker # None /\ completed = marker => exe = inst.runtime /\ loop = inst.runtime

\* What succeeded is installed, unless somebody installed something else.
VersionInv ==
    local = 0 /\ jrn # None =>
        /\ wk.pc = "record" /\ wk.ok => inst[Job.comp] = Job.version
        /\ jrn.phase = "succeeded" => inst[Job.comp] = Job.version

Inv ==
    /\ TypeInv /\ StepInv /\ JournalInv /\ BegunInv /\ MarkerInv /\ LoadedInv
    /\ VersionInv

-----------------------------------------------------------------------------
(* Receipts                                                                *)

\* A receipt sets the state of the journal's job and goes on to step pc, or
\* fails with the state set or not.
Told(state, pc) ==
    LET j == jrn.job
    IN /\ wk' \in [pc : Pcs, ok : BOOLEAN] /\ wk'.pc \in {pc, "poll"}
       /\ cloud' \in Seq(Jobs) /\ DOMAIN cloud' = DOMAIN cloud
       /\ \A i \in DOMAIN cloud \ {j} : cloud'[i] = cloud[i]
       /\ cloud'[j].comp = cloud[j].comp /\ cloud'[j].version = cloud[j].version
       /\ cloud'[j].state \in {cloud[j].state, state}
       /\ wk'.pc = pc => cloud'[j].state = state
       /\ UNCHANGED <<openwrt, inst, exe, loop, jrn, marker, completed, overdue, helper, begun,
                      local>>

\* The worker's steps are of its type.
LEMMA AtShape ==
    /\ \A pc \in Pcs : At(pc) \in [pc : Pcs, ok : BOOLEAN] /\ At(pc).pc = pc
    /\ Poll \in [pc : Pcs, ok : BOOLEAN] /\ Poll.pc = "poll"
  BY DEF At, Poll, Pcs

\* What Cloud has heard after a receipt.
LEMMA ReceiptShape ==
    ASSUME TypeInv, jrn # None, jrn.job \in DOMAIN cloud,
           NEW state \in {"running", "succeeded", "failed"}, NEW pc \in Pcs, pc # "poll",
           NEW next \in [pc : Pcs, ok : BOOLEAN], next.pc = pc, Receipt(state, next)
    PROVE  Told(state, pc)
  <1> DEFINE j == jrn.job
             x == [cloud[j] EXCEPT !.state = state]
             told == [cloud EXCEPT ![j] = x]
  <1>1. cloud \in Seq(Jobs) /\ cloud[j] \in Jobs
    BY DEF TypeInv
  <1>2. x \in Jobs /\ x.comp = cloud[j].comp /\ x.version = cloud[j].version /\ x.state = state
    BY <1>1 DEF Jobs
  <1>3. \/ wk' = next /\ cloud' = told
        \/ wk' = Poll /\ cloud' \in {cloud, told}
    BY DEF Receipt
  <1>4. UNCHANGED <<openwrt, inst, exe, loop, jrn, marker, completed, overdue, helper, begun, local>>
    BY DEF Receipt, Elsewhere, evidence
  <1> HIDE DEF x
  <1>5. /\ told \in Seq(Jobs) /\ DOMAIN told = DOMAIN cloud /\ told[j] = x
        /\ \A i \in DOMAIN cloud \ {j} : told[i] = cloud[i]
    BY <1>1, <1>2
  <1> HIDE DEF told
  <1>6. Poll \in [pc : Pcs, ok : BOOLEAN] /\ Poll.pc = "poll"
    BY DEF Poll, At, Pcs
  <1>7. wk' \in [pc : Pcs, ok : BOOLEAN] /\ (wk' = next \/ wk' = Poll)
    BY <1>3, <1>6
  <1>8. QED
    BY <1>1, <1>2, <1>3, <1>4, <1>5, <1>6, <1>7 DEF Told

\* Cloud is told that the job runs.
LEMMA AnnounceTold ==
    ASSUME TypeInv, StepInv, JournalInv, Announce
    PROVE  wk.pc = "announce" /\ Told("running", "begin")
  <1>1. wk.pc = "announce" /\ jrn # None /\ jrn.job \in DOMAIN cloud
    BY DEF Announce, StepInv, JournalInv
  <1> DEFINE next == [wk EXCEPT !.pc = "begin"]
  <1>2. next \in [pc : Pcs, ok : BOOLEAN] /\ next.pc = "begin" /\ "begin" \in Pcs \ {"poll"}
    BY DEF TypeInv, At, Pcs
  <1>3. Receipt("running", next)
    BY DEF Announce
  <1>4. "running" \in {"running", "succeeded", "failed"}
    BY <1>1 DEF StepInv, Final
  <1> HIDE DEF next
  <1>5. QED
    BY <1>1, <1>2, <1>3, <1>4, ReceiptShape

\* Cloud is told of the success.
LEMMA SucceedTold ==
    ASSUME TypeInv, StepInv, JournalInv, Succeed
    PROVE  wk.pc = "success" /\ Told("succeeded", "closeSuccess")
  <1>1. wk.pc = "success" /\ jrn # None /\ jrn.job \in DOMAIN cloud
    BY DEF Succeed, StepInv, JournalInv
  <1> DEFINE next == At("closeSuccess")
  <1>2. next \in [pc : Pcs, ok : BOOLEAN] /\ next.pc = "closeSuccess" /\ "closeSuccess" \in Pcs \ {"poll"}
    BY DEF TypeInv, At, Pcs
  <1>3. Receipt("succeeded", next)
    BY DEF Succeed
  <1>4. "succeeded" \in {"running", "succeeded", "failed"}
    BY <1>1 DEF StepInv, Final
  <1> HIDE DEF next
  <1>5. QED
    BY <1>1, <1>2, <1>3, <1>4, ReceiptShape

\* Cloud is told of the failed handoff.
LEMMA ReportTold ==
    ASSUME TypeInv, StepInv, JournalInv, Report
    PROVE  wk.pc = "report" /\ Told("failed", "closeFailure")
  <1>1. wk.pc = "report" /\ jrn # None /\ jrn.job \in DOMAIN cloud
    BY DEF Report, StepInv, JournalInv
  <1> DEFINE next == At("closeFailure")
  <1>2. next \in [pc : Pcs, ok : BOOLEAN] /\ next.pc = "closeFailure" /\ "closeFailure" \in Pcs \ {"poll"}
    BY DEF TypeInv, At, Pcs
  <1>3. Receipt("failed", next)
    BY DEF Report
  <1>4. "failed" \in {"running", "succeeded", "failed"}
    BY <1>1 DEF StepInv, Final
  <1> HIDE DEF next
  <1>5. QED
    BY <1>1, <1>2, <1>3, <1>4, ReceiptShape

\* Cloud is told the verdict.
LEMMA VerdictTold ==
    ASSUME TypeInv, StepInv, JournalInv, Verdict
    PROVE  wk.pc = "verdict" /\ Told(jrn.phase, "close")
  <1>1. wk.pc = "verdict" /\ jrn # None /\ jrn.job \in DOMAIN cloud
    BY DEF Verdict, StepInv, JournalInv
  <1> DEFINE next == At("close")
  <1>2. next \in [pc : Pcs, ok : BOOLEAN] /\ next.pc = "close" /\ "close" \in Pcs \ {"poll"}
    BY DEF TypeInv, At, Pcs
  <1>3. Receipt(jrn.phase, next)
    BY DEF Verdict
  <1>4. jrn.phase \in {"running", "succeeded", "failed"}
    BY <1>1 DEF StepInv, Final
  <1> HIDE DEF next
  <1>5. QED
    BY <1>1, <1>2, <1>3, <1>4, ReceiptShape

-----------------------------------------------------------------------------
(* Every action keeps the invariant                                        *)

\* The journal is read again after a restart.
LEMMA WakeStep ==
    ASSUME Inv, Wake
    PROVE  Inv'
  <1> USE UpgradeAssumption
  <1>0. TypeInv /\ StepInv /\ JournalInv /\ BegunInv /\ MarkerInv /\ LoadedInv /\ VersionInv
    BY DEF Inv
  <1>1. /\ wk' \in [pc : Pcs, ok : BOOLEAN]
        /\ jrn' \in Journals \cup {None}
        /\ wk.pc = "poll"
        /\ (jrn' = None) = (jrn = None)
        /\ jrn # None => /\ jrn'.job = jrn.job
                         /\ jrn'.phase = IF jrn.phase = "executing" THEN "failed" ELSE jrn.phase
        /\ wk'.pc = IF jrn' # None /\ jrn'.phase \in Final THEN "finish" ELSE "marker"
        /\ UNCHANGED <<openwrt, inst, exe, loop, marker, completed, overdue, helper, cloud, begun, local>>
    BY <1>0 DEF Wake, TypeInv, Journals, At, Poll, Pcs, Quiet, Elsewhere, NoFault, evidence
  <1>2. TypeInv'
    BY <1>0, <1>1 DEF TypeInv
  <1>3. StepInv'
    BY <1>0, <1>1 DEF StepInv, HandsOff, Job, Final, TypeInv, Journals
  <1>4. JournalInv'
    BY <1>0, <1>1 DEF JournalInv, Job, Final
  <1>5. BegunInv'
    BY <1>0, <1>1 DEF BegunInv, Final
  <1>6. MarkerInv'
    BY <1>0, <1>1 DEF MarkerInv, Final
  <1>7. LoadedInv'
    BY <1>0, <1>1 DEF LoadedInv
  <1>8. VersionInv'
    BY <1>0, <1>1 DEF VersionInv, Job
  <1>9. QED
    BY <1>2, <1>3, <1>4, <1>5, <1>6, <1>7, <1>8 DEF Inv

\* A handoff whose job has its verdict is taken up again.
LEMMA LeftoverStep ==
    ASSUME Inv, Leftover
    PROVE  Inv'
  <1> USE UpgradeAssumption
  <1>0. TypeInv /\ StepInv /\ JournalInv /\ BegunInv /\ MarkerInv /\ LoadedInv /\ VersionInv
    BY DEF Inv
  <1>1. /\ wk' \in [pc : Pcs, ok : BOOLEAN]
        /\ wk.pc = "marker"
        /\ \/ marker = None /\ wk'.pc = "ask" /\ completed' = completed
           \/ /\ marker # None /\ completed = marker /\ completed' = completed
              /\ wk'.pc \in {"cleanMarker", "schedule"}
           \/ /\ marker # None /\ completed # marker /\ completed' \in {completed, None}
              /\ wk'.pc \in {"schedule", "poll"}
        /\ UNCHANGED <<openwrt, inst, exe, loop, jrn, marker, overdue, helper, cloud, begun, local>>
    <2>0. wk.pc = "marker" /\ UNCHANGED <<openwrt, inst, exe, loop, jrn, marker, overdue, helper, cloud, begun, local>>
      BY DEF Leftover, Quiet, Elsewhere
    <2>1. CASE ~(openwrt /\ marker # None)
      <3>1. wk' = At("ask") /\ completed' = completed /\ marker = None
        BY <1>0, <2>1 DEF Leftover, MarkerInv
      <3>2. QED
        BY <2>0, <3>1, AtShape DEF Pcs
    <2>2. CASE openwrt /\ marker # None
      <3>1. ReadCompletion(wk' = At(IF exe = marker.digest THEN "cleanMarker" ELSE "schedule"),
                           wk' = At("schedule"))
        BY <2>2 DEF Leftover
      <3>2. CASE completed = marker
        <4>1. completed' = completed /\ (wk' = At("cleanMarker") \/ wk' = At("schedule"))
          BY <2>2, <3>1, <3>2 DEF ReadCompletion
        <4>2. QED
          BY <2>0, <2>2, <3>2, <4>1, AtShape DEF Pcs
      <3>3. CASE completed # marker
        <4>1. completed' \in {completed, None} /\ (wk' = At("schedule") \/ wk' = Poll)
          BY <2>2, <3>1, <3>3 DEF ReadCompletion
        <4>2. QED
          BY <2>0, <2>2, <3>3, <4>1, AtShape DEF Pcs
      <3>4. QED
        BY <3>2, <3>3
    <2>3. QED
      BY <2>1, <2>2
  <1>2. /\ jrn = None \/ jrn.phase = "prepared"
    BY <1>0, <1>1 DEF StepInv, JournalInv, BegunInv, HandsOff, Job, Final
  <1>3. TypeInv'
    BY <1>0, <1>1, <1>2 DEF TypeInv
  <1>4. StepInv'
    BY <1>0, <1>1, <1>2 DEF StepInv, HandsOff, Job, Final, MarkerInv
  <1>5. JournalInv'
    BY <1>0, <1>1, <1>2 DEF JournalInv, Job, Final
  <1>6. BegunInv'
    BY <1>0, <1>1, <1>2 DEF BegunInv, Final
  <1>7. MarkerInv'
    BY <1>0, <1>1, <1>2 DEF MarkerInv, Final
  <1>8. LoadedInv'
    BY <1>0, <1>1, <1>2 DEF LoadedInv
  <1>9. VersionInv'
    BY <1>0, <1>1, <1>2 DEF VersionInv, Job
  <1>10. QED
    BY <1>3, <1>4, <1>5, <1>6, <1>7, <1>8, <1>9 DEF Inv

\* The worker takes the open job, if there is one.
LEMMA AskStep ==
    ASSUME Inv, Ask
    PROVE  Inv'
  <1> USE UpgradeAssumption
  <1>0. TypeInv /\ StepInv /\ JournalInv /\ BegunInv /\ MarkerInv /\ LoadedInv /\ VersionInv
    BY DEF Inv
  <1>1. /\ wk' \in [pc : Pcs, ok : BOOLEAN]
        /\ jrn' \in Journals \cup {None}
        /\ wk.pc = "ask"
        /\ \/ wk'.pc = "poll" /\ jrn' = jrn
           \/ /\ wk'.pc = "announce" /\ jrn' # None /\ jrn'.phase = "prepared"
              /\ jrn'.job \in DOMAIN cloud /\ cloud[jrn'.job].state \notin Final
        /\ UNCHANGED <<openwrt, inst, exe, loop, marker, completed, overdue, helper, cloud, begun, local>>
    <2>1. wk.pc = "ask" /\ UNCHANGED <<openwrt, inst, exe, loop, marker, completed, overdue, helper, cloud, begun, local>>
      BY DEF Ask, Quiet, Elsewhere, evidence
    <2>2. CASE wk' = Poll /\ jrn' = jrn
      BY <1>0, <2>1, <2>2 DEF Poll, At, Pcs, TypeInv
    <2>3. ASSUME NEW j \in Open, jrn' = [job |-> j, phase |-> "prepared"],
                 wk' = [pc |-> "announce", ok |-> cloud[j].base = inst[cloud[j].comp]]
          PROVE  /\ wk' \in [pc : Pcs, ok : BOOLEAN] /\ wk'.pc = "announce"
                 /\ jrn' \in Journals /\ jrn'.phase = "prepared"
                 /\ jrn'.job \in DOMAIN cloud /\ cloud[jrn'.job].state \notin Final
      <3>1. j \in DOMAIN cloud /\ j \in Nat /\ cloud[j].state \notin Final
        BY <1>0 DEF Open, TypeInv
      <3>2. wk' \in [pc : Pcs, ok : BOOLEAN] /\ wk'.pc = "announce"
        BY <2>3 DEF Pcs
      <3>3. jrn' \in Journals /\ jrn'.phase = "prepared" /\ jrn'.job = j
        BY <2>3, <3>1 DEF Journals
      <3>4. QED
        BY <3>1, <3>2, <3>3
    <2>4. QED
      BY <2>1, <2>2, <2>3 DEF Ask
  <1>2. /\ jrn = None \/ jrn.phase = "prepared"
        /\ marker = None
    BY <1>0, <1>1 DEF StepInv, JournalInv, BegunInv, HandsOff, Job, Final
  <1>3. TypeInv'
    BY <1>0, <1>1, <1>2 DEF TypeInv
  <1>4. StepInv'
    BY <1>0, <1>1, <1>2 DEF StepInv, HandsOff, Job, Final
  <1>5. JournalInv'
    BY <1>0, <1>1, <1>2 DEF JournalInv, Job, Final
  <1>6. BegunInv'
    BY <1>0, <1>1, <1>2 DEF BegunInv, Final
  <1>7. MarkerInv'
    BY <1>0, <1>1, <1>2 DEF MarkerInv, Final
  <1>8. LoadedInv'
    BY <1>0, <1>1, <1>2 DEF LoadedInv
  <1>9. VersionInv'
    BY <1>0, <1>1, <1>2 DEF VersionInv, Job
  <1>10. QED
    BY <1>3, <1>4, <1>5, <1>6, <1>7, <1>8, <1>9 DEF Inv

\* Cloud is told that the job runs.
LEMMA AnnounceStep ==
    ASSUME Inv, Announce
    PROVE  Inv'
  <1> USE UpgradeAssumption
  <1>0. TypeInv /\ StepInv /\ JournalInv /\ BegunInv /\ MarkerInv /\ LoadedInv /\ VersionInv
    BY DEF Inv
  <1>1. /\ wk.pc = "announce"
        /\ Told("running", "begin")
    BY <1>0, AnnounceTold
  <1>2. /\ jrn # None /\ jrn.phase = "prepared" /\ marker = None
        /\ jrn.job \in DOMAIN cloud /\ cloud[jrn.job].state \notin Final
    BY <1>0, <1>1 DEF StepInv, JournalInv, BegunInv, HandsOff, Job, Final
  <1>3. TypeInv'
    BY <1>0, <1>1, <1>2 DEF TypeInv, Told
  <1>4. StepInv'
    BY <1>0, <1>1, <1>2 DEF StepInv, HandsOff, Job, Final, Told
  <1>5. JournalInv'
    BY <1>0, <1>1, <1>2 DEF JournalInv, Job, Final, Told
  <1>6. BegunInv'
    BY <1>0, <1>1, <1>2 DEF BegunInv, Final, Told
  <1>7. MarkerInv'
    BY <1>0, <1>1, <1>2 DEF MarkerInv, Final, Told
  <1>8. LoadedInv'
    BY <1>0, <1>1, <1>2 DEF LoadedInv, Told
  <1>9. VersionInv'
    BY <1>0, <1>1, <1>2 DEF VersionInv, Job, Told
  <1>10. QED
    BY <1>3, <1>4, <1>5, <1>6, <1>7, <1>8, <1>9 DEF Inv

\* The installation is journaled before it starts.
LEMMA BeginStep ==
    ASSUME Inv, Begin
    PROVE  Inv'
  <1> USE UpgradeAssumption
  <1>0. TypeInv /\ StepInv /\ JournalInv /\ BegunInv /\ MarkerInv /\ LoadedInv /\ VersionInv
    BY DEF Inv
  <1>1. /\ wk' \in [pc : Pcs, ok : BOOLEAN]
        /\ jrn' \in Journals \cup {None}
        /\ wk.pc = "begin"
        /\ wk'.pc = "install"
        /\ jrn' # None /\ jrn'.job = jrn.job /\ jrn'.phase = "executing"
        /\ UNCHANGED <<openwrt, inst, exe, loop, marker, completed, overdue, helper, cloud, begun, local>>
    BY <1>0 DEF Begin, TypeInv, StepInv, Journals, At, Poll, Pcs, Quiet, Elsewhere, NoFault, evidence
  <1>2. /\ jrn # None /\ jrn.phase = "prepared" /\ marker = None
        /\ jrn.job \in DOMAIN cloud /\ cloud[jrn.job].state \notin Final
        /\ jrn.job \notin begun
    BY <1>0, <1>1 DEF StepInv, JournalInv, BegunInv, HandsOff, Job, Final
  <1>3. TypeInv'
    BY <1>0, <1>1, <1>2 DEF TypeInv
  <1>4. StepInv'
    BY <1>0, <1>1, <1>2 DEF StepInv, HandsOff, Job, Final
  <1>5. JournalInv'
    BY <1>0, <1>1, <1>2 DEF JournalInv, Job, Final
  <1>6. BegunInv'
    BY <1>0, <1>1, <1>2 DEF BegunInv, Final
  <1>7. MarkerInv'
    BY <1>0, <1>1, <1>2 DEF MarkerInv, Final
  <1>8. LoadedInv'
    BY <1>0, <1>1, <1>2 DEF LoadedInv
  <1>9. VersionInv'
    BY <1>0, <1>1, <1>2 DEF VersionInv, Job
  <1>10. QED
    BY <1>3, <1>4, <1>5, <1>6, <1>7, <1>8, <1>9 DEF Inv

\* The managers install, fail or are not asked.
LEMMA InstallStep ==
    ASSUME Inv, Install
    PROVE  Inv'
  <1> USE UpgradeAssumption
  <1>0. TypeInv /\ StepInv /\ JournalInv /\ BegunInv /\ MarkerInv /\ LoadedInv /\ VersionInv
    BY DEF Inv
  <1>1. /\ wk' \in [pc : Pcs, ok : BOOLEAN]
        /\ wk.pc = "install"
        /\ wk'.pc = "record"
        /\ begun' \subseteq begun \cup {jrn.job}
        /\ inst' \in [runtime : Versions, core : Versions]
        /\ wk'.ok => inst'[Job.comp] = Job.version
        /\ UNCHANGED <<openwrt, exe, loop, jrn, marker, completed, overdue, helper, cloud, local>>
    <2>1. /\ wk.pc = "install" /\ begun' \subseteq begun \cup {jrn.job}
          /\ UNCHANGED <<openwrt, exe, loop, jrn, marker, completed, overdue, helper, cloud, local>>
      BY DEF Install, Elsewhere, evidence
    <2>2. Job \in Jobs
      BY <1>0, <2>1 DEF TypeInv, StepInv, JournalInv, Job
    <2>3. CASE wk.ok /\ inst' = [inst EXCEPT ![Job.comp] = Job.version] /\ wk' = At("record")
      <3>1. Job.comp \in {"runtime", "core"} /\ Job.version \in Versions
        BY <2>2 DEF Jobs
      <3>2. inst' \in [runtime : Versions, core : Versions] /\ inst'[Job.comp] = Job.version
        BY <1>0, <2>3, <3>1 DEF TypeInv
      <3>3. QED
        BY <2>1, <2>3, <3>2 DEF At, Pcs
    <2>4. CASE wk' = [pc |-> "record", ok |-> FALSE] /\ inst' = inst
      BY <1>0, <2>1, <2>4 DEF TypeInv, Pcs
    <2>5. QED
      BY <2>3, <2>4 DEF Install
  <1>2. /\ jrn # None /\ jrn.phase = "executing" /\ marker = None
        /\ jrn.job \in DOMAIN cloud /\ cloud[jrn.job].state \notin Final
        /\ jrn.job \notin begun
    BY <1>0, <1>1 DEF StepInv, JournalInv, BegunInv, HandsOff, Job, Final
  <1>3. TypeInv'
    BY <1>0, <1>1, <1>2 DEF TypeInv
  <1>4. StepInv'
    BY <1>0, <1>1, <1>2 DEF StepInv, HandsOff, Job, Final
  <1>5. JournalInv'
    BY <1>0, <1>1, <1>2 DEF JournalInv, Job, Final
  <1>6. BegunInv'
    BY <1>0, <1>1, <1>2 DEF BegunInv, Final
  <1>7. MarkerInv'
    BY <1>0, <1>1, <1>2 DEF MarkerInv, Final
  <1>8. LoadedInv'
    BY <1>0, <1>1, <1>2 DEF LoadedInv
  <1>9. VersionInv'
    BY <1>0, <1>1, <1>2 DEF VersionInv, Job
  <1>10. QED
    BY <1>3, <1>4, <1>5, <1>6, <1>7, <1>8, <1>9 DEF Inv

\* The outcome is journaled.
LEMMA RecordStep ==
    ASSUME Inv, Record
    PROVE  Inv'
  <1> USE UpgradeAssumption
  <1>0. TypeInv /\ StepInv /\ JournalInv /\ BegunInv /\ MarkerInv /\ LoadedInv /\ VersionInv
    BY DEF Inv
  <1>1. /\ wk' \in [pc : Pcs, ok : BOOLEAN]
        /\ jrn' \in Journals \cup {None}
        /\ wk.pc = "record"
        /\ wk'.pc = "finish"
        /\ jrn' # None /\ jrn'.job = jrn.job
        /\ jrn'.phase = IF wk.ok THEN "succeeded" ELSE "failed"
        /\ UNCHANGED <<openwrt, inst, exe, loop, marker, completed, overdue, helper, cloud, begun, local>>
    BY <1>0 DEF Record, Outcome, TypeInv, StepInv, Journals, At, Poll, Pcs, Quiet, Elsewhere, NoFault, evidence
  <1>2. /\ jrn # None /\ jrn.phase = "executing" /\ marker = None
        /\ jrn.job \in DOMAIN cloud /\ cloud[jrn.job].state \notin Final
    BY <1>0, <1>1 DEF StepInv, JournalInv, BegunInv, HandsOff, Job, Final
  <1>3. TypeInv'
    BY <1>0, <1>1, <1>2 DEF TypeInv
  <1>4. StepInv'
    BY <1>0, <1>1, <1>2 DEF StepInv, HandsOff, Job, Final
  <1>5. JournalInv'
    BY <1>0, <1>1, <1>2 DEF JournalInv, Job, Final
  <1>6. BegunInv'
    BY <1>0, <1>1, <1>2 DEF BegunInv, Final
  <1>7. MarkerInv'
    BY <1>0, <1>1, <1>2 DEF MarkerInv, Final
  <1>8. LoadedInv'
    BY <1>0, <1>1, <1>2 DEF LoadedInv
  <1>9. VersionInv'
    BY <1>0, <1>1, <1>2 DEF VersionInv, Job
  <1>10. QED
    BY <1>3, <1>4, <1>5, <1>6, <1>7, <1>8, <1>9 DEF Inv

\* The marker is written before the handoff, and only once.
LEMMA FinishStep ==
    ASSUME Inv, Finish
    PROVE  Inv'
  <1> USE UpgradeAssumption
  <1>0. TypeInv /\ StepInv /\ JournalInv /\ BegunInv /\ MarkerInv /\ LoadedInv /\ VersionInv
    BY DEF Inv
  <1>1. /\ wk' \in [pc : Pcs, ok : BOOLEAN]
        /\ wk.pc = "finish"
        /\ marker' \in Markers \cup {None}
        /\ \/ ~HandsOff /\ wk'.pc = "verdict" /\ marker' = marker
           \/ HandsOff /\ wk'.pc = "poll" /\ marker' = marker
           \/ /\ HandsOff /\ wk'.pc = "completion" /\ marker' # None /\ marker'.job = jrn.job
              /\ marker \in {None, marker'}
        /\ overdue' \in BOOLEAN
        /\ UNCHANGED <<openwrt, inst, exe, loop, jrn, completed, helper, cloud, begun, local>>
    <2>1. /\ wk.pc = "finish" /\ jrn # None /\ jrn.job \in DOMAIN cloud
          /\ UNCHANGED <<openwrt, inst, exe, loop, jrn, completed, helper, cloud, begun, local>>
      BY <1>0 DEF Finish, Elsewhere, StepInv, JournalInv
    <2>2. NewMarker \in Markers /\ NewMarker.job = jrn.job
      <3>1. cloud[jrn.job] \in Jobs /\ jrn \in Journals
        BY <1>0, <2>1 DEF TypeInv
      <3>2. jrn.job \in Nat /\ cloud[jrn.job].version \in Versions /\ inst.runtime \in Versions
        BY <1>0, <3>1 DEF TypeInv, Jobs, Journals
      <3>3. QED
        BY <3>2 DEF NewMarker, Markers, Job
    <2>3. CASE ~HandsOff /\ wk' = At("verdict") /\ UNCHANGED <<marker, overdue>>
      BY <1>0, <2>1, <2>3 DEF TypeInv, At, Pcs
    <2>4. CASE HandsOff /\ wk' = Poll /\ UNCHANGED <<marker, overdue>>
      BY <1>0, <2>1, <2>4 DEF TypeInv, Poll, At, Pcs
    <2>5. CASE /\ HandsOff /\ marker \in {None, NewMarker} /\ marker' = NewMarker
               /\ wk' = At("completion") /\ overdue' = (marker # None /\ overdue)
      <3>1. wk' \in [pc : Pcs, ok : BOOLEAN] /\ wk'.pc = "completion" /\ overdue' \in BOOLEAN
        BY <2>5 DEF At, Pcs
      <3>2. marker' \in Markers /\ marker' # None /\ marker'.job = jrn.job /\ marker \in {None, marker'}
        BY <2>2, <2>5
      <3>3. QED
        BY <2>1, <2>5, <3>1, <3>2
    <2>6. QED
      BY <2>3, <2>4, <2>5 DEF Finish
  <1>2. /\ jrn # None /\ jrn.phase \in Final /\ jrn.job \in DOMAIN cloud
    BY <1>0, <1>1 DEF StepInv, JournalInv, BegunInv, HandsOff, Job, Final
  <1>3. TypeInv'
    BY <1>0, <1>1, <1>2 DEF TypeInv
  <1>4. StepInv'
    BY <1>0, <1>1, <1>2 DEF StepInv, HandsOff, Job, Final
  <1>5. JournalInv'
    BY <1>0, <1>1, <1>2 DEF JournalInv, Job, Final
  <1>6. BegunInv'
    BY <1>0, <1>1, <1>2 DEF BegunInv, Final
  <1>7. MarkerInv'
    BY <1>0, <1>1, <1>2 DEF MarkerInv, Final, HandsOff
  <1>8. LoadedInv'
    BY <1>0, <1>1, <1>2 DEF LoadedInv, MarkerInv
  <1>9. VersionInv'
    BY <1>0, <1>1, <1>2 DEF VersionInv, Job
  <1>10. QED
    BY <1>3, <1>4, <1>5, <1>6, <1>7, <1>8, <1>9 DEF Inv

\* The worker looks for the completion of its marker.
LEMMA CompletionLookStep ==
    ASSUME Inv, CompletionLook
    PROVE  Inv'
  <1> USE UpgradeAssumption
  <1>0. TypeInv /\ StepInv /\ JournalInv /\ BegunInv /\ MarkerInv /\ LoadedInv /\ VersionInv
    BY DEF Inv
  <1>1. /\ wk' \in [pc : Pcs, ok : BOOLEAN]
        /\ wk.pc = "completion"
        /\ \/ /\ completed = marker /\ completed' = completed /\ wk'.pc \in {"success", "schedule"}
           \/ /\ completed # marker /\ completed' \in {completed, None}
              /\ wk'.pc \in {"failure", "poll"}
        /\ UNCHANGED <<openwrt, inst, exe, loop, jrn, marker, overdue, helper, cloud, begun, local>>
    <2>0. /\ wk.pc = "completion"
          /\ UNCHANGED <<openwrt, inst, exe, loop, jrn, marker, overdue, helper, cloud, begun, local>>
      BY DEF CompletionLook, Quiet, Elsewhere
    <2>1. marker # None
      BY <1>0, <2>0 DEF StepInv
    <2>2. ReadCompletion(wk' = At(IF exe = marker.digest THEN "success" ELSE "schedule"),
                         wk' = At("failure"))
      BY DEF CompletionLook
    <2>3. CASE completed = marker
      <3>1. completed' = completed /\ (wk' = At("success") \/ wk' = At("schedule"))
        BY <2>1, <2>2, <2>3 DEF ReadCompletion
      <3>2. QED
        BY <2>0, <2>3, <3>1, AtShape DEF Pcs
    <2>4. CASE completed # marker
      <3>1. completed' \in {completed, None} /\ (wk' = At("failure") \/ wk' = Poll)
        BY <2>1, <2>2, <2>4 DEF ReadCompletion
      <3>2. QED
        BY <2>0, <2>4, <3>1, AtShape DEF Pcs
    <2>5. QED
      BY <2>3, <2>4
  <1>2. /\ jrn # None /\ HandsOff /\ marker # None
    BY <1>0, <1>1 DEF StepInv, JournalInv, BegunInv, HandsOff, Job, Final
  <1>3. TypeInv'
    BY <1>0, <1>1, <1>2 DEF TypeInv
  <1>4. StepInv'
    BY <1>0, <1>1, <1>2 DEF StepInv, HandsOff, Job, Final
  <1>5. JournalInv'
    BY <1>0, <1>1, <1>2 DEF JournalInv, Job, Final
  <1>6. BegunInv'
    BY <1>0, <1>1, <1>2 DEF BegunInv, Final
  <1>7. MarkerInv'
    BY <1>0, <1>1, <1>2 DEF MarkerInv, Final
  <1>8. LoadedInv'
    BY <1>0, <1>1, <1>2 DEF LoadedInv
  <1>9. VersionInv'
    BY <1>0, <1>1, <1>2 DEF VersionInv, Job
  <1>10. QED
    BY <1>3, <1>4, <1>5, <1>6, <1>7, <1>8, <1>9 DEF Inv

\* Cloud is told of the success.
LEMMA SucceedStep ==
    ASSUME Inv, Succeed
    PROVE  Inv'
  <1> USE UpgradeAssumption
  <1>0. TypeInv /\ StepInv /\ JournalInv /\ BegunInv /\ MarkerInv /\ LoadedInv /\ VersionInv
    BY DEF Inv
  <1>1. /\ wk.pc = "success"
        /\ Told("succeeded", "closeSuccess")
    BY <1>0, SucceedTold
  <1>2. /\ jrn # None /\ openwrt /\ jrn.phase = "succeeded" /\ jrn.job \in DOMAIN cloud
        /\ marker # None /\ completed = marker
        /\ cloud[jrn.job].comp = "runtime" /\ cloud[jrn.job].state # "failed"
    BY <1>0, <1>1 DEF StepInv, JournalInv, BegunInv, HandsOff, Job, Final
  <1>3. TypeInv'
    BY <1>0, <1>1, <1>2 DEF TypeInv, Told
  <1>4. StepInv'
    BY <1>0, <1>1, <1>2 DEF StepInv, HandsOff, Job, Final, Told
  <1>5. JournalInv'
    BY <1>0, <1>1, <1>2 DEF JournalInv, Job, Final, Told
  <1>6. BegunInv'
    BY <1>0, <1>1, <1>2 DEF BegunInv, Final, Told
  <1>7. MarkerInv'
    BY <1>0, <1>1, <1>2 DEF MarkerInv, Final, Told
  <1>8. LoadedInv'
    BY <1>0, <1>1, <1>2 DEF LoadedInv, Told
  <1>9. VersionInv'
    BY <1>0, <1>1, <1>2 DEF VersionInv, Job, Told
  <1>10. QED
    BY <1>3, <1>4, <1>5, <1>6, <1>7, <1>8, <1>9 DEF Inv

\* The worker looks for a failure of the handoff, or gives it up.
LEMMA FailureLookStep ==
    ASSUME Inv, FailureLook
    PROVE  Inv'
  <1> USE UpgradeAssumption
  <1>0. TypeInv /\ StepInv /\ JournalInv /\ BegunInv /\ MarkerInv /\ LoadedInv /\ VersionInv
    BY DEF Inv
  <1>1. /\ wk' \in [pc : Pcs, ok : BOOLEAN]
        /\ wk.pc = "failure"
        /\ wk'.pc \in {"schedule", "failed"}
        /\ UNCHANGED <<openwrt, inst, exe, loop, jrn, marker, completed, overdue, helper, cloud, begun, local>>
    BY <1>0 DEF FailureLook, At, Poll, Pcs, Quiet, Elsewhere, NoFault, evidence
  <1>2. /\ jrn # None /\ HandsOff /\ marker # None
        /\ cloud[jrn.job].state \notin Final
    BY <1>0, <1>1 DEF StepInv, JournalInv, BegunInv, HandsOff, Job, Final
  <1>3. TypeInv'
    BY <1>0, <1>1, <1>2 DEF TypeInv
  <1>4. StepInv'
    BY <1>0, <1>1, <1>2 DEF StepInv, HandsOff, Job, Final
  <1>5. JournalInv'
    BY <1>0, <1>1, <1>2 DEF JournalInv, Job, Final
  <1>6. BegunInv'
    BY <1>0, <1>1, <1>2 DEF BegunInv, Final
  <1>7. MarkerInv'
    BY <1>0, <1>1, <1>2 DEF MarkerInv, Final
  <1>8. LoadedInv'
    BY <1>0, <1>1, <1>2 DEF LoadedInv
  <1>9. VersionInv'
    BY <1>0, <1>1, <1>2 DEF VersionInv, Job
  <1>10. QED
    BY <1>3, <1>4, <1>5, <1>6, <1>7, <1>8, <1>9 DEF Inv

\* The failed handoff is journaled.
LEMMA FailHandoffStep ==
    ASSUME Inv, FailHandoff
    PROVE  Inv'
  <1> USE UpgradeAssumption
  <1>0. TypeInv /\ StepInv /\ JournalInv /\ BegunInv /\ MarkerInv /\ LoadedInv /\ VersionInv
    BY DEF Inv
  <1>1. /\ wk' \in [pc : Pcs, ok : BOOLEAN]
        /\ jrn' \in Journals \cup {None}
        /\ wk.pc = "failed"
        /\ wk'.pc = "report"
        /\ jrn' # None /\ jrn'.job = jrn.job /\ jrn'.phase = "failed"
        /\ UNCHANGED <<openwrt, inst, exe, loop, marker, completed, overdue, helper, cloud, begun, local>>
    BY <1>0 DEF FailHandoff, TypeInv, StepInv, Journals, At, Poll, Pcs, Quiet, Elsewhere, NoFault, evidence
  <1>2. /\ jrn # None /\ jrn.phase = "succeeded" /\ marker # None
        /\ jrn.job \in DOMAIN cloud /\ cloud[jrn.job].state \notin Final
    BY <1>0, <1>1 DEF StepInv, JournalInv, BegunInv, HandsOff, Job, Final
  <1>3. TypeInv'
    BY <1>0, <1>1, <1>2 DEF TypeInv
  <1>4. StepInv'
    BY <1>0, <1>1, <1>2 DEF StepInv, HandsOff, Job, Final
  <1>5. JournalInv'
    BY <1>0, <1>1, <1>2 DEF JournalInv, Job, Final
  <1>6. BegunInv'
    BY <1>0, <1>1, <1>2 DEF BegunInv, Final
  <1>7. MarkerInv'
    BY <1>0, <1>1, <1>2 DEF MarkerInv, Final
  <1>8. LoadedInv'
    BY <1>0, <1>1, <1>2 DEF LoadedInv
  <1>9. VersionInv'
    BY <1>0, <1>1, <1>2 DEF VersionInv, Job
  <1>10. QED
    BY <1>3, <1>4, <1>5, <1>6, <1>7, <1>8, <1>9 DEF Inv

\* Cloud is told of the failed handoff.
LEMMA ReportStep ==
    ASSUME Inv, Report
    PROVE  Inv'
  <1> USE UpgradeAssumption
  <1>0. TypeInv /\ StepInv /\ JournalInv /\ BegunInv /\ MarkerInv /\ LoadedInv /\ VersionInv
    BY DEF Inv
  <1>1. /\ wk.pc = "report"
        /\ Told("failed", "closeFailure")
    BY <1>0, ReportTold
  <1>2. /\ jrn # None /\ jrn.phase = "failed" /\ marker # None
        /\ jrn.job \in DOMAIN cloud /\ cloud[jrn.job].state # "succeeded"
    BY <1>0, <1>1 DEF StepInv, JournalInv, BegunInv, HandsOff, Job, Final
  <1>3. TypeInv'
    BY <1>0, <1>1, <1>2 DEF TypeInv, Told
  <1>4. StepInv'
    BY <1>0, <1>1, <1>2 DEF StepInv, HandsOff, Job, Final, Told
  <1>5. JournalInv'
    BY <1>0, <1>1, <1>2 DEF JournalInv, Job, Final, Told
  <1>6. BegunInv'
    BY <1>0, <1>1, <1>2 DEF BegunInv, Final, Told
  <1>7. MarkerInv'
    BY <1>0, <1>1, <1>2 DEF MarkerInv, Final, Told
  <1>8. LoadedInv'
    BY <1>0, <1>1, <1>2 DEF LoadedInv, Told
  <1>9. VersionInv'
    BY <1>0, <1>1, <1>2 DEF VersionInv, Job, Told
  <1>10. QED
    BY <1>3, <1>4, <1>5, <1>6, <1>7, <1>8, <1>9 DEF Inv

\* Cloud is told the verdict.
LEMMA VerdictStep ==
    ASSUME Inv, Verdict
    PROVE  Inv'
  <1> USE UpgradeAssumption
  <1>0. TypeInv /\ StepInv /\ JournalInv /\ BegunInv /\ MarkerInv /\ LoadedInv /\ VersionInv
    BY DEF Inv
  <1>1. /\ wk.pc = "verdict"
        /\ Told(jrn.phase, "close")
    BY <1>0, VerdictTold
  <1>2. /\ jrn # None /\ jrn.phase \in Final /\ jrn.job \in DOMAIN cloud
        /\ ~(openwrt /\ jrn.phase = "succeeded" /\ cloud[jrn.job].comp = "runtime")
        /\ cloud[jrn.job].state \in Final => cloud[jrn.job].state = jrn.phase
    BY <1>0, <1>1 DEF StepInv, JournalInv, BegunInv, HandsOff, Job, Final
  <1>3. TypeInv'
    BY <1>0, <1>1, <1>2 DEF TypeInv, Told
  <1>4. StepInv'
    BY <1>0, <1>1, <1>2 DEF StepInv, HandsOff, Job, Final, Told
  <1>5. JournalInv'
    BY <1>0, <1>1, <1>2 DEF JournalInv, Job, Final, Told
  <1>6. BegunInv'
    BY <1>0, <1>1, <1>2 DEF BegunInv, Final, Told
  <1>7. MarkerInv'
    BY <1>0, <1>1, <1>2 DEF MarkerInv, Final, Told
  <1>8. LoadedInv'
    BY <1>0, <1>1, <1>2 DEF LoadedInv, Told
  <1>9. VersionInv'
    BY <1>0, <1>1, <1>2 DEF VersionInv, Job, Told
  <1>10. QED
    BY <1>3, <1>4, <1>5, <1>6, <1>7, <1>8, <1>9 DEF Inv

\* The journal goes after the receipt.
LEMMA CloseStep ==
    ASSUME Inv, Close
    PROVE  Inv'
  <1> USE UpgradeAssumption
  <1>0. TypeInv /\ StepInv /\ JournalInv /\ BegunInv /\ MarkerInv /\ LoadedInv /\ VersionInv
    BY DEF Inv
  <1>1. /\ wk' \in [pc : Pcs, ok : BOOLEAN]
        /\ wk.pc \in {"close", "closeSuccess", "closeFailure"}
        /\ jrn' = None
        /\ wk.pc = "closeSuccess" => wk'.pc = "cleanMarker"
        /\ wk.pc = "closeFailure" => wk'.pc = "schedule"
        /\ wk.pc = "close" => wk'.pc = "poll"
        /\ exe' \in Versions /\ exe' \in {exe, inst.runtime}
        /\ UNCHANGED <<openwrt, inst, loop, marker, completed, overdue, helper, cloud, begun, local>>
    BY <1>0 DEF Close, TypeInv, At, Poll, Pcs, Quiet, Elsewhere, NoFault, evidence
  <1>2. /\ jrn # None /\ jrn.job \in DOMAIN cloud /\ cloud[jrn.job].state \in Final
        /\ wk.pc = "closeSuccess" => marker # None /\ completed = marker
        /\ wk.pc = "closeFailure" => marker # None
    BY <1>0, <1>1 DEF StepInv, JournalInv, BegunInv, HandsOff, Job, Final
  <1>3. TypeInv'
    BY <1>0, <1>1, <1>2 DEF TypeInv
  <1>4. StepInv'
    BY <1>0, <1>1, <1>2 DEF StepInv, HandsOff, Job, Final
  <1>5. JournalInv'
    BY <1>0, <1>1, <1>2 DEF JournalInv, Job, Final
  <1>6. BegunInv'
    BY <1>0, <1>1, <1>2 DEF BegunInv, Final
  <1>7. MarkerInv'
    BY <1>0, <1>1, <1>2 DEF MarkerInv, Final
  <1>8. LoadedInv'
    BY <1>0, <1>1, <1>2 DEF LoadedInv
  <1>9. VersionInv'
    BY <1>0, <1>1, <1>2 DEF VersionInv, Job
  <1>10. QED
    BY <1>3, <1>4, <1>5, <1>6, <1>7, <1>8, <1>9 DEF Inv

\* The evidence is removed file by file.
LEMMA CleanStep ==
    ASSUME Inv, Clean
    PROVE  Inv'
  <1> USE UpgradeAssumption
  <1>0. TypeInv /\ StepInv /\ JournalInv /\ BegunInv /\ MarkerInv /\ LoadedInv /\ VersionInv
    BY DEF Inv
  <1>1. /\ wk' \in [pc : Pcs, ok : BOOLEAN]
        /\ \/ wk.pc = "cleanMarker" /\ marker' = None /\ completed' = completed /\ wk'.pc = "cleanCompleted"
           \/ wk.pc = "cleanCompleted" /\ completed' = None /\ marker' = marker /\ wk'.pc = "cleanFailure"
           \/ wk.pc = "cleanFailure" /\ marker' = marker /\ completed' = completed /\ wk'.pc = "poll"
        /\ UNCHANGED <<openwrt, inst, exe, loop, jrn, overdue, helper, cloud, begun, local>>
    <2>1. UNCHANGED <<openwrt, inst, exe, loop, jrn, overdue, helper, cloud, begun, local>>
      BY DEF Clean, Quiet, Elsewhere
    <2>2. \/ wk.pc = "cleanMarker" /\ marker' = None /\ completed' = completed /\ wk' = At("cleanCompleted")
          \/ wk.pc = "cleanCompleted" /\ completed' = None /\ marker' = marker /\ wk' = At("cleanFailure")
          \/ wk.pc = "cleanFailure" /\ marker' = marker /\ completed' = completed /\ wk' = Poll
      BY DEF Clean
    <2>3. QED
      BY <2>1, <2>2, AtShape DEF Pcs
  <1>2. /\ jrn = None
        /\ wk.pc = "cleanMarker" => marker # None /\ completed = marker
        /\ wk.pc = "cleanCompleted" => marker = None
    BY <1>0, <1>1 DEF StepInv, JournalInv, BegunInv, HandsOff, Job, Final
  <1>3. TypeInv'
    BY <1>0, <1>1, <1>2 DEF TypeInv
  <1>4. StepInv'
    BY <1>0, <1>1, <1>2 DEF StepInv, HandsOff, Job, Final
  <1>5. JournalInv'
    BY <1>0, <1>1, <1>2 DEF JournalInv, Job, Final
  <1>6. BegunInv'
    BY <1>0, <1>1, <1>2 DEF BegunInv, Final
  <1>7. MarkerInv'
    BY <1>0, <1>1, <1>2 DEF MarkerInv, Final
  <1>8. LoadedInv'
    BY <1>0, <1>1, <1>2 DEF LoadedInv
  <1>9. VersionInv'
    BY <1>0, <1>1, <1>2 DEF VersionInv, Job
  <1>10. QED
    BY <1>3, <1>4, <1>5, <1>6, <1>7, <1>8, <1>9 DEF Inv

\* A helper is started unless one runs.
LEMMA ScheduleStep ==
    ASSUME Inv, Schedule
    PROVE  Inv'
  <1> USE UpgradeAssumption
  <1>0. TypeInv /\ StepInv /\ JournalInv /\ BegunInv /\ MarkerInv /\ LoadedInv /\ VersionInv
    BY DEF Inv
  <1>1. /\ wk' \in [pc : Pcs, ok : BOOLEAN]
        /\ wk.pc = "schedule"
        /\ wk'.pc = "poll"
        /\ helper' \in Helpers \cup {None}
        /\ helper' = helper \/ (helper' # None /\ helper'.pc = "check")
        /\ UNCHANGED <<openwrt, inst, exe, loop, jrn, marker, completed, overdue, cloud, begun, local>>
    <2>1. /\ wk.pc = "schedule" /\ wk' = Poll
          /\ UNCHANGED <<openwrt, inst, exe, loop, jrn, marker, completed, overdue, cloud, begun, local>>
      BY DEF Schedule
    <2>2. wk' \in [pc : Pcs, ok : BOOLEAN] /\ wk'.pc = "poll"
      BY <2>1 DEF Poll, At, Pcs
    <2> DEFINE h == [pc |-> "check", expects |-> None, version |-> 0]
    <2>3. helper' = helper \/ helper' = h
      BY DEF Schedule
    <2>4. h \in Helpers /\ h # None /\ h.pc = "check"
      BY DEF Helpers
    <2> HIDE DEF h
    <2>5. helper' = helper \/ (helper' # None /\ helper'.pc = "check")
      BY <2>3, <2>4
    <2>6. helper' \in Helpers \cup {None}
      BY <1>0, <2>3, <2>4 DEF TypeInv
    <2>7. QED
      BY <2>1, <2>2, <2>5, <2>6
  <1>2. /\ marker # None
    BY <1>0, <1>1 DEF StepInv, JournalInv, BegunInv, HandsOff, Job, Final
  <1>3. TypeInv'
    BY <1>0, <1>1, <1>2 DEF TypeInv
  <1>4. StepInv'
    BY <1>0, <1>1, <1>2 DEF StepInv, HandsOff, Job, Final
  <1>5. JournalInv'
    BY <1>0, <1>1, <1>2 DEF JournalInv, Job, Final
  <1>6. BegunInv'
    BY <1>0, <1>1, <1>2 DEF BegunInv, Final
  <1>7. MarkerInv'
    BY <1>0, <1>1, <1>2 DEF MarkerInv, Final
  <1>8. LoadedInv'
    BY <1>0, <1>1, <1>2 DEF LoadedInv
  <1>9. VersionInv'
    BY <1>0, <1>1, <1>2 DEF VersionInv, Job
  <1>10. QED
    BY <1>3, <1>4, <1>5, <1>6, <1>7, <1>8, <1>9 DEF Inv

\* The helper starts on a marker without completion.
LEMMA HelperCheckStep ==
    ASSUME Inv, HelperCheck
    PROVE  Inv'
  <1> USE UpgradeAssumption
  <1>0. TypeInv /\ StepInv /\ JournalInv /\ BegunInv /\ MarkerInv /\ LoadedInv /\ VersionInv
    BY DEF Inv
  <1>1. /\ helper' \in Helpers \cup {None}
        /\ wk' = wk
        /\ \/ /\ helper' = None /\ completed' \in {completed, None}
              /\ completed = marker => completed' = completed
           \/ /\ marker # None /\ completed # marker /\ completed' = None
              /\ helper' # None /\ helper'.pc = "stop"
        /\ UNCHANGED <<openwrt, inst, exe, loop, jrn, marker, overdue, cloud, begun, local>>
    BY <1>0 DEF HelperCheck, Helpers, Markers, HelperFrame, FailHelper, TypeInv, evidence, loaded
  <1>2. TypeInv'
    BY <1>0, <1>1 DEF TypeInv
  <1>3. StepInv'
    BY <1>0, <1>1 DEF StepInv, HandsOff, Job, Final
  <1>4. JournalInv'
    BY <1>0, <1>1 DEF JournalInv, Job, Final
  <1>5. BegunInv'
    BY <1>0, <1>1 DEF BegunInv, Final
  <1>6. MarkerInv'
    BY <1>0, <1>1 DEF MarkerInv, Final
  <1>7. LoadedInv'
    BY <1>0, <1>1 DEF LoadedInv
  <1>8. VersionInv'
    BY <1>0, <1>1 DEF VersionInv, Job
  <1>9. QED
    BY <1>2, <1>3, <1>4, <1>5, <1>6, <1>7, <1>8 DEF Inv

\* The helper stops the service.
LEMMA HelperStopStep ==
    ASSUME Inv, HelperStop
    PROVE  Inv'
  <1> USE UpgradeAssumption
  <1>0. TypeInv /\ StepInv /\ JournalInv /\ BegunInv /\ MarkerInv /\ LoadedInv /\ VersionInv
    BY DEF Inv
  <1>1. /\ helper' \in Helpers /\ helper'.pc = "start"
        /\ wk' \in [pc : Pcs, ok : BOOLEAN] /\ wk'.pc = "down"
        /\ helper # None /\ helper.pc = "stop"
        /\ UNCHANGED <<openwrt, inst, exe, loop, jrn, marker, completed, overdue, cloud, begun, local>>
    <2>1. /\ helper \in Helpers /\ helper # None /\ helper.pc = "stop"
          /\ helper' = [helper EXCEPT !.pc = "start"] /\ wk' = At("down")
          /\ UNCHANGED <<openwrt, inst, exe, loop, jrn, marker, completed, overdue, cloud, begun, local>>
      BY <1>0 DEF HelperStop, HelperFrame, TypeInv, evidence, loaded
    <2>2. helper' \in Helpers /\ helper'.pc = "start"
      BY <2>1 DEF Helpers
    <2>3. wk' \in [pc : Pcs, ok : BOOLEAN] /\ wk'.pc = "down"
      BY <2>1 DEF At, Pcs
    <2>4. QED
      BY <2>1, <2>2, <2>3
  <1>2. TypeInv'
    BY <1>0, <1>1 DEF TypeInv
  <1>3. StepInv'
    BY <1>0, <1>1 DEF StepInv, HandsOff, Job, Final
  <1>4. JournalInv'
    BY <1>0, <1>1 DEF JournalInv, Job, Final
  <1>5. BegunInv'
    BY <1>0, <1>1 DEF BegunInv, Final
  <1>6. MarkerInv'
    BY <1>0, <1>1 DEF MarkerInv, Final
  <1>7. LoadedInv'
    BY <1>0, <1>1 DEF LoadedInv
  <1>8. VersionInv'
    BY <1>0, <1>1 DEF VersionInv, Job
  <1>9. QED
    BY <1>2, <1>3, <1>4, <1>5, <1>6, <1>7, <1>8 DEF Inv

\* The helper starts it again, or fails to.
LEMMA HelperStartStep ==
    ASSUME Inv, HelperStart
    PROVE  Inv'
  <1> USE UpgradeAssumption
  <1>0. TypeInv /\ StepInv /\ JournalInv /\ BegunInv /\ MarkerInv /\ LoadedInv /\ VersionInv
    BY DEF Inv
  <1>1. /\ helper' \in Helpers \cup {None}
        /\ wk' \in [pc : Pcs, ok : BOOLEAN]
        /\ helper # None /\ helper.pc = "start"
        /\ helper' = None \/ helper'.pc \in {"stop", "commit"}
        /\ \/ wk'.pc = "poll" /\ exe' = inst.runtime /\ loop' = inst.runtime
           \/ wk' = wk /\ exe' = exe /\ loop' = loop /\ (helper' = None \/ helper'.pc = "stop")
        /\ UNCHANGED <<openwrt, inst, jrn, marker, completed, overdue, cloud, begun, local>>
    <2>1. /\ helper # None /\ helper.pc = "start" /\ helper \in Helpers
          /\ UNCHANGED <<openwrt, inst, jrn, marker, completed, overdue, cloud, begun, local>>
      BY <1>0 DEF HelperStart, HelperFrame, TypeInv
    <2>2. Restarted => /\ wk' \in [pc : Pcs, ok : BOOLEAN] /\ wk'.pc = "poll"
                       /\ exe' = inst.runtime /\ loop' = inst.runtime
      BY DEF Restarted, Poll, At, Pcs
    <2>3. CASE Restarted /\ helper' = [helper EXCEPT !.pc = "commit"]
      <3>1. helper' \in Helpers /\ helper'.pc = "commit"
        BY <2>1, <2>3 DEF Helpers
      <3>2. QED
        BY <2>1, <2>2, <2>3, <3>1
    <2>4. CASE /\ helper' = None \/ helper' = [helper EXCEPT !.pc = "stop"]
               /\ Restarted \/ UNCHANGED <<wk, loaded>>
      <3>1. helper' = None \/ (helper' \in Helpers /\ helper'.pc = "stop")
        BY <2>1, <2>4 DEF Helpers
      <3>2. QED
        BY <1>0, <2>1, <2>2, <2>4, <3>1 DEF loaded, TypeInv
    <2>5. QED
      BY <2>3, <2>4 DEF HelperStart, FailHelper
  <1>2. TypeInv'
    BY <1>0, <1>1 DEF TypeInv
  <1>3. StepInv'
    BY <1>0, <1>1 DEF StepInv, HandsOff, Job, Final
  <1>4. JournalInv'
    BY <1>0, <1>1 DEF JournalInv, Job, Final
  <1>5. BegunInv'
    BY <1>0, <1>1 DEF BegunInv, Final
  <1>6. MarkerInv'
    BY <1>0, <1>1 DEF MarkerInv, Final
  <1>7. LoadedInv'
    BY <1>0, <1>1 DEF LoadedInv
  <1>8. VersionInv'
    BY <1>0, <1>1 DEF VersionInv, Job
  <1>9. QED
    BY <1>2, <1>3, <1>4, <1>5, <1>6, <1>7, <1>8 DEF Inv

\* The helper leaves a completion.
LEMMA HelperCommitStep ==
    ASSUME Inv, HelperCommit
    PROVE  Inv'
  <1> USE UpgradeAssumption
  <1>0. TypeInv /\ StepInv /\ JournalInv /\ BegunInv /\ MarkerInv /\ LoadedInv /\ VersionInv
    BY DEF Inv
  <1>1. /\ helper' \in Helpers \cup {None}
        /\ wk' = wk
        /\ helper # None /\ helper.pc = "commit"
        /\ \/ helper' = None /\ completed' = completed
           \/ completed' = marker /\ helper' # None /\ helper'.pc = "tidy"
        /\ UNCHANGED <<openwrt, inst, exe, loop, jrn, marker, overdue, cloud, begun, local>>
    BY <1>0 DEF HelperCommit, Helpers, HelperFrame, FailHelper, TypeInv, evidence, loaded
  <1>2. TypeInv'
    BY <1>0, <1>1 DEF TypeInv
  <1>3. StepInv'
    BY <1>0, <1>1 DEF StepInv, HandsOff, Job, Final
  <1>4. JournalInv'
    BY <1>0, <1>1 DEF JournalInv, Job, Final
  <1>5. BegunInv'
    BY <1>0, <1>1 DEF BegunInv, Final
  <1>6. MarkerInv'
    BY <1>0, <1>1 DEF MarkerInv, Final
  <1>7. LoadedInv'
    BY <1>0, <1>1 DEF LoadedInv
  <1>8. VersionInv'
    BY <1>0, <1>1 DEF VersionInv, Job
  <1>9. QED
    BY <1>2, <1>3, <1>4, <1>5, <1>6, <1>7, <1>8 DEF Inv

\* The helper ends.
LEMMA HelperTidyStep ==
    ASSUME Inv, HelperTidy
    PROVE  Inv'
  <1> USE UpgradeAssumption
  <1>0. TypeInv /\ StepInv /\ JournalInv /\ BegunInv /\ MarkerInv /\ LoadedInv /\ VersionInv
    BY DEF Inv
  <1>1. /\ wk' = wk
        /\ helper' = None
        /\ UNCHANGED <<openwrt, inst, exe, loop, jrn, marker, completed, overdue, cloud, begun, local>>
    BY <1>0 DEF HelperTidy, HelperFrame, FailHelper, TypeInv, evidence, loaded
  <1>2. TypeInv'
    BY <1>0, <1>1 DEF TypeInv
  <1>3. StepInv'
    BY <1>0, <1>1 DEF StepInv, HandsOff, Job, Final
  <1>4. JournalInv'
    BY <1>0, <1>1 DEF JournalInv, Job, Final
  <1>5. BegunInv'
    BY <1>0, <1>1 DEF BegunInv, Final
  <1>6. MarkerInv'
    BY <1>0, <1>1 DEF MarkerInv, Final
  <1>7. LoadedInv'
    BY <1>0, <1>1 DEF LoadedInv
  <1>8. VersionInv'
    BY <1>0, <1>1 DEF VersionInv, Job
  <1>9. QED
    BY <1>2, <1>3, <1>4, <1>5, <1>6, <1>7, <1>8 DEF Inv

\* Cloud has a new job.
LEMMA OrderStep ==
    ASSUME Inv, Order
    PROVE  Inv'
  <1> USE UpgradeAssumption
  <1>0. TypeInv /\ StepInv /\ JournalInv /\ BegunInv /\ MarkerInv /\ LoadedInv /\ VersionInv
    BY DEF Inv
  <1>1. /\ wk' = wk
        /\ cloud' \in Seq(Jobs)
        /\ DOMAIN cloud \subseteq DOMAIN cloud'
        /\ \A j \in DOMAIN cloud : cloud'[j] = cloud[j]
        /\ UNCHANGED <<openwrt, inst, exe, loop, jrn, marker, completed, overdue, helper, begun, local>>
    BY <1>0 DEF Order, TypeInv, Jobs, Surrounding, evidence, loaded
  <1>2. TypeInv'
    BY <1>0, <1>1 DEF TypeInv
  <1>3. StepInv'
    BY <1>0, <1>1 DEF StepInv, HandsOff, Job, Final, JournalInv
  <1>4. JournalInv'
    BY <1>0, <1>1 DEF JournalInv, Job, Final
  <1>5. BegunInv'
    BY <1>0, <1>1 DEF BegunInv, Final
  <1>6. MarkerInv'
    BY <1>0, <1>1 DEF MarkerInv, Final
  <1>7. LoadedInv'
    BY <1>0, <1>1 DEF LoadedInv
  <1>8. VersionInv'
    BY <1>0, <1>1 DEF VersionInv, Job, JournalInv
  <1>9. QED
    BY <1>2, <1>3, <1>4, <1>5, <1>6, <1>7, <1>8 DEF Inv

\* The handoff takes too long.
LEMMA TimePassesStep ==
    ASSUME Inv, TimePasses
    PROVE  Inv'
  <1> USE UpgradeAssumption
  <1>0. TypeInv /\ StepInv /\ JournalInv /\ BegunInv /\ MarkerInv /\ LoadedInv /\ VersionInv
    BY DEF Inv
  <1>1. /\ wk' = wk
        /\ overdue' = TRUE
        /\ UNCHANGED <<openwrt, inst, exe, loop, jrn, marker, completed, helper, cloud, begun, local>>
    BY <1>0 DEF TimePasses, Surrounding, evidence, loaded
  <1>2. TypeInv'
    BY <1>0, <1>1 DEF TypeInv
  <1>3. StepInv'
    BY <1>0, <1>1 DEF StepInv, HandsOff, Job, Final
  <1>4. JournalInv'
    BY <1>0, <1>1 DEF JournalInv, Job, Final
  <1>5. BegunInv'
    BY <1>0, <1>1 DEF BegunInv, Final
  <1>6. MarkerInv'
    BY <1>0, <1>1 DEF MarkerInv, Final
  <1>7. LoadedInv'
    BY <1>0, <1>1 DEF LoadedInv
  <1>8. VersionInv'
    BY <1>0, <1>1 DEF VersionInv, Job
  <1>9. QED
    BY <1>2, <1>3, <1>4, <1>5, <1>6, <1>7, <1>8 DEF Inv

\* procd starts the worker again.
LEMMA WorkerDiesStep ==
    ASSUME Inv, WorkerDies
    PROVE  Inv'
  <1> USE UpgradeAssumption
  <1>0. TypeInv /\ StepInv /\ JournalInv /\ BegunInv /\ MarkerInv /\ LoadedInv /\ VersionInv
    BY DEF Inv
  <1>1. /\ wk' \in [pc : Pcs, ok : BOOLEAN]
        /\ wk'.pc = "poll"
        /\ exe' = inst.runtime
        /\ UNCHANGED <<openwrt, inst, loop, jrn, marker, completed, overdue, helper, cloud, begun, local>>
    BY <1>0 DEF WorkerDies, At, Poll, Pcs, Surrounding, evidence, loaded
  <1>2. TypeInv'
    BY <1>0, <1>1 DEF TypeInv
  <1>3. StepInv'
    BY <1>0, <1>1 DEF StepInv, HandsOff, Job, Final
  <1>4. JournalInv'
    BY <1>0, <1>1 DEF JournalInv, Job, Final
  <1>5. BegunInv'
    BY <1>0, <1>1 DEF BegunInv, Final
  <1>6. MarkerInv'
    BY <1>0, <1>1 DEF MarkerInv, Final
  <1>7. LoadedInv'
    BY <1>0, <1>1 DEF LoadedInv
  <1>8. VersionInv'
    BY <1>0, <1>1 DEF VersionInv, Job
  <1>9. QED
    BY <1>2, <1>3, <1>4, <1>5, <1>6, <1>7, <1>8 DEF Inv

\* The helper is killed.
LEMMA HelperDiesStep ==
    ASSUME Inv, HelperDies
    PROVE  Inv'
  <1> USE UpgradeAssumption
  <1>0. TypeInv /\ StepInv /\ JournalInv /\ BegunInv /\ MarkerInv /\ LoadedInv /\ VersionInv
    BY DEF Inv
  <1>1. /\ wk' = wk
        /\ helper' = None
        /\ UNCHANGED <<openwrt, inst, exe, loop, jrn, marker, completed, overdue, cloud, begun, local>>
    BY <1>0 DEF HelperDies, Surrounding, evidence, loaded
  <1>2. TypeInv'
    BY <1>0, <1>1 DEF TypeInv
  <1>3. StepInv'
    BY <1>0, <1>1 DEF StepInv, HandsOff, Job, Final
  <1>4. JournalInv'
    BY <1>0, <1>1 DEF JournalInv, Job, Final
  <1>5. BegunInv'
    BY <1>0, <1>1 DEF BegunInv, Final
  <1>6. MarkerInv'
    BY <1>0, <1>1 DEF MarkerInv, Final
  <1>7. LoadedInv'
    BY <1>0, <1>1 DEF LoadedInv
  <1>8. VersionInv'
    BY <1>0, <1>1 DEF VersionInv, Job
  <1>9. QED
    BY <1>2, <1>3, <1>4, <1>5, <1>6, <1>7, <1>8 DEF Inv

\* Everything starts again.
LEMMA PowerLossStep ==
    ASSUME Inv, PowerLoss
    PROVE  Inv'
  <1> USE UpgradeAssumption
  <1>0. TypeInv /\ StepInv /\ JournalInv /\ BegunInv /\ MarkerInv /\ LoadedInv /\ VersionInv
    BY DEF Inv
  <1>1. /\ wk' \in [pc : Pcs, ok : BOOLEAN]
        /\ wk'.pc = "poll"
        /\ helper' = None
        /\ exe' = inst.runtime /\ loop' = inst.runtime
        /\ UNCHANGED <<openwrt, inst, jrn, marker, completed, overdue, cloud, begun, local>>
    BY <1>0 DEF PowerLoss, Restarted, NoFault, At, Poll, Pcs, Surrounding, evidence, loaded
  <1>2. TypeInv'
    BY <1>0, <1>1 DEF TypeInv
  <1>3. StepInv'
    BY <1>0, <1>1 DEF StepInv, HandsOff, Job, Final
  <1>4. JournalInv'
    BY <1>0, <1>1 DEF JournalInv, Job, Final
  <1>5. BegunInv'
    BY <1>0, <1>1 DEF BegunInv, Final
  <1>6. MarkerInv'
    BY <1>0, <1>1 DEF MarkerInv, Final
  <1>7. LoadedInv'
    BY <1>0, <1>1 DEF LoadedInv
  <1>8. VersionInv'
    BY <1>0, <1>1 DEF VersionInv, Job
  <1>9. QED
    BY <1>2, <1>3, <1>4, <1>5, <1>6, <1>7, <1>8 DEF Inv

\* The web interface installs and restarts.
LEMMA LocalInstallStep ==
    ASSUME Inv, LocalInstall
    PROVE  Inv'
  <1> USE UpgradeAssumption
  <1>0. TypeInv /\ StepInv /\ JournalInv /\ BegunInv /\ MarkerInv /\ LoadedInv /\ VersionInv
    BY DEF Inv
  <1>1. /\ wk' \in [pc : Pcs, ok : BOOLEAN]
        /\ wk'.pc = "poll"
        /\ local' = local + 1
        /\ inst' \in [runtime : Versions, core : Versions]
        /\ exe' = inst'.runtime /\ loop' = inst'.runtime /\ exe' \in Versions
        /\ UNCHANGED <<openwrt, jrn, marker, completed, overdue, helper, cloud, begun>>
    BY <1>0 DEF LocalInstall, TypeInv, At, Poll, Pcs, Surrounding, evidence, loaded
  <1>2. TypeInv'
    BY <1>0, <1>1 DEF TypeInv
  <1>3. StepInv'
    BY <1>0, <1>1 DEF StepInv, HandsOff, Job, Final
  <1>4. JournalInv'
    BY <1>0, <1>1 DEF JournalInv, Job, Final
  <1>5. BegunInv'
    BY <1>0, <1>1 DEF BegunInv, Final
  <1>6. MarkerInv'
    BY <1>0, <1>1 DEF MarkerInv, Final
  <1>7. LoadedInv'
    BY <1>0, <1>1 DEF LoadedInv
  <1>8. VersionInv'
    BY <1>0, <1>1 DEF VersionInv, Job, TypeInv
  <1>9. QED
    BY <1>2, <1>3, <1>4, <1>5, <1>6, <1>7, <1>8 DEF Inv

-----------------------------------------------------------------------------
(* Theorems                                                                *)

\* Nothing was ordered, journaled or left over when the node is installed.
LEMMA InvInit ==
    Init => Inv
  <1> USE UpgradeAssumption
  <1> SUFFICES ASSUME Init PROVE Inv
    OBVIOUS
  <1>1. /\ jrn = None /\ marker = None /\ completed = None /\ helper = None
        /\ wk = Poll /\ begun = {} /\ cloud = <<>>
    BY DEF Init
  <1>2. 1 \in Versions
    BY DEF Versions
  <1>3. TypeInv
    <2>1. /\ cloud \in Seq(Jobs) /\ wk \in [pc : Pcs, ok : BOOLEAN]
          /\ inst \in [runtime : Versions, core : Versions]
      BY <1>1, <1>2, AtShape DEF Init
    <2>2. QED
      BY <1>1, <1>2, <2>1 DEF Init, TypeInv
  <1>4. wk.pc = "poll"
    BY <1>1, AtShape
  <1>5. StepInv /\ JournalInv /\ BegunInv /\ MarkerInv /\ LoadedInv /\ VersionInv
    BY <1>1, <1>4 DEF StepInv, JournalInv, BegunInv, MarkerInv, LoadedInv, VersionInv
  <1>6. QED
    BY <1>3, <1>5 DEF Inv

\* Every step of the worker, the helper and their surroundings keeps the
\* invariant.
LEMMA InvNext ==
    Inv /\ [Next]_vars => Inv'
  <1> SUFFICES ASSUME Inv, [Next]_vars PROVE Inv'
    OBVIOUS
  <1>1. CASE Worker
    BY <1>1, WakeStep, LeftoverStep, AskStep, AnnounceStep, BeginStep, InstallStep, RecordStep,
       FinishStep, CompletionLookStep, SucceedStep, FailureLookStep, FailHandoffStep, ReportStep,
       VerdictStep, CloseStep, CleanStep, ScheduleStep DEF Worker
  <1>2. CASE Helper
    BY <1>2, HelperCheckStep, HelperStopStep, HelperStartStep, HelperCommitStep, HelperTidyStep DEF Helper
  <1>3. CASE Order \/ TimePasses \/ WorkerDies \/ HelperDies \/ PowerLoss \/ LocalInstall
    BY <1>3, OrderStep, TimePassesStep, WorkerDiesStep, HelperDiesStep, PowerLossStep,
       LocalInstallStep
  <1>4. CASE UNCHANGED vars
    BY <1>4 DEF vars, evidence, loaded, Inv, TypeInv, StepInv, HandsOff, Job, JournalInv, BegunInv,
       MarkerInv, LoadedInv, VersionInv
  <1>5. QED
    BY <1>1, <1>2, <1>3, <1>4 DEF Next

\* The invariant holds in every reachable state.
LEMMA Invariance ==
    Spec => []Inv
  BY InvInit, InvNext, PTL DEF Spec

\* Only a receipt tells Cloud something about a job.
LEMMA CloudHears ==
    ASSUME Inv, [Next]_vars, cloud' # cloud, ~Order
    PROVE  Announce \/ Succeed \/ Report \/ Verdict
  BY DEF Next, Worker, Helper, vars, Wake, Leftover, Ask, Begin, Install, Record, Finish,
     CompletionLook, FailureLook, FailHandoff, Close, Clean, Schedule, HelperCheck, HelperStop,
     HelperStart,
     HelperCommit, HelperTidy, TimePasses, WorkerDies, HelperDies, PowerLoss, LocalInstall,
     Quiet, Elsewhere, HelperFrame

\* A new job leaves the others alone.
LEMMA OrderAppends ==
    ASSUME TypeInv, Order, NEW j \in DOMAIN cloud
    PROVE  cloud'[j] = cloud[j]
  BY DEF Order, TypeInv

\* Whatever Cloud hears about a job that has its verdict repeats it.
LEMMA VerdictKept ==
    ASSUME Inv, [Next]_vars, NEW j \in DOMAIN cloud, cloud[j].state \in Final
    PROVE  cloud'[j].state = cloud[j].state
  <1>0. TypeInv /\ StepInv /\ JournalInv
    BY DEF Inv
  <1>1. CASE cloud' = cloud
    BY <1>1
  <1>2. CASE Order
    BY <1>0, <1>2, OrderAppends
  <1>3. CASE Announce
    BY <1>0, <1>3, AnnounceTold DEF Told, StepInv, JournalInv, Job, Final
  <1>4. CASE Succeed
    BY <1>0, <1>4, SucceedTold DEF Told, StepInv, JournalInv, HandsOff, Job
  <1>5. CASE Report
    BY <1>0, <1>5, ReportTold DEF Told, StepInv, JournalInv, Job
  <1>6. CASE Verdict
    BY <1>0, <1>6, VerdictTold DEF Told, StepInv, JournalInv, Job
  <1>7. QED
    BY <1>1, <1>2, <1>3, <1>4, <1>5, <1>6, CloudHears

\* One installation and one verdict per job (upgrade.rs run, install,
\* receipt, finish_terminal_upgrade): whatever is killed, lost or repeated,
\* and whatever is installed by hand meanwhile, the installer of a job is
\* started once and Cloud never hears two verdicts on it.
THEOREM OneVerdict ==
    Spec => SettledOnce
  <1>1. Inv /\ [Next]_vars => [Install => jrn.job \notin begun]_vars
    BY DEF Inv, BegunInv, Install
  <1>2. Inv /\ [Next]_vars =>
           [\A j \in DOMAIN cloud :
               cloud[j].state \in Final => cloud'[j].state = cloud[j].state]_vars
    BY VerdictKept
  <1>3. QED
    BY <1>1, <1>2, Invariance, PTL DEF Spec, SettledOnce, InstallOnce, VerdictStable

\* On OpenWrt success means loaded (finish_terminal_upgrade and the script
\* candy-cloud-sync-handoff): Cloud hears that a Runtime job succeeded only
\* when the worker and the sync loop both run the installed Runtime, which is
\* the one it ordered unless somebody installed another by hand.
THEOREM LoadedBeforeSuccess ==
    Spec => SuccessIsLoaded
  <1> DEFINE A == \A j \in DOMAIN cloud :
                     /\ openwrt /\ cloud[j].comp = "runtime"
                     /\ cloud[j].state # "succeeded" /\ cloud'[j].state = "succeeded"
                     => exe = loop /\ (exe = cloud[j].version \/ local > 0)
  <1>1. ASSUME Inv, [Next]_vars, NEW j \in DOMAIN cloud, openwrt, cloud[j].comp = "runtime",
               cloud[j].state # "succeeded", cloud'[j].state = "succeeded"
        PROVE  exe = loop /\ (exe = cloud[j].version \/ local > 0)
    <2>0. TypeInv /\ StepInv /\ JournalInv /\ LoadedInv /\ VersionInv
      BY <1>1 DEF Inv
    <2>1. ~Order
      BY <1>1, <2>0, OrderAppends
    <2>2. ~Announce
      BY <1>1, <2>0, AnnounceTold DEF Told
    <2>3. ~Report
      BY <1>1, <2>0, ReportTold DEF Told
    <2>4. ~Verdict
      BY <1>1, <2>0, VerdictTold DEF Told, StepInv, HandsOff, Job
    <2>5. Succeed
      BY <1>1, <2>1, <2>2, <2>3, <2>4, CloudHears
    <2>6. /\ j = jrn.job /\ jrn # None /\ jrn.phase = "succeeded"
          /\ marker # None /\ completed = marker
      BY <1>1, <2>0, <2>5, SucceedTold DEF Told, StepInv, HandsOff
    <2>7. exe = inst.runtime /\ loop = inst.runtime
      BY <2>0, <2>6 DEF LoadedInv
    <2>8. local = 0 => inst.runtime = cloud[j].version
      BY <1>1, <2>0, <2>6 DEF VersionInv, Job
    <2>9. local = 0 \/ local > 0
      BY <2>0 DEF TypeInv
    <2>10. QED
      BY <2>7, <2>8, <2>9
  <1>2. Inv /\ [Next]_vars => [A]_vars
    BY <1>1
  <1>3. QED
    BY <1>2, Invariance, PTL DEF Spec, SuccessIsLoaded

=============================================================================
