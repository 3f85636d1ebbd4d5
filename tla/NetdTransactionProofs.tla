------------------------ MODULE NetdTransactionProofs ------------------------
(***************************************************************************)
(* Proofs about the version 1 transaction (NetdTransaction): the session   *)
(* and the transaction agree, a staged candidate never disturbs the live   *)
(* declaration, and what is in the kernel is in the journal.               *)
(*                                                                         *)
(* A handler is a script, so the invariants speak of the positions of      *)
(* job.todo: what each element may be, which record the elements before it *)
(* leave in memory and on disk, and what its error branch can rely on.     *)
(* Such facts survive the removal of the first element, which is what      *)
(* every step does; an error branch starts a script of its own.            *)
(***************************************************************************)
EXTENDS NetdTransaction, SequenceTheorems, TLAPS

-----------------------------------------------------------------------------
(* Records and elements                                                    *)

\* What every record in memory, in the journal or about to be written keeps,
\* whether or not it can be encoded.
SoundRecord(r) ==
    /\ r \in Records
    /\ r.cand # None =>
           r.phase \in {"Preparing", "Prepared", "Draining", "RollingBack"}
    /\ r.phase = "Draining" => r.cand # None
    /\ r.candOwner # None => r.candOwner.proc = r.owner.proc
    /\ Staged(r) => r.cand.table # r.decl.table
    /\ (\/ r.phase \in {"Prepared", "Active", "Suspended", "Draining"}
        \/ Staged(r)) => "fw" \in r.steps

OptRecord(r) == r = None \/ SoundRecord(r)

KernelCalls ==
    {"preflight", "prepare_sysctls", "restore_sysctls", "prepare_link",
     "update_mtu", "activate_link", "deactivate_link", "remove_link",
     "prepare_routes", "reconcile_routes", "remove_routes", "install_rule",
     "remove_rule", "prepare_firewall", "replace_firewall", "remove_firewall"}

RecordWrites == {"store", "adopt"}

Cleaners == {"clear_step", "drop_candidate", "clear"}

Operations ==
    KernelCalls \cup RecordWrites \cup Cleaners \cup {"reject", "unless_failed"}

Drops == {"drop_activation", "drop_candidate"}

Restores == {"restore_suspended", "restore_policy"}

Quiet == {"return", "ignore", "soft"}

Catches == Quiet \cup Drops \cup Restores \cup {"cleanup"}

Undoing(b) == <<Call("clear_step", None, b, "soft")>>

Thens == {<<>>} \cup {Undoing(b) : b \in StepBits}

Arguments ==
    Records \cup BOOLEAN \cup Nat \cup (SUBSET Prefixes) \cup StepBits \cup {None}

Elements ==
    [op : Operations, d : Declarations \cup {None}, r : Arguments, catch : Catches,
     then : Thens]

WellFormed(e) ==
    /\ e.op \in Operations /\ e.catch \in Catches
    /\ e.op \in RecordWrites => SoundRecord(e.r) /\ e.catch # "soft"
    /\ e.op \in KernelCalls => e.d \in Declarations
    /\ e.op \in {"prepare_sysctls", "restore_sysctls"} => e.r \in BOOLEAN
    /\ e.op = "clear_step" => e.r \in StepBits
    /\ e.op \in Cleaners => e.catch = "soft"
    /\ e.op \in {"reject", "unless_failed"} => e.catch = "return"
    /\ e.then # <<>> => e.catch = "soft" /\ e.op \in KernelCalls

-----------------------------------------------------------------------------
(* Scripts                                                                 *)

IsWrite(e) == e.op \in RecordWrites

\* The record a clean-up works on: the one its first element stores, and
\* afterwards the one in memory.
Ambient(s, m) == IF s # <<>> /\ s[1].op = "store" THEN s[1].r ELSE m

InCleanup(s) == s # <<>> /\ s[Len(s)].op = "clear"

\* Without a record, only the first write of a Prepare or a refusal can come.
Shape(s, m) ==
    /\ s \in Seq(Elements)
    /\ \A i \in 1..Len(s) : WellFormed(s[i])
    /\ m = None => s = <<>> \/ (/\ s[1].op \in {"adopt", "reject"}
                                /\ s[1].catch = "return")
    /\ \A i \in 1..Len(s) :
           /\ s[i].op = "reject" => Len(s) = 1
           /\ s[i].op = "clear" => i = Len(s)
           /\ IsWrite(s[i]) /\ s[i].catch = "ignore" => i = Len(s)

\* Steps are cleared and candidates dropped only by cleanup_record, on a
\* record that is RollingBack, and nothing is created meanwhile.
CleanupShape(s, m) ==
    /\ \A i \in 1..Len(s) :
           s[i].op \in Cleaners \/ s[i].then # <<>> => InCleanup(s)
    /\ InCleanup(s) =>
           /\ Ambient(s, m) # None /\ Ambient(s, m).phase = "RollingBack"
           /\ \A i \in 1..Len(s) :
                  /\ s[i].op \notin {"adopt", "prepare_firewall",
                                     "replace_firewall", "prepare_sysctls"}
                  /\ s[i].op = "store" => i = 1 /\ s[i].catch = "return"
                  /\ s[i].op = "clear_step" => i = 1
                  /\ s[i].catch \in {"soft", "return"}

HasCandidate(r) ==
    r # None /\ r.cand # None /\ r.phase \in {"Preparing", "Prepared", "Draining"}

\* The journaled intent of an in-place change of the declaration of `prev`.
Intent(r, prev) ==
    /\ r # None /\ r.phase = "RollingBack" /\ r.cand # None
    /\ r.decl = prev.decl /\ r.cand.table = r.decl.table /\ "fw" \in r.steps
    /\ r.steps = prev.steps /\ r.sysctls = prev.sysctls

\* The error branch named by an element finds the record it needs: none of
\* the elements up to it can have left another one in memory.
Catchable(s, m, prev) ==
    \A i \in 1..Len(s) :
        /\ s[i].catch = "cleanup" =>
               /\ \A j \in 1..i : IsWrite(s[j]) => s[j].r.cand = None
               /\ m = None \/ m.cand = None
        /\ s[i].catch \in Drops =>
               /\ \A j \in 1..i :
                      /\ s[j].op # "adopt"
                      /\ s[j].op = "store" => HasCandidate(s[j].r)
               /\ s[1].op = "store" \/ HasCandidate(m)
        /\ s[i].catch \in Restores =>
               /\ prev # None /\ prev.phase \in {"Active", "Suspended"}
               /\ s[i].op # "store"
               /\ \A j \in 1..i :
                      /\ s[j].op = "adopt" => j = i
                      /\ s[j].op = "store" => Intent(s[j].r, prev)
               /\ s[1].op = "store" \/ Intent(m, prev)

Scripted(s, m, prev) ==
    Shape(s, m) /\ CleanupShape(s, m) /\ Catchable(s, m, prev)

-----------------------------------------------------------------------------
(* Sequences                                                               *)

\* A script without its first element.
LEMMA TailScript ==
    ASSUME NEW s \in Seq(Elements), s # <<>>
    PROVE  /\ Tail(s) \in Seq(Elements) /\ Len(Tail(s)) = Len(s) - 1
           /\ Len(s) \in Nat \ {0} /\ Head(s) = s[1] /\ s[1] \in Elements
           /\ \A i \in 1..(Len(s) - 1) : Tail(s)[i] = s[i + 1]
           /\ <<>> \o Tail(s) = Tail(s)
  <1>1. /\ Tail(s) \in Seq(Elements) /\ Len(Tail(s)) = Len(s) - 1
        /\ \A i \in 1..Len(Tail(s)) : Tail(s)[i] = s[i + 1]
    BY HeadTailProperties
  <1>2. Len(s) \in Nat \ {0}
    BY EmptySeq
  <1>3. Head(s) = s[1]
    OBVIOUS
  <1>4. s[1] \in Elements
    BY <1>2, ElementOfSeq
  <1>5. <<>> \o Tail(s) = Tail(s)
    BY <1>1, ConcatEmptySeq
  <1> QED BY <1>1, <1>2, <1>3, <1>4, <1>5

\* A script whose first element is replaced by the one that follows success.
LEMMA ThenScript ==
    ASSUME NEW s \in Seq(Elements), s # <<>>, NEW e \in Elements
    PROVE  /\ <<e>> \o Tail(s) \in Seq(Elements)
           /\ Len(<<e>> \o Tail(s)) = Len(s)
           /\ (<<e>> \o Tail(s))[1] = e
           /\ \A i \in 2..Len(s) : (<<e>> \o Tail(s))[i] = s[i]
  <1>1. /\ Tail(s) \in Seq(Elements) /\ Len(Tail(s)) = Len(s) - 1
        /\ Len(s) \in Nat \ {0}
        /\ \A i \in 1..(Len(s) - 1) : Tail(s)[i] = s[i + 1]
    BY TailScript
  <1>2. <<e>> \in Seq(Elements) /\ Len(<<e>>) = 1 /\ <<e>>[1] = e
    OBVIOUS
  <1> DEFINE a == <<e>>
             t == Tail(s)
  <1>3. /\ a \o t \in Seq(Elements) /\ Len(a \o t) = Len(a) + Len(t)
        /\ \A i \in 1..(Len(a) + Len(t)) : (a \o t)[i] =
               IF i <= Len(a) THEN a[i] ELSE t[i - Len(a)]
    BY <1>1, <1>2, ConcatProperties
  <1>4. a \in Seq(Elements) /\ Len(a) = 1 /\ a[1] = e
    BY <1>2
  <1> HIDE DEF a, t
  <1>5. /\ Len(t) = Len(s) - 1 /\ Len(s) \in Nat \ {0}
        /\ \A i \in 1..(Len(s) - 1) : t[i] = s[i + 1]
    BY <1>1 DEF t
  <1>6. Len(a \o t) = Len(s) /\ (a \o t)[1] = e
    BY <1>3, <1>4, <1>5
  <1>7. ASSUME NEW i \in 2..Len(s) PROVE (a \o t)[i] = s[i]
    <2>1. i - 1 \in 1..(Len(s) - 1) /\ i \in 1..(Len(a) + Len(t)) /\ ~(i <= Len(a))
      BY <1>4, <1>5
    <2>2. (a \o t)[i] = t[i - 1]
      BY <2>1, <1>3, <1>4
    <2>3. t[i - 1] = s[(i - 1) + 1]
      BY <2>1, <1>5
    <2> QED BY <2>2, <2>3, <1>5
  <1> QED BY <1>3, <1>6, <1>7 DEF a, t

-----------------------------------------------------------------------------
(* Building scripts                                                        *)

\* Backend calls whose failure is caught in one of the ways C.
Calls(C) ==
    {e \in Elements : /\ e.op \in (KernelCalls \ {"prepare_sysctls", "restore_sysctls"})
                                 \cup {"unless_failed"}
                      /\ e.then = <<>> /\ e.catch \in C /\ WellFormed(e)}

\* Calls, and then one element w.
Tailed(s, C, w) ==
    /\ s \in Seq(Elements) /\ Len(s) \in Nat \ {0} /\ s[Len(s)] = w
    /\ \A i \in 1..(Len(s) - 1) : s[i] \in C

\* One element v, and then calls.
Headed(s, v, C) ==
    /\ s \in Seq(Elements) /\ Len(s) \in Nat \ {0} /\ s[1] = v
    /\ \A i \in 2..Len(s) : s[i] \in C

\* Calls between two elements v and w.
Enclosed(s, v, C, w) ==
    /\ s \in Seq(Elements) /\ Len(s) \in Nat \ {0, 1}
    /\ s[1] = v /\ s[Len(s)] = w
    /\ \A i \in 2..(Len(s) - 1) : s[i] \in C

\* Calls and journal writes are elements.
LEMMA KernelElement ==
    ASSUME NEW op \in KernelCalls \ {"prepare_sysctls", "restore_sysctls"},
           NEW d \in Declarations, NEW r \in Arguments,
           NEW C \in SUBSET Catches, NEW c \in C
    PROVE  /\ Call(op, d, r, c) \in Calls(C)
           /\ Call(op, d, r, c) \in Elements
           /\ Call(op, d, r, c).op = op /\ Call(op, d, r, c).d = d
           /\ Call(op, d, r, c).r = r /\ Call(op, d, r, c).catch = c
           /\ Call(op, d, r, c).then = <<>>
  <1> DEFINE e == Call(op, d, r, c)
  <1>1. e.op = op /\ e.d = d /\ e.r = r /\ e.catch = c /\ e.then = <<>>
    BY DEF Call
  <1>2. op \in Operations /\ <<>> \in Thens
    BY DEF Operations, Thens
  <1>3. e \in Elements
    BY <1>2 DEF Elements, Call
  <1> HIDE DEF e
  <1>4. WellFormed(e)
    BY <1>1, <1>2 DEF WellFormed, KernelCalls, RecordWrites, Cleaners
  <1>5. e \in Calls(C)
    BY <1>1, <1>3, <1>4 DEF Calls
  <1> QED BY <1>1, <1>3, <1>5 DEF e

\* A journal write of a sound record is well formed, and a write.
LEMMA WriteElement ==
    ASSUME NEW op \in RecordWrites, NEW r, SoundRecord(r),
           NEW c \in Catches \ {"soft"}
    PROVE  /\ Call(op, None, r, c) \in Elements
           /\ WellFormed(Call(op, None, r, c))
           /\ Call(op, None, r, c).op = op /\ Call(op, None, r, c).r = r
           /\ Call(op, None, r, c).catch = c /\ Call(op, None, r, c).then = <<>>
  <1> DEFINE e == Call(op, None, r, c)
  <1>1. e.op = op /\ e.d = None /\ e.r = r /\ e.catch = c /\ e.then = <<>>
    BY DEF Call
  <1>2. op \in Operations /\ <<>> \in Thens /\ r \in Arguments
    BY DEF Operations, Thens, SoundRecord, Arguments
  <1>3. e \in Elements
    BY <1>2 DEF Elements, Call
  <1> HIDE DEF e
  <1>4. WellFormed(e)
    BY <1>1, <1>2 DEF WellFormed, KernelCalls, RecordWrites, Cleaners
  <1> QED BY <1>1, <1>3, <1>4 DEF e

\* The same for the two kinds of write.
LEMMA StoreElement ==
    ASSUME NEW r, SoundRecord(r), NEW c \in Catches \ {"soft"}
    PROVE  /\ Store(r, c) \in Elements /\ WellFormed(Store(r, c))
           /\ Store(r, c).op = "store" /\ Store(r, c).r = r
           /\ Store(r, c).catch = c /\ Store(r, c).then = <<>>
  BY WriteElement DEF Store, RecordWrites

LEMMA AdoptElement ==
    ASSUME NEW r, SoundRecord(r), NEW c \in Catches \ {"soft"}
    PROVE  /\ Adopt(r, c) \in Elements /\ WellFormed(Adopt(r, c))
           /\ Adopt(r, c).op = "adopt" /\ Adopt(r, c).r = r
           /\ Adopt(r, c).catch = c /\ Adopt(r, c).then = <<>>
  BY WriteElement DEF Adopt, RecordWrites

\* Calls(C) holds well formed elements only.
LEMMA CallsAreElements ==
    ASSUME NEW C
    PROVE  /\ Calls(C) \subseteq Elements
           /\ \A e \in Calls(C) : /\ WellFormed(e) /\ e.then = <<>> /\ e.catch \in C
                                  /\ e.op \notin RecordWrites \cup Cleaners
                                  /\ e.op # "reject"
  BY DEF Calls, KernelCalls, RecordWrites, Cleaners

\* Conditional parts of a script.
LEMMA WhenScript ==
    ASSUME NEW C, NEW b \in BOOLEAN, NEW s, b => s \in Seq(C)
    PROVE  When(b, s) \in Seq(C)
  <1>1. <<>> \in Seq(C)
    BY EmptySeq
  <1> QED BY <1>1 DEF When

\* The shapes of scripts put together with When and \o.
LEMMA TailedConcat ==
    ASSUME NEW C \in SUBSET Elements, NEW a \in Seq(C), NEW w \in Elements
    PROVE  Tailed(a \o <<w>>, C, w)
  <1>1. a \in Seq(Elements)
    BY SeqMonotonic
  <1>2. <<w>> \in Seq(Elements) /\ Len(<<w>>) = 1 /\ <<w>>[1] = w
    OBVIOUS
  <1> DEFINE b == <<w>>
  <1>3. /\ a \o b \in Seq(Elements) /\ Len(a \o b) = Len(a) + Len(b)
        /\ \A i \in 1..(Len(a) + Len(b)) : (a \o b)[i] =
               IF i <= Len(a) THEN a[i] ELSE b[i - Len(a)]
    BY <1>1, <1>2, ConcatProperties
  <1>4. Len(a) \in Nat /\ \A i \in 1..Len(a) : a[i] \in C
    BY LenProperties, ElementOfSeq
  <1>5. Len(b) = 1 /\ b[1] = w
    BY <1>2
  <1> HIDE DEF b
  <1>6. (a \o b)[Len(a) + 1] = w
    BY <1>3, <1>4, <1>5
  <1>7. \A i \in 1..Len(a) : (a \o b)[i] \in C
    BY <1>3, <1>4, <1>5
  <1>8. Tailed(a \o b, C, w)
    BY <1>3, <1>4, <1>5, <1>6, <1>7 DEF Tailed
  <1> QED BY <1>8 DEF b

LEMMA HeadedConcat ==
    ASSUME NEW C \in SUBSET Elements, NEW v, NEW s, Headed(s, v, C), NEW a \in Seq(C)
    PROVE  Headed(s \o a, v, C)
  <1>1. a \in Seq(Elements) /\ s \in Seq(Elements)
    BY SeqMonotonic DEF Headed
  <1>2. /\ s \o a \in Seq(Elements) /\ Len(s \o a) = Len(s) + Len(a)
        /\ \A i \in 1..(Len(s) + Len(a)) : (s \o a)[i] =
               IF i <= Len(s) THEN s[i] ELSE a[i - Len(s)]
    BY <1>1, ConcatProperties
  <1>3. Len(a) \in Nat /\ \A i \in 1..Len(a) : a[i] \in C
    BY LenProperties, ElementOfSeq
  <1>4. /\ Len(s) \in Nat \ {0} /\ s[1] = v
        /\ \A i \in 2..Len(s) : s[i] \in C
    BY DEF Headed
  <1>5. ASSUME NEW i \in 2..Len(s \o a) PROVE (s \o a)[i] \in C
    <2>1. CASE i <= Len(s)
      BY <2>1, <1>2, <1>3, <1>4
    <2>2. CASE ~(i <= Len(s))
      <3>1. i - Len(s) \in 1..Len(a) /\ i \in 1..(Len(s) + Len(a))
        BY <2>2, <1>2, <1>3, <1>4
      <3> QED BY <2>2, <3>1, <1>2, <1>3
    <2> QED BY <2>1, <2>2
  <1>6. (s \o a)[1] = v
    BY <1>2, <1>3, <1>4
  <1> QED BY <1>2, <1>3, <1>4, <1>5, <1>6 DEF Headed

LEMMA HeadedSingle ==
    ASSUME NEW C, NEW v \in Elements
    PROVE  Headed(<<v>>, v, C)
  BY DEF Headed

LEMMA EnclosedConcat ==
    ASSUME NEW C \in SUBSET Elements, NEW v, NEW s, Headed(s, v, C), NEW w \in Elements
    PROVE  Enclosed(s \o <<w>>, v, C, w)
  <1> DEFINE b == <<w>>
  <1>1. b \in Seq(Elements) /\ Len(b) = 1 /\ b[1] = w /\ s \in Seq(Elements)
    BY DEF Headed
  <1> HIDE DEF b
  <1>2. /\ s \o b \in Seq(Elements) /\ Len(s \o b) = Len(s) + 1
        /\ \A i \in 1..(Len(s) + 1) : (s \o b)[i] =
               IF i <= Len(s) THEN s[i] ELSE b[i - Len(s)]
    BY <1>1, ConcatProperties
  <1>3. /\ Len(s) \in Nat \ {0} /\ s[1] = v
        /\ \A i \in 2..Len(s) : s[i] \in C
    BY DEF Headed
  <1>4. (s \o b)[Len(s) + 1] = w
    BY <1>1, <1>2, <1>3
  <1>5. (s \o b)[1] = v /\ \A i \in 2..Len(s) : (s \o b)[i] \in C
    BY <1>2, <1>3
  <1>6. Enclosed(s \o b, v, C, w)
    BY <1>2, <1>3, <1>4, <1>5 DEF Enclosed
  <1> QED BY <1>6 DEF b

\* A form with fewer calls is a form with more.
LEMMA FormMonotonic ==
    ASSUME NEW A, NEW B, A \subseteq B, NEW s, NEW v, NEW w
    PROVE  /\ Enclosed(s, v, A, w) => Enclosed(s, v, B, w)
           /\ Tailed(s, A, w) => Tailed(s, B, w)
  BY DEF Enclosed, Tailed

-----------------------------------------------------------------------------
(* Scripts of a known form keep their promises.                            *)

\* Elements other than those of a clean-up.
Ordinary(e) ==
    /\ e \in Elements /\ WellFormed(e) /\ e.then = <<>>
    /\ e.op \notin Cleaners /\ e.op # "reject"

\* Scripts of ordinary elements: no clean-up, no refusal, no write whose
\* failure is ignored before the end.
LEMMA OrdinaryScript ==
    ASSUME NEW s \in Seq(Elements), NEW m, m # None,
           \A i \in 1..Len(s) :
               Ordinary(s[i]) /\ (IsWrite(s[i]) /\ s[i].catch = "ignore" => i = Len(s))
    PROVE  Shape(s, m) /\ CleanupShape(s, m) /\ ~InCleanup(s)
  <1>1. ~InCleanup(s)
    <2>1. SUFFICES ASSUME s # <<>> PROVE s[Len(s)].op # "clear"
      BY DEF InCleanup
    <2>2. Len(s) \in 1..Len(s)
      BY <2>1, EmptySeq
    <2> QED BY <2>2 DEF Ordinary, Cleaners
  <1>2. Shape(s, m)
    BY DEF Shape, Ordinary, Cleaners
  <1>3. CleanupShape(s, m)
    BY <1>1 DEF CleanupShape, Ordinary
  <1> QED BY <1>1, <1>2, <1>3

LEMMA CallsAreOrdinary ==
    ASSUME NEW C, NEW e \in Calls(C)
    PROVE  Ordinary(e) /\ ~IsWrite(e) /\ e.catch \in C /\ e.op # "store" /\ e.op # "adopt"
  BY CallsAreElements DEF Ordinary, IsWrite, RecordWrites

LEMMA TailedOrdinary ==
    ASSUME NEW C, NEW s, NEW w, Tailed(s, Calls(C), w), Ordinary(w), IsWrite(w),
           NEW m, m # None
    PROVE  /\ Shape(s, m) /\ CleanupShape(s, m) /\ ~InCleanup(s)
           /\ \A i \in 1..Len(s) : \/ s[i] \in Calls(C) /\ i < Len(s)
                                   \/ s[i] = w /\ i = Len(s)
  <1>1. s \in Seq(Elements) /\ Len(s) \in Nat \ {0}
    BY DEF Tailed
  <1>2. \A i \in 1..Len(s) : \/ s[i] \in Calls(C) /\ i < Len(s)
                             \/ s[i] = w /\ i = Len(s)
    BY <1>1 DEF Tailed
  <1>3. \A i \in 1..Len(s) :
            Ordinary(s[i]) /\ (IsWrite(s[i]) /\ s[i].catch = "ignore" => i = Len(s))
    BY <1>2, CallsAreOrdinary
  <1> QED BY <1>1, <1>2, <1>3, OrdinaryScript

\* Errors that are returned, ignored or collected need no error branch.
LEMMA TailedScripted ==
    ASSUME NEW s, NEW w, Tailed(s, Calls(Quiet), w), Ordinary(w), IsWrite(w),
           w.catch \in Quiet, NEW m, m # None, NEW prev
    PROVE  Scripted(s, m, prev)
  <1>1. /\ Shape(s, m) /\ CleanupShape(s, m)
        /\ \A i \in 1..Len(s) : \/ s[i] \in Calls(Quiet) /\ i < Len(s)
                                \/ s[i] = w /\ i = Len(s)
    BY TailedOrdinary
  <1>2. \A i \in 1..Len(s) : s[i].catch \in Quiet
    BY <1>1, CallsAreOrdinary
  <1>3. Catchable(s, m, prev)
    BY <1>2 DEF Catchable, Quiet, Drops, Restores
  <1> QED BY <1>1, <1>3 DEF Scripted

\* A script that writes, works and writes again.
LEMMA EnclosedOrdinary ==
    ASSUME NEW C, NEW s, NEW v, NEW w, Enclosed(s, v, Calls(C), w),
           Ordinary(v), Ordinary(w), v.catch # "ignore", NEW m, m # None
    PROVE  /\ Shape(s, m) /\ CleanupShape(s, m) /\ ~InCleanup(s)
           /\ s[1] = v
           /\ \A i \in 1..Len(s) : \/ s[i] = v /\ i = 1
                                   \/ s[i] \in Calls(C) /\ i > 1 /\ i < Len(s)
                                   \/ s[i] = w /\ i = Len(s) /\ i > 1
  <1>1. s \in Seq(Elements) /\ Len(s) \in Nat \ {0, 1} /\ s[1] = v
    BY DEF Enclosed
  <1>2. \A i \in 1..Len(s) : \/ s[i] = v /\ i = 1
                             \/ s[i] \in Calls(C) /\ i > 1 /\ i < Len(s)
                             \/ s[i] = w /\ i = Len(s) /\ i > 1
    BY <1>1 DEF Enclosed
  <1>3. \A i \in 1..Len(s) :
            Ordinary(s[i]) /\ (IsWrite(s[i]) /\ s[i].catch = "ignore" => i = Len(s))
    BY <1>2, CallsAreOrdinary
  <1> QED BY <1>1, <1>2, <1>3, OrdinaryScript

\* A candidate is staged, prepared and journaled again.
LEMMA StagingScripted ==
    ASSUME NEW s, NEW v, NEW w, Enclosed(s, v, Calls({"drop_candidate"}), w),
           Ordinary(v), Ordinary(w), v.op = "store", w.op = "store",
           v.catch = "return", w.catch = "return", HasCandidate(v.r),
           NEW m, m # None, NEW prev
    PROVE  Scripted(s, m, prev)
  <1>1. v.catch # "ignore"
    OBVIOUS
  <1> DEFINE C == {"drop_candidate"}
  <1>2. Enclosed(s, v, Calls(C), w)
    OBVIOUS
  <1> HIDE DEF C
  <1>3. /\ Shape(s, m) /\ CleanupShape(s, m) /\ ~InCleanup(s)
        /\ s[1] = v
        /\ \A i \in 1..Len(s) : \/ s[i] = v /\ i = 1
                                \/ s[i] \in Calls(C) /\ i > 1 /\ i < Len(s)
                                \/ s[i] = w /\ i = Len(s) /\ i > 1
    BY <1>1, <1>2, EnclosedOrdinary
  <1>4. /\ Shape(s, m) /\ CleanupShape(s, m) /\ s[1] = v
        /\ \A i \in 1..Len(s) :
               \/ s[i] = v /\ i = 1
               \/ s[i] \in Calls({"drop_candidate"}) /\ i > 1 /\ i < Len(s)
               \/ s[i] = w /\ i = Len(s) /\ i > 1
    BY <1>3 DEF C
  <1>5. ASSUME NEW i \in 1..Len(s)
        PROVE  /\ s[i].catch \in {"return", "drop_candidate"}
               /\ s[i].catch = "drop_candidate" => i > 1 /\ i < Len(s)
    BY <1>4, CallsAreOrdinary
  <1>6. ASSUME NEW i \in 1..Len(s), i < Len(s)
        PROVE  s[i].op # "adopt" /\ (s[i].op = "store" => HasCandidate(s[i].r))
    BY <1>4, <1>6, CallsAreOrdinary
  <1>7. Len(s) \in Nat
    BY DEF Enclosed
  <1>8. Catchable(s, m, prev)
    BY <1>4, <1>5, <1>6, <1>7 DEF Catchable, Drops, Restores
  <1> QED BY <1>4, <1>8 DEF Scripted

\* An in-place change: its intent is stored, applied, and the result adopted.
LEMMA IntentScripted ==
    ASSUME NEW c \in Restores, NEW s, NEW v, NEW w, NEW prev,
           Enclosed(s, v, Calls({c}), w), Ordinary(v), Ordinary(w),
           v.op = "store", w.op = "adopt", v.catch = "return", w.catch = c,
           Intent(v.r, prev), prev # None, prev.phase \in {"Active", "Suspended"},
           NEW m, m # None
    PROVE  Scripted(s, m, prev)
  <1>1. /\ Shape(s, m) /\ CleanupShape(s, m) /\ s[1] = v
        /\ \A i \in 1..Len(s) :
               \/ s[i] = v /\ i = 1
               \/ s[i] \in Calls({c}) /\ i > 1 /\ i < Len(s)
               \/ s[i] = w /\ i = Len(s) /\ i > 1
    BY EnclosedOrdinary
  <1>2. ASSUME NEW i \in 1..Len(s)
        PROVE  /\ s[i].catch \in {"return", c}
               /\ s[i].catch = c /\ c # "return" => i > 1
               /\ s[i].op = "adopt" => i = Len(s)
               /\ s[i].op = "store" => i = 1
    BY <1>1, CallsAreOrdinary
  <1>3. Len(s) \in Nat
    BY DEF Enclosed
  <1>4. c # "return" /\ c # "cleanup" /\ c \notin Drops
    BY DEF Restores, Drops
  <1>5. Catchable(s, m, prev)
    <2> SUFFICES ASSUME NEW i \in 1..Len(s)
                 PROVE  /\ s[i].catch # "cleanup" /\ s[i].catch \notin Drops
                        /\ s[i].catch \in Restores =>
                             /\ prev # None /\ prev.phase \in {"Active", "Suspended"}
                             /\ s[i].op # "store"
                             /\ \A j \in 1..i : /\ s[j].op = "adopt" => j = i
                                                /\ s[j].op = "store" => Intent(s[j].r, prev)
                             /\ s[1].op = "store" \/ Intent(m, prev)
      BY DEF Catchable
    <2>1. s[i].catch # "cleanup" /\ s[i].catch \notin Drops
      BY <1>2, <1>4 DEF Drops
    <2>2. ASSUME s[i].catch \in Restores
          PROVE  /\ s[i].op # "store"
                 /\ \A j \in 1..i : /\ s[j].op = "adopt" => j = i
                                    /\ s[j].op = "store" => Intent(s[j].r, prev)
      <3>1. i > 1
        BY <2>2, <1>2, <1>4 DEF Restores
      <3>2. \A j \in 1..i : j \in 1..Len(s)
        BY <1>3
      <3>3. \A j \in 1..i : s[j].op = "adopt" => j = i
        BY <3>2, <1>2, <1>3
      <3>4. \A j \in 1..i : s[j].op = "store" => Intent(s[j].r, prev)
        BY <3>2, <1>1, <1>2
      <3> QED BY <3>1, <3>3, <3>4, <1>2
    <2> QED BY <2>1, <2>2, <1>1
  <1> QED BY <1>1, <1>5 DEF Scripted

\* A staged candidate is activated and journaled as draining.
LEMMA ActivationScripted ==
    ASSUME NEW s, NEW w, Tailed(s, Calls({"drop_activation"}), w), Ordinary(w),
           w.op = "store", w.catch = "drop_activation", HasCandidate(w.r),
           NEW m, HasCandidate(m), NEW prev
    PROVE  Scripted(s, m, prev)
  <1>1. m # None /\ IsWrite(w)
    BY DEF HasCandidate, IsWrite, RecordWrites
  <1>2. /\ Shape(s, m) /\ CleanupShape(s, m)
        /\ \A i \in 1..Len(s) :
               \/ s[i] \in Calls({"drop_activation"}) /\ i < Len(s)
               \/ s[i] = w /\ i = Len(s)
    BY <1>1, TailedOrdinary
  <1>3. \A i \in 1..Len(s) :
            /\ s[i].catch = "drop_activation" /\ s[i].op # "adopt"
            /\ s[i].op = "store" => HasCandidate(s[i].r)
    BY <1>2, CallsAreOrdinary
  <1>4. Len(s) \in Nat
    BY DEF Tailed
  <1>5. Catchable(s, m, prev)
    BY <1>3, <1>4 DEF Catchable, Drops, Restores
  <1> QED BY <1>2, <1>5 DEF Scripted

\* A first declaration is committed; clean-up is the error branch.
LEMMA CommitScripted ==
    ASSUME NEW s, NEW v, NEW w, Enclosed(s, v, Calls({"cleanup"}), w),
           Ordinary(v), Ordinary(w), v.catch = "cleanup", w.catch = "cleanup",
           v.r.cand = None, w.r.cand = None, NEW m, m # None, m.cand = None, NEW prev
    PROVE  Scripted(s, m, prev)
  <1>1. v.catch # "ignore"
    OBVIOUS
  <1>2. /\ Shape(s, m) /\ CleanupShape(s, m)
        /\ \A i \in 1..Len(s) :
               \/ s[i] = v /\ i = 1
               \/ s[i] \in Calls({"cleanup"}) /\ i > 1 /\ i < Len(s)
               \/ s[i] = w /\ i = Len(s) /\ i > 1
    BY <1>1, EnclosedOrdinary
  <1>3. \A i \in 1..Len(s) :
            s[i].catch = "cleanup" /\ (IsWrite(s[i]) => s[i].r.cand = None)
    BY <1>2, CallsAreOrdinary
  <1>4. Len(s) \in Nat
    BY DEF Enclosed
  <1>5. Catchable(s, m, prev)
    BY <1>3, <1>4 DEF Catchable, Drops, Restores
  <1> QED BY <1>2, <1>5 DEF Scripted

-----------------------------------------------------------------------------
(* The scripts of the handlers                                             *)

OwnedBy(s, p) == \A i \in 1..Len(s) : IsWrite(s[i]) => s[i].r.owner.proc = p

\* What a script writes belongs to the process of its records.
LEMMA TailedOwned ==
    ASSUME NEW C, NEW s, NEW w, Tailed(s, Calls(C), w)
    PROVE  OwnedBy(s, w.r.owner.proc)
  <1>1. \A i \in 1..Len(s) : s[i] \in Calls(C) \/ s[i] = w
    BY DEF Tailed
  <1> QED BY <1>1, CallsAreOrdinary DEF OwnedBy

LEMMA EnclosedOwned ==
    ASSUME NEW C, NEW s, NEW v, NEW w, Enclosed(s, v, Calls(C), w),
           v.r.owner.proc = w.r.owner.proc
    PROVE  OwnedBy(s, w.r.owner.proc)
  <1>1. \A i \in 1..Len(s) : s[i] = v \/ s[i] \in Calls(C) \/ s[i] = w
    BY DEF Enclosed
  <1> QED BY <1>1, CallsAreOrdinary DEF OwnedBy

\* The catch a call needs is one of the ways scripts use.
LEMMA CatchSets ==
    /\ Quiet \in SUBSET Catches
    /\ {"return"} \in SUBSET Catches /\ {"ignore"} \in SUBSET Catches
    /\ {"cleanup"} \in SUBSET Catches /\ {"drop_activation"} \in SUBSET Catches
    /\ {"drop_candidate"} \in SUBSET Catches
    /\ {"restore_suspended"} \in SUBSET Catches
    /\ {"restore_policy"} \in SUBSET Catches
    /\ None \in Arguments /\ {} \in Arguments
    /\ SUBSET Prefixes \subseteq Arguments /\ Nat \subseteq Arguments
    /\ {"return", "ignore", "cleanup", "drop_activation", "drop_candidate",
        "restore_suspended", "restore_policy"} \subseteq Catches \ {"soft"}
  <1>1. /\ Quiet \in SUBSET Catches
        /\ {"return"} \in SUBSET Catches /\ {"ignore"} \in SUBSET Catches
        /\ {"cleanup"} \in SUBSET Catches /\ {"drop_activation"} \in SUBSET Catches
        /\ {"drop_candidate"} \in SUBSET Catches
        /\ {"restore_suspended"} \in SUBSET Catches
        /\ {"restore_policy"} \in SUBSET Catches
    BY DEF Catches, Quiet, Drops, Restores
  <1>2. None \in Arguments
    BY DEF Arguments
  <1>4. SUBSET Prefixes \subseteq Arguments
    BY DEF Arguments
  <1>3. {} \in Arguments
    <2>1. {} \in SUBSET Prefixes
      OBVIOUS
    <2> QED BY <2>1, <1>4
  <1>5. Nat \subseteq Arguments
    BY DEF Arguments
  <1>6. {"return", "ignore", "cleanup", "drop_activation", "drop_candidate",
         "restore_suspended", "restore_policy"} \subseteq Catches \ {"soft"}
    BY DEF Catches, Quiet, Drops, Restores
  <1> QED BY <1>1, <1>2, <1>3, <1>4, <1>5, <1>6

\* Writes are ordinary elements.
LEMMA StoreOrdinary ==
    ASSUME NEW r, SoundRecord(r),
           NEW c \in {"return", "ignore", "cleanup", "drop_activation",
                      "drop_candidate", "restore_suspended", "restore_policy"}
    PROVE  /\ Ordinary(Store(r, c)) /\ IsWrite(Store(r, c))
           /\ Store(r, c).op = "store" /\ Store(r, c).r = r /\ Store(r, c).catch = c
           /\ Store(r, c) \in Elements
  <1>1. c \in Catches \ {"soft"}
    BY CatchSets
  <1> QED BY <1>1, StoreElement DEF Ordinary, IsWrite, RecordWrites, Cleaners

LEMMA AdoptOrdinary ==
    ASSUME NEW r, SoundRecord(r),
           NEW c \in {"return", "ignore", "cleanup", "drop_activation",
                      "drop_candidate", "restore_suspended", "restore_policy"}
    PROVE  /\ Ordinary(Adopt(r, c)) /\ IsWrite(Adopt(r, c))
           /\ Adopt(r, c).op = "adopt" /\ Adopt(r, c).r = r /\ Adopt(r, c).catch = c
           /\ Adopt(r, c) \in Elements
  <1>1. c \in Catches \ {"soft"}
    BY CatchSets
  <1> QED BY <1>1, AdoptElement DEF Ordinary, IsWrite, RecordWrites, Cleaners

\* A refusal, and a handler with nothing to do.
LEMMA RejectScripted ==
    ASSUME NEW m, NEW prev
    PROVE  Scripted(Reject, m, prev) /\ \A p : OwnedBy(Reject, p)
  <1> DEFINE e == Call("reject", None, None, "return")
  <1>1. e.op = "reject" /\ e.catch = "return" /\ e.then = <<>>
    BY DEF Call
  <1>2. /\ "reject" \in Operations /\ "return" \in Catches /\ <<>> \in Thens
        /\ None \in Arguments
    BY CatchSets DEF Operations, Thens
  <1>3. e \in Elements
    BY <1>2 DEF Elements, Call
  <1>4. WellFormed(e)
    BY <1>1, <1>2 DEF WellFormed, KernelCalls, RecordWrites, Cleaners
  <1>5. Reject = <<e>>
    BY DEF Reject
  <1> HIDE DEF e
  <1>6. /\ Reject \in Seq(Elements) /\ Len(Reject) = 1 /\ Reject[1] = e /\ Reject # <<>>
        /\ \A i \in 1..Len(Reject) : i = 1
    BY <1>5, <1>3
  <1>7. Shape(Reject, m)
    BY <1>1, <1>4, <1>6 DEF Shape, IsWrite, RecordWrites
  <1>8. CleanupShape(Reject, m)
    BY <1>1, <1>6 DEF CleanupShape, InCleanup, Cleaners
  <1>9. Catchable(Reject, m, prev)
    BY <1>1, <1>6 DEF Catchable, Drops, Restores
  <1>10. \A p : OwnedBy(Reject, p)
    BY <1>1, <1>6 DEF OwnedBy, IsWrite, RecordWrites
  <1> QED BY <1>7, <1>8, <1>9, <1>10 DEF Scripted

LEMMA EmptyScripted ==
    ASSUME NEW m, NEW prev
    PROVE  Scripted(<<>>, m, prev) /\ \A p : OwnedBy(<<>>, p)
  <1>1. <<>> \in Seq(Elements) /\ Len(<<>>) = 0
    BY EmptySeq
  <1> QED BY <1>1 DEF Scripted, Shape, CleanupShape, Catchable, InCleanup, OwnedBy

\* discard_candidate_record, drop_prepared_candidate and the activation branch.
LEMMA DiscardForm ==
    ASSUME NEW r, SoundRecord(r), HasCandidate(r)
    PROVE  LET x == WithoutCandidate(r, "Active")
           IN /\ SoundRecord(x) /\ x.owner = r.owner
              /\ Tailed(DiscardCandidate(r), Calls(Quiet), Store(x, "return"))
              /\ Tailed(DropCandidate(r), Calls(Quiet), Store(x, "ignore"))
              /\ Tailed(DropActivation(r), Calls(Quiet), Store(x, "ignore"))
  <1> DEFINE x == WithoutCandidate(r, "Active")
  <1>1. r \in Records /\ r.cand \in Declarations /\ "fw" \in r.steps
    BY DEF SoundRecord, HasCandidate, Records, Staged
  <1>2. x \in Records /\ x.cand = None /\ x.candOwner = None /\ x.phase = "Active"
        /\ x.steps = r.steps /\ x.owner = r.owner
    BY <1>1 DEF WithoutCandidate, Records, Phases
  <1> HIDE DEF x
  <1>3. SoundRecord(x)
    BY <1>1, <1>2 DEF SoundRecord, Staged
  <1> DEFINE Y(op, a, c) == Call(op, r.cand, a, c)
  <1>4. /\ Y("remove_firewall", None, "return") \in Calls(Quiet)
        /\ Y("remove_routes", {}, "return") \in Calls(Quiet)
        /\ Y("remove_firewall", None, "ignore") \in Calls(Quiet)
        /\ Y("remove_routes", {}, "ignore") \in Calls(Quiet)
        /\ Y("remove_rule", None, "ignore") \in Calls(Quiet)
    BY <1>1, KernelElement, CatchSets DEF Quiet, KernelCalls
  <1>5. Store(x, "return") \in Elements /\ Store(x, "ignore") \in Elements
    BY <1>3, StoreOrdinary
  <1>6. Calls(Quiet) \subseteq Elements
    BY CallsAreElements
  <1>7. Tailed(DiscardCandidate(r), Calls(Quiet), Store(x, "return"))
    BY <1>4, <1>5, <1>6 DEF Tailed, DiscardCandidate, x
  <1>8. Tailed(DropCandidate(r), Calls(Quiet), Store(x, "ignore"))
    BY <1>4, <1>5, <1>6 DEF Tailed, DropCandidate, x
  <1>9. Tailed(DropActivation(r), Calls(Quiet), Store(x, "ignore"))
    BY <1>4, <1>5, <1>6 DEF Tailed, DropActivation, x
  <1> QED BY <1>2, <1>3, <1>7, <1>8, <1>9 DEF x

\* drain_old of a draining transaction.
LEMMA DrainForm ==
    ASSUME NEW o \in LeaseOwners, SoundRecord(mem), mem.phase = "Draining",
           SameProcess(mem.owner, o)
    PROVE  LET x == [WithoutCandidate(mem, "Active") EXCEPT
                         !.owner = IF mem.candOwner = None THEN o ELSE mem.candOwner,
                         !.decl = mem.cand]
           IN /\ SoundRecord(x) /\ x.owner.proc = mem.owner.proc
              /\ Tailed(<<Call("remove_rule", mem.decl, None, "return"),
                          Call("remove_firewall", mem.decl, None, "return"),
                          Call("remove_routes", mem.decl, {}, "return"),
                          Store(x, "return")>>, Calls(Quiet), Store(x, "return"))
  <1> DEFINE own == IF mem.candOwner = None THEN o ELSE mem.candOwner
             x == [WithoutCandidate(mem, "Active") EXCEPT !.owner = own, !.decl = mem.cand]
  <1>1. /\ mem \in Records /\ mem.cand \in Declarations /\ "fw" \in mem.steps
        /\ mem.decl \in Declarations
    BY DEF SoundRecord, Records
  <1>2. own \in LeaseOwners /\ own.proc = mem.owner.proc
    BY <1>1 DEF SoundRecord, Records, SameProcess
  <1> HIDE DEF own
  <1>3. /\ x \in Records /\ x.cand = None /\ x.candOwner = None /\ x.phase = "Active"
        /\ x.steps = mem.steps /\ x.owner = own
    BY <1>1, <1>2 DEF WithoutCandidate, Records, Phases
  <1> HIDE DEF x
  <1>4. SoundRecord(x)
    BY <1>1, <1>3 DEF SoundRecord, Staged
  <1>5. /\ Call("remove_rule", mem.decl, None, "return") \in Calls(Quiet)
        /\ Call("remove_firewall", mem.decl, None, "return") \in Calls(Quiet)
        /\ Call("remove_routes", mem.decl, {}, "return") \in Calls(Quiet)
    BY <1>1, KernelElement, CatchSets DEF Quiet, KernelCalls
  <1>6. Store(x, "return") \in Elements /\ Calls(Quiet) \subseteq Elements
    BY <1>4, StoreOrdinary, CallsAreElements
  <1>7. Tailed(<<Call("remove_rule", mem.decl, None, "return"),
                 Call("remove_firewall", mem.decl, None, "return"),
                 Call("remove_routes", mem.decl, {}, "return"),
                 Store(x, "return")>>, Calls(Quiet), Store(x, "return"))
    BY <1>5, <1>6 DEF Tailed
  <1> QED BY <1>2, <1>3, <1>4, <1>7 DEF x, own

\* set_failed_prefixes.
LEMMA WithdrawForm ==
    ASSUME SoundRecord(mem), mem.phase \in {"Active", "Suspended"},
           NEW failed \in SUBSET Prefixes
    PROVE  LET x == [mem EXCEPT !.failed = failed]
           IN /\ SoundRecord(x) /\ x.owner = mem.owner
              /\ Tailed(<<Call("reconcile_routes", mem.decl, failed, "return")>>
                        \o When(mem.phase = "Active",
                                <<Call("install_rule", mem.decl, None, "return")>>)
                        \o <<Store(x, "return")>>, Calls(Quiet), Store(x, "return"))
              /\ Tailed(<<Call("reconcile_routes", mem.decl, failed, "return")>>
                        \o When(mem.phase = "Active",
                                <<Call("install_rule", mem.decl, None, "return")>>)
                        \o <<Store(x, "return")>>,
                        {e \in Calls(Quiet) : e.op # "prepare_firewall"}, Store(x, "return"))
  <1> DEFINE x == [mem EXCEPT !.failed = failed]
  <1>1. mem \in Records /\ mem.decl \in Declarations
    BY DEF SoundRecord, Records
  <1>2. /\ x \in Records /\ x.owner = mem.owner /\ x.decl = mem.decl /\ x.cand = mem.cand
        /\ x.candOwner = mem.candOwner /\ x.phase = mem.phase /\ x.steps = mem.steps
    BY <1>1 DEF Records
  <1> HIDE DEF x
  <1>3. x # None /\ mem # None
    BY <1>1, <1>2, NoneAssumption
  <1>4. SoundRecord(x)
    BY <1>1, <1>2, <1>3 DEF SoundRecord, Staged
  <1> DEFINE a == Call("reconcile_routes", mem.decl, failed, "return")
             b == Call("install_rule", mem.decl, None, "return")
             C == {e \in Calls(Quiet) : e.op # "prepare_firewall"}
  <1>5. a \in C /\ b \in C
    <2>1. a \in Calls(Quiet) /\ b \in Calls(Quiet)
      BY <1>1, KernelElement, CatchSets DEF Quiet, KernelCalls
    <2> QED BY <2>1 DEF Call
  <1>6. Store(x, "return") \in Elements /\ C \in SUBSET Elements /\ C \subseteq Calls(Quiet)
    BY <1>4, StoreOrdinary, CallsAreElements
  <1> HIDE DEF a, b, C
  <1>7. <<a>> \in Seq(C) /\ <<b>> \in Seq(C)
    BY <1>5
  <1>8. When(mem.phase = "Active", <<b>>) \in Seq(C)
    BY <1>7, WhenScript
  <1>9. <<a>> \o When(mem.phase = "Active", <<b>>) \in Seq(C)
    BY <1>7, <1>8, ConcatProperties
  <1>10. Tailed(<<a>> \o When(mem.phase = "Active", <<b>>) \o <<Store(x, "return")>>,
                C, Store(x, "return"))
    BY <1>6, <1>9, TailedConcat
  <1>11. Tailed(<<a>> \o When(mem.phase = "Active", <<b>>) \o <<Store(x, "return")>>,
                Calls(Quiet), Store(x, "return"))
    BY <1>6, <1>10, FormMonotonic
  <1> QED BY <1>2, <1>4, <1>10, <1>11 DEF x, a, b, C

\* lease renewal: one store.
LEMMA RenewForm ==
    ASSUME SoundRecord(mem), NEW o \in LeaseOwners
    PROVE  LET x == [mem EXCEPT !.owner.lease = o.lease]
           IN /\ SoundRecord(x) /\ x.owner.proc = mem.owner.proc
              /\ Tailed(<<Store(x, "return")>>, Calls(Quiet), Store(x, "return"))
  <1> DEFINE x == [mem EXCEPT !.owner.lease = o.lease]
  <1>1. mem \in Records /\ mem.owner \in LeaseOwners
    BY DEF SoundRecord, Records
  <1>2. /\ x \in Records /\ x.decl = mem.decl /\ x.cand = mem.cand
        /\ x.candOwner = mem.candOwner /\ x.phase = mem.phase /\ x.steps = mem.steps
        /\ x.owner.proc = mem.owner.proc
    BY <1>1 DEF Records, LeaseOwners
  <1> HIDE DEF x
  <1>3. x # None /\ mem # None
    BY <1>1, <1>2, NoneAssumption
  <1>4. SoundRecord(x)
    BY <1>1, <1>2, <1>3 DEF SoundRecord, Staged
  <1>5. Store(x, "return") \in Elements
    BY <1>4, StoreOrdinary
  <1>6. Tailed(<<Store(x, "return")>>, Calls(Quiet), Store(x, "return"))
    BY <1>5 DEF Tailed
  <1> QED BY <1>2, <1>4, <1>6 DEF x

\* A reconfiguration to the declaration in force only changes the owner.
LEMMA ReownForm ==
    ASSUME SoundRecord(mem), mem.phase \in {"Active", "Suspended"},
           NEW o \in LeaseOwners, SameProcess(mem.owner, o)
    PROVE  LET x == [mem EXCEPT !.owner = o]
           IN /\ SoundRecord(x) /\ x.owner.proc = mem.owner.proc
              /\ Tailed(<<Adopt(x, "return")>>, Calls(Quiet), Adopt(x, "return"))
  <1> DEFINE x == [mem EXCEPT !.owner = o]
  <1>1. mem \in Records /\ mem.owner \in LeaseOwners
    BY DEF SoundRecord, Records
  <1>2. /\ x \in Records /\ x.decl = mem.decl /\ x.cand = mem.cand
        /\ x.candOwner = mem.candOwner /\ x.phase = mem.phase /\ x.steps = mem.steps
        /\ x.owner = o /\ o.proc = mem.owner.proc
    BY <1>1 DEF Records, SameProcess
  <1> HIDE DEF x
  <1>3. x # None /\ mem # None
    BY <1>1, <1>2, NoneAssumption
  <1>4. SoundRecord(x)
    BY <1>1, <1>2, <1>3 DEF SoundRecord, Staged
  <1>5. Adopt(x, "return") \in Elements
    BY <1>4, AdoptOrdinary
  <1>6. Tailed(<<Adopt(x, "return")>>, Calls(Quiet), Adopt(x, "return"))
    BY <1>5 DEF Tailed
  <1> QED BY <1>2, <1>4, <1>6 DEF x

LEMMA MtuForm ==
    ASSUME SoundRecord(mem), mem.phase = "Active", NEW mtu \in Nat
    PROVE  LET x == [mem EXCEPT !.decl.mtu = mtu]
           IN /\ SoundRecord(x) /\ x.owner = mem.owner
              /\ Tailed(<<Call("update_mtu", mem.decl, mtu, "return"),
                          Store(x, "return")>>, Calls(Quiet), Store(x, "return"))
  <1> DEFINE x == [mem EXCEPT !.decl.mtu = mtu]
  <1>1. mem \in Records /\ mem.decl \in Declarations
    BY DEF SoundRecord, Records
  <1>2. /\ x \in Records /\ x.decl.table = mem.decl.table /\ x.cand = mem.cand
        /\ x.candOwner = mem.candOwner /\ x.phase = mem.phase /\ x.steps = mem.steps
        /\ x.owner = mem.owner
    BY <1>1 DEF Records, Declarations
  <1> HIDE DEF x
  <1>3. x # None /\ mem # None
    BY <1>1, <1>2, NoneAssumption
  <1>4. SoundRecord(x)
    BY <1>1, <1>2, <1>3 DEF SoundRecord, Staged
  <1>5. Store(x, "return") \in Elements /\ Calls(Quiet) \subseteq Elements
    BY <1>4, StoreOrdinary, CallsAreElements
  <1>6. Call("update_mtu", mem.decl, mtu, "return") \in Calls(Quiet)
    BY <1>1, KernelElement, CatchSets DEF Quiet, KernelCalls
  <1>7. Tailed(<<Call("update_mtu", mem.decl, mtu, "return"), Store(x, "return")>>,
               Calls(Quiet), Store(x, "return"))
    BY <1>5, <1>6 DEF Tailed
  <1> QED BY <1>2, <1>4, <1>7 DEF x

\* suspend and resume: a call, the step and then the phase.
LEMMA TwoStores ==
    ASSUME NEW s, NEW a \in Calls(Quiet), NEW x, NEW y, SoundRecord(x), SoundRecord(y),
           s = <<a, Store(x, "return"), Store(y, "return")>>,
           x.owner.proc = y.owner.proc, NEW m, m # None, NEW prev
    PROVE  Scripted(s, m, prev) /\ OwnedBy(s, y.owner.proc)
  <1> DEFINE v == Store(x, "return")
             w == Store(y, "return")
  <1>1. /\ Ordinary(v) /\ IsWrite(v) /\ v.r = x /\ v.catch = "return" /\ v \in Elements
        /\ Ordinary(w) /\ IsWrite(w) /\ w.r = y /\ w.catch = "return" /\ w \in Elements
    BY StoreOrdinary
  <1>2. s = <<a, v, w>>
    OBVIOUS
  <1> HIDE DEF v, w
  <1>3. Ordinary(a) /\ ~IsWrite(a) /\ a.catch \in Quiet /\ a \in Elements
    BY CallsAreOrdinary, CallsAreElements
  <1>4. /\ s \in Seq(Elements) /\ Len(s) = 3
        /\ \A i \in 1..Len(s) : s[i] = a \/ s[i] = v \/ s[i] = w
    BY <1>1, <1>2, <1>3
  <1>5. /\ \A i \in 1..Len(s) : Ordinary(s[i]) /\ s[i].catch \in Quiet
        /\ \A i \in 1..Len(s) : IsWrite(s[i]) => s[i].catch # "ignore"
    BY <1>1, <1>3, <1>4 DEF Quiet
  <1>6. Shape(s, m) /\ CleanupShape(s, m)
    BY <1>4, <1>5, OrdinaryScript
  <1>7. Catchable(s, m, prev)
    BY <1>5 DEF Catchable, Quiet, Drops, Restores
  <1>8. OwnedBy(s, y.owner.proc)
    BY <1>1, <1>3, <1>4 DEF OwnedBy
  <1> QED BY <1>6, <1>7, <1>8 DEF Scripted

\* suspend and resume.
LEMMA SuspendScripted ==
    ASSUME SoundRecord(mem), NEW o \in LeaseOwners,
           Suspend(o) # <<>>, Suspend(o) # Reject, NEW prev
    PROVE  Scripted(Suspend(o), mem, prev) /\ OwnedBy(Suspend(o), mem.owner.proc)
  <1> DEFINE x == [mem EXCEPT !.steps = @ \ {"rule"}]
             y == [x EXCEPT !.phase = "Suspended"]
             a == Call("remove_rule", mem.decl, None, "return")
  <1>1. Suspend(o) = <<a, Store(x, "return"), Store(y, "return")>> /\ mem.phase = "Active"
    BY DEF Suspend
  <1>2. mem \in Records /\ mem.decl \in Declarations /\ mem # None
    BY NoneAssumption DEF SoundRecord, Records
  <1>3. /\ x \in Records /\ x.owner = mem.owner /\ x.decl = mem.decl /\ x.cand = mem.cand
        /\ x.candOwner = mem.candOwner /\ x.phase = mem.phase
        /\ x.steps = mem.steps \ {"rule"}
    BY <1>2 DEF Records
  <1>4. /\ y \in Records /\ y.owner = mem.owner /\ y.decl = mem.decl /\ y.cand = mem.cand
        /\ y.candOwner = mem.candOwner /\ y.phase = "Suspended"
        /\ y.steps = mem.steps \ {"rule"}
    BY <1>2, <1>3 DEF Records, Phases
  <1>5. a \in Calls(Quiet)
    BY <1>2, KernelElement, CatchSets DEF Quiet, KernelCalls
  <1> HIDE DEF x, y, a
  <1>6. mem.cand = None /\ "fw" \in mem.steps
    BY <1>1 DEF SoundRecord
  <1>7. SoundRecord(x) /\ SoundRecord(y)
    BY <1>1, <1>3, <1>4, <1>6 DEF SoundRecord, Staged
  <1> QED BY <1>1, <1>2, <1>3, <1>4, <1>5, <1>7, TwoStores

LEMMA ResumeScripted ==
    ASSUME SoundRecord(mem), NEW o \in LeaseOwners,
           Resume(o) # <<>>, Resume(o) # Reject, NEW prev
    PROVE  Scripted(Resume(o), mem, prev) /\ OwnedBy(Resume(o), mem.owner.proc)
  <1> DEFINE x == WithSteps(mem, {"rule"})
             y == [x EXCEPT !.phase = "Active"]
             a == Call("install_rule", mem.decl, None, "return")
  <1>1. Resume(o) = <<a, Store(x, "return"), Store(y, "return")>> /\ mem.phase = "Suspended"
    BY DEF Resume
  <1>2. mem \in Records /\ mem.decl \in Declarations /\ mem # None
    BY NoneAssumption DEF SoundRecord, Records
  <1>3. /\ x \in Records /\ x.owner = mem.owner /\ x.decl = mem.decl /\ x.cand = mem.cand
        /\ x.candOwner = mem.candOwner /\ x.phase = mem.phase
        /\ x.steps = mem.steps \cup {"rule"}
    BY <1>2 DEF Records, WithSteps, StepBits
  <1>4. /\ y \in Records /\ y.owner = mem.owner /\ y.decl = mem.decl /\ y.cand = mem.cand
        /\ y.candOwner = mem.candOwner /\ y.phase = "Active"
        /\ y.steps = mem.steps \cup {"rule"}
    BY <1>2, <1>3 DEF Records, Phases
  <1>5. a \in Calls(Quiet)
    BY <1>2, KernelElement, CatchSets DEF Quiet, KernelCalls
  <1> HIDE DEF x, y, a
  <1>6. mem.cand = None /\ "fw" \in mem.steps
    BY <1>1 DEF SoundRecord
  <1>7. SoundRecord(x) /\ SoundRecord(y)
    BY <1>1, <1>3, <1>4, <1>6 DEF SoundRecord, Staged
  <1> QED BY <1>1, <1>2, <1>3, <1>4, <1>5, <1>7, TwoStores

\* prepare_replacement of another declaration.
LEMMA StagingForm ==
    ASSUME SoundRecord(mem), mem.phase = "Active", NEW o \in LeaseOwners,
           SameProcess(mem.owner, o), NEW d \in Declarations, d.table # mem.decl.table
    PROVE  LET x == [mem EXCEPT !.cand = d, !.candOwner = o,
                                !.phase = "Preparing", !.deadline = 0]
               y == [x EXCEPT !.phase = "Prepared"]
               do(op) == Call(op, d, None, "drop_candidate")
           IN /\ SoundRecord(x) /\ SoundRecord(y) /\ HasCandidate(x)
              /\ x.owner = mem.owner /\ y.owner = mem.owner
              /\ Enclosed(<<Store(x, "return"), do("preflight"), do("prepare_link"),
                            do("prepare_routes"), do("prepare_firewall"),
                            Store(y, "return")>>,
                          Store(x, "return"), Calls({"drop_candidate"}), Store(y, "return"))
  <1> DEFINE x == [mem EXCEPT !.cand = d, !.candOwner = o,
                              !.phase = "Preparing", !.deadline = 0]
             y == [x EXCEPT !.phase = "Prepared"]
             do(op) == Call(op, d, None, "drop_candidate")
  <1>1. /\ mem \in Records /\ "fw" \in mem.steps /\ o.proc = mem.owner.proc
        /\ d # None /\ o # None
    BY NoneAssumption DEF SoundRecord, Records, SameProcess
  <1>2. /\ x \in Records /\ x.owner = mem.owner /\ x.decl = mem.decl /\ x.cand = d
        /\ x.candOwner = o /\ x.phase = "Preparing" /\ x.steps = mem.steps
    BY <1>1 DEF Records, Phases
  <1>3. /\ y \in Records /\ y.owner = mem.owner /\ y.decl = mem.decl /\ y.cand = d
        /\ y.candOwner = o /\ y.phase = "Prepared" /\ y.steps = mem.steps
    BY <1>1, <1>2 DEF Records, Phases
  <1> HIDE DEF x, y
  <1>4. x # None /\ y # None
    BY <1>2, <1>3, NoneAssumption
  <1>5. SoundRecord(x) /\ SoundRecord(y) /\ HasCandidate(x)
    BY <1>1, <1>2, <1>3, <1>4 DEF SoundRecord, Staged, HasCandidate
  <1>6. /\ do("preflight") \in Calls({"drop_candidate"})
        /\ do("prepare_link") \in Calls({"drop_candidate"})
        /\ do("prepare_routes") \in Calls({"drop_candidate"})
        /\ do("prepare_firewall") \in Calls({"drop_candidate"})
    BY KernelElement, CatchSets DEF KernelCalls
  <1>7. /\ Store(x, "return") \in Elements /\ Store(y, "return") \in Elements
        /\ Calls({"drop_candidate"}) \subseteq Elements
    BY <1>5, StoreOrdinary, CallsAreElements
  <1> HIDE DEF do
  <1>8. Enclosed(<<Store(x, "return"), do("preflight"), do("prepare_link"),
                   do("prepare_routes"), do("prepare_firewall"), Store(y, "return")>>,
                 Store(x, "return"), Calls({"drop_candidate"}), Store(y, "return"))
    BY <1>6, <1>7 DEF Enclosed
  <1> QED BY <1>2, <1>3, <1>5, <1>8 DEF x, y, do

\* prepare_replacement.
LEMMA ReplacementScripted ==
    ASSUME SoundRecord(mem), mem.phase = "Active", NEW o \in LeaseOwners,
           SameProcess(mem.owner, o), NEW d \in Declarations,
           PrepareReplacement(o, d) # Reject, NEW prev
    PROVE  /\ Scripted(PrepareReplacement(o, d), mem, prev)
           /\ OwnedBy(PrepareReplacement(o, d), mem.owner.proc)
  <1>1. mem # None
    BY NoneAssumption DEF SoundRecord
  <1>2. CASE d = mem.decl
    <2> DEFINE x == [mem EXCEPT !.owner = o]
    <2>1. PrepareReplacement(o, d) = <<Adopt(x, "return")>>
      BY <1>2 DEF PrepareReplacement
    <2>2. /\ SoundRecord(x) /\ x.owner.proc = mem.owner.proc
          /\ Tailed(<<Adopt(x, "return")>>, Calls(Quiet), Adopt(x, "return"))
      BY ReownForm
    <2> HIDE DEF x
    <2>3. /\ Ordinary(Adopt(x, "return")) /\ IsWrite(Adopt(x, "return"))
          /\ Adopt(x, "return").catch \in Quiet /\ Adopt(x, "return").r = x
      BY <2>2, AdoptOrdinary DEF Quiet
    <2> QED BY <1>1, <2>1, <2>2, <2>3, TailedScripted, TailedOwned
  <1>3. CASE d # mem.decl
    <2> DEFINE x == [mem EXCEPT !.cand = d, !.candOwner = o,
                                !.phase = "Preparing", !.deadline = 0]
               y == [x EXCEPT !.phase = "Prepared"]
               do(op) == Call(op, d, None, "drop_candidate")
               s == <<Store(x, "return"), do("preflight"), do("prepare_link"),
                      do("prepare_routes"), do("prepare_firewall"), Store(y, "return")>>
    <2>1. PrepareReplacement(o, d) = s /\ d.table # mem.decl.table
      BY <1>3 DEF PrepareReplacement
    <2>2. /\ SoundRecord(x) /\ SoundRecord(y) /\ HasCandidate(x)
          /\ x.owner = mem.owner /\ y.owner = mem.owner
          /\ Enclosed(s, Store(x, "return"), Calls({"drop_candidate"}), Store(y, "return"))
      BY <2>1, StagingForm
    <2> HIDE DEF x, y, s
    <2>3. /\ Ordinary(Store(x, "return")) /\ Store(x, "return").op = "store"
          /\ Store(x, "return").catch = "return" /\ Store(x, "return").r = x
          /\ Ordinary(Store(y, "return")) /\ Store(y, "return").op = "store"
          /\ Store(y, "return").catch = "return" /\ Store(y, "return").r = y
      BY <2>2, StoreOrdinary
    <2>4. Scripted(s, mem, prev)
      BY <1>1, <2>2, <2>3, StagingScripted
    <2>5. OwnedBy(s, y.owner.proc)
      BY <2>2, <2>3, EnclosedOwned
    <2> QED BY <2>1, <2>2, <2>4, <2>5
  <1> QED BY <1>2, <1>3

\* The intent an in-place change journals, and the record it ends with.
LEMMA IntentRecords ==
    ASSUME SoundRecord(mem), mem.phase \in {"Active", "Suspended"},
           NEW o \in LeaseOwners, SameProcess(mem.owner, o),
           NEW d \in Declarations, d.table = mem.decl.table,
           NEW own \in {mem.owner, o}, NEW failed \in SUBSET Prefixes,
           NEW y, y \in Records, y.owner = own, y.decl = d, y.cand = None,
           y.candOwner \in {None, mem.candOwner},
           y.phase = mem.phase, y.steps = mem.steps
    PROVE  LET x == [mem EXCEPT !.phase = "RollingBack", !.cand = d, !.candOwner = o]
           IN /\ SoundRecord(x) /\ Intent(x, mem) /\ x.owner = mem.owner
              /\ x.owner.proc = y.owner.proc /\ SoundRecord(y)
  <1> DEFINE x == [mem EXCEPT !.phase = "RollingBack", !.cand = d, !.candOwner = o]
  <1>1. /\ mem \in Records /\ "fw" \in mem.steps /\ o.proc = mem.owner.proc
        /\ d # None /\ o # None /\ mem.cand = None
    BY NoneAssumption DEF SoundRecord, Records, SameProcess
  <1>2. /\ x \in Records /\ x.owner = mem.owner /\ x.decl = mem.decl /\ x.cand = d
        /\ x.candOwner = o /\ x.phase = "RollingBack" /\ x.steps = mem.steps
        /\ x.sysctls = mem.sysctls
    BY <1>1 DEF Records, Phases
  <1> HIDE DEF x
  <1>3. x # None /\ y # None
    BY <1>2, NoneAssumption
  <1>4. SoundRecord(x)
    BY <1>1, <1>2, <1>3 DEF SoundRecord, Staged
  <1>5. Intent(x, mem)
    BY <1>1, <1>2, <1>3 DEF Intent
  <1>6. SoundRecord(y)
    BY <1>1, <1>3 DEF SoundRecord, Staged
  <1>7. x.owner.proc = y.owner.proc
    BY <1>1, <1>2
  <1> QED BY <1>2, <1>4, <1>5, <1>6, <1>7 DEF x

\* reconfigure of a suspended declaration.
LEMMA ReconfigureForm ==
    ASSUME SoundRecord(mem), mem.phase = "Suspended", NEW o \in LeaseOwners,
           SameProcess(mem.owner, o), NEW d \in Declarations, d.table = mem.decl.table
    PROVE  LET x == [mem EXCEPT !.phase = "RollingBack", !.cand = d, !.candOwner = o]
               y == [mem EXCEPT !.owner = o, !.decl = d, !.failed = {}, !.deadline = 0]
               do(op, a) == Call(op, a, {}, "restore_suspended")
           IN /\ SoundRecord(x) /\ SoundRecord(y) /\ Intent(x, mem)
              /\ x.owner.proc = mem.owner.proc /\ y.owner.proc = mem.owner.proc
              /\ Enclosed(<<Store(x, "return"), do("remove_firewall", mem.decl),
                            do("remove_routes", mem.decl), do("prepare_link", d),
                            do("prepare_routes", d), do("prepare_firewall", d),
                            Adopt(y, "restore_suspended")>>,
                          Store(x, "return"), Calls({"restore_suspended"}),
                          Adopt(y, "restore_suspended"))
  <1> DEFINE x == [mem EXCEPT !.phase = "RollingBack", !.cand = d, !.candOwner = o]
             y == [mem EXCEPT !.owner = o, !.decl = d, !.failed = {}, !.deadline = 0]
             do(op, a) == Call(op, a, {}, "restore_suspended")
  <1>1. /\ mem \in Records /\ mem.decl \in Declarations /\ mem.cand = None
        /\ mem.owner.proc = o.proc
    BY DEF SoundRecord, Records, SameProcess
  <1>2. /\ y \in Records /\ y.owner = o /\ y.decl = d /\ y.cand = None
        /\ y.candOwner = mem.candOwner /\ y.phase = mem.phase /\ y.steps = mem.steps
    BY <1>1 DEF Records
  <1>3. /\ SoundRecord(x) /\ Intent(x, mem) /\ x.owner = mem.owner
        /\ x.owner.proc = y.owner.proc /\ SoundRecord(y)
    BY <1>2, IntentRecords, {} \in SUBSET Prefixes
  <1> HIDE DEF x, y
  <1>4. /\ do("remove_firewall", mem.decl) \in Calls({"restore_suspended"})
        /\ do("remove_routes", mem.decl) \in Calls({"restore_suspended"})
        /\ do("prepare_link", d) \in Calls({"restore_suspended"})
        /\ do("prepare_routes", d) \in Calls({"restore_suspended"})
        /\ do("prepare_firewall", d) \in Calls({"restore_suspended"})
    BY <1>1, KernelElement, CatchSets DEF KernelCalls
  <1>5. /\ Store(x, "return") \in Elements /\ Adopt(y, "restore_suspended") \in Elements
        /\ Calls({"restore_suspended"}) \subseteq Elements
    BY <1>3, StoreOrdinary, AdoptOrdinary, CallsAreElements
  <1> HIDE DEF do
  <1>6. Enclosed(<<Store(x, "return"), do("remove_firewall", mem.decl),
                   do("remove_routes", mem.decl), do("prepare_link", d),
                   do("prepare_routes", d), do("prepare_firewall", d),
                   Adopt(y, "restore_suspended")>>,
                 Store(x, "return"), Calls({"restore_suspended"}),
                 Adopt(y, "restore_suspended"))
    BY <1>4, <1>5 DEF Enclosed
  <1> QED BY <1>1, <1>2, <1>3, <1>6 DEF x, y, do

LEMMA ReconfigureScripted ==
    ASSUME SoundRecord(mem), NEW o \in LeaseOwners, NEW d \in Declarations,
           Reconfigure(o, d) # Reject
    PROVE  /\ Scripted(Reconfigure(o, d), mem, mem)
           /\ OwnedBy(Reconfigure(o, d), mem.owner.proc)
  <1>1. mem # None
    BY NoneAssumption DEF SoundRecord
  <1>2. SameProcess(mem.owner, o) /\ mem.phase \in {"Active", "Suspended"}
    BY DEF Reconfigure
  <1>3. CASE mem.phase = "Active"
    <2>1. Reconfigure(o, d) = PrepareReplacement(o, d)
      BY <1>1, <1>2, <1>3 DEF Reconfigure
    <2> QED BY <1>2, <1>3, <2>1, ReplacementScripted
  <1>4. CASE mem.phase = "Suspended" /\ d = mem.decl
    <2> DEFINE x == [mem EXCEPT !.owner = o]
    <2>1. Reconfigure(o, d) = <<Adopt(x, "return")>>
      BY <1>1, <1>2, <1>4 DEF Reconfigure
    <2>2. /\ SoundRecord(x) /\ x.owner.proc = mem.owner.proc
          /\ Tailed(<<Adopt(x, "return")>>, Calls(Quiet), Adopt(x, "return"))
      BY <1>2, ReownForm
    <2> HIDE DEF x
    <2>3. /\ Ordinary(Adopt(x, "return")) /\ IsWrite(Adopt(x, "return"))
          /\ Adopt(x, "return").catch \in Quiet /\ Adopt(x, "return").r = x
      BY <2>2, AdoptOrdinary DEF Quiet
    <2> QED BY <1>1, <2>1, <2>2, <2>3, TailedScripted, TailedOwned
  <1>5. CASE mem.phase = "Suspended" /\ d # mem.decl
    <2> DEFINE x == [mem EXCEPT !.phase = "RollingBack", !.cand = d, !.candOwner = o]
               y == [mem EXCEPT !.owner = o, !.decl = d, !.failed = {}, !.deadline = 0]
               do(op, a) == Call(op, a, {}, "restore_suspended")
               s == <<Store(x, "return"), do("remove_firewall", mem.decl),
                      do("remove_routes", mem.decl), do("prepare_link", d),
                      do("prepare_routes", d), do("prepare_firewall", d),
                      Adopt(y, "restore_suspended")>>
    <2>1. Reconfigure(o, d) = s /\ d.table = mem.decl.table
      BY <1>1, <1>2, <1>5 DEF Reconfigure
    <2>2. /\ SoundRecord(x) /\ SoundRecord(y) /\ Intent(x, mem)
          /\ x.owner.proc = mem.owner.proc /\ y.owner.proc = mem.owner.proc
          /\ Enclosed(s, Store(x, "return"), Calls({"restore_suspended"}),
                      Adopt(y, "restore_suspended"))
      BY <1>2, <1>5, <2>1, ReconfigureForm
    <2> HIDE DEF x, y, s
    <2>3. /\ Ordinary(Store(x, "return")) /\ Store(x, "return").op = "store"
          /\ Store(x, "return").catch = "return" /\ Store(x, "return").r = x
      BY <2>2, StoreOrdinary
    <2>4. /\ Ordinary(Adopt(y, "restore_suspended"))
          /\ Adopt(y, "restore_suspended").op = "adopt"
          /\ Adopt(y, "restore_suspended").catch = "restore_suspended"
          /\ Adopt(y, "restore_suspended").r = y
      BY <2>2, AdoptOrdinary
    <2>5. "restore_suspended" \in Restores
      BY DEF Restores
    <2>6. Scripted(s, mem, mem)
      BY <1>1, <1>2, <2>2, <2>3, <2>4, <2>5, IntentScripted
    <2>7. OwnedBy(s, y.owner.proc)
      BY <2>2, <2>3, <2>4, EnclosedOwned
    <2> QED BY <2>1, <2>2, <2>6, <2>7
  <1> QED BY <1>2, <1>3, <1>4, <1>5

\* update_policy.
LEMMA PolicyForm ==
    ASSUME SoundRecord(mem), mem.phase \in {"Active", "Suspended"},
           NEW o \in LeaseOwners, SameProcess(mem.owner, o), NEW d \in Declarations,
           d.table = mem.decl.table
    PROVE  LET retained == mem.failed \cap d.remote
               x == [mem EXCEPT !.phase = "RollingBack", !.cand = d, !.candOwner = o]
               y == [mem EXCEPT !.decl = d, !.failed = retained, !.candOwner = None]
               do(op, a) == Call(op, d, a, "restore_policy")
               s == <<Store(x, "return")>>
                    \o When(RoutesChanged(mem.decl, d), <<do("reconcile_routes", retained)>>)
                    \o When(FirewallChanged(mem.decl, d), <<do("replace_firewall", None)>>)
                    \o When(mem.phase = "Active", <<do("install_rule", None)>>)
                    \o <<Adopt(y, "restore_policy")>>
           IN /\ SoundRecord(x) /\ SoundRecord(y) /\ Intent(x, mem)
              /\ x.owner.proc = mem.owner.proc /\ y.owner.proc = mem.owner.proc
              /\ Enclosed(s, Store(x, "return"),
                          {e \in Calls({"restore_policy"}) : e.op # "prepare_firewall"},
                          Adopt(y, "restore_policy"))
  <1> DEFINE retained == mem.failed \cap d.remote
             x == [mem EXCEPT !.phase = "RollingBack", !.cand = d, !.candOwner = o]
             y == [mem EXCEPT !.decl = d, !.failed = retained, !.candOwner = None]
             do(op, a) == Call(op, d, a, "restore_policy")
             C == {e \in Calls({"restore_policy"}) : e.op # "prepare_firewall"}
  <1>1. /\ mem \in Records /\ mem.decl \in Declarations /\ mem.cand = None
        /\ mem.owner.proc = o.proc /\ retained \in SUBSET Prefixes
    BY DEF SoundRecord, Records, SameProcess
  <1> HIDE DEF retained
  <1>2. /\ y \in Records /\ y.owner = mem.owner /\ y.decl = d /\ y.cand = None
        /\ y.candOwner = None /\ y.phase = mem.phase /\ y.steps = mem.steps
    BY <1>1 DEF Records
  <1>3. /\ SoundRecord(x) /\ Intent(x, mem) /\ x.owner = mem.owner
        /\ x.owner.proc = y.owner.proc /\ SoundRecord(y)
    BY <1>1, <1>2, IntentRecords
  <1> HIDE DEF x, y
  <1>4. /\ do("reconcile_routes", retained) \in C
        /\ do("replace_firewall", None) \in C
        /\ do("install_rule", None) \in C
    <2>1. retained \in Arguments /\ None \in Arguments
      BY <1>1, CatchSets
    <2>2. /\ do("reconcile_routes", retained) \in Calls({"restore_policy"})
          /\ do("replace_firewall", None) \in Calls({"restore_policy"})
          /\ do("install_rule", None) \in Calls({"restore_policy"})
      BY <2>1, KernelElement, CatchSets DEF KernelCalls
    <2>3. /\ do("reconcile_routes", retained).op # "prepare_firewall"
          /\ do("replace_firewall", None).op # "prepare_firewall"
          /\ do("install_rule", None).op # "prepare_firewall"
      BY DEF Call
    <2> QED BY <2>2, <2>3
  <1>5. /\ Store(x, "return") \in Elements /\ Adopt(y, "restore_policy") \in Elements
        /\ C \in SUBSET Elements
    BY <1>3, StoreOrdinary, AdoptOrdinary, CallsAreElements
  <1> HIDE DEF do, C
  <1> DEFINE a1 == When(RoutesChanged(mem.decl, d), <<do("reconcile_routes", retained)>>)
             a2 == When(FirewallChanged(mem.decl, d), <<do("replace_firewall", None)>>)
             a3 == When(mem.phase = "Active", <<do("install_rule", None)>>)
             v == Store(x, "return")
  <1>6. a1 \in Seq(C)
    <2>1. <<do("reconcile_routes", retained)>> \in Seq(C)
      BY <1>4
    <2>2. RoutesChanged(mem.decl, d) \in BOOLEAN
      BY DEF RoutesChanged
    <2> QED BY <2>1, <2>2, WhenScript
  <1>7. a2 \in Seq(C)
    <2>1. <<do("replace_firewall", None)>> \in Seq(C)
      BY <1>4
    <2>2. FirewallChanged(mem.decl, d) \in BOOLEAN
      BY DEF FirewallChanged
    <2> QED BY <2>1, <2>2, WhenScript
  <1>8. a3 \in Seq(C)
    <2>1. <<do("install_rule", None)>> \in Seq(C)
      BY <1>4
    <2> QED BY <2>1, WhenScript
  <1> HIDE DEF a1, a2, a3, v
  <1>9. Headed(<<v>>, v, C)
    BY <1>5, HeadedSingle DEF v
  <1>10. Headed(<<v>> \o a1, v, C)
    BY <1>5, <1>6, <1>9, HeadedConcat
  <1>11. Headed(<<v>> \o a1 \o a2, v, C)
    BY <1>5, <1>7, <1>10, HeadedConcat
  <1>12. Headed(<<v>> \o a1 \o a2 \o a3, v, C)
    BY <1>5, <1>8, <1>11, HeadedConcat
  <1>13. Enclosed(<<v>> \o a1 \o a2 \o a3 \o <<Adopt(y, "restore_policy")>>, v, C,
                  Adopt(y, "restore_policy"))
    BY <1>5, <1>12, EnclosedConcat
  <1> QED BY <1>2, <1>3, <1>13 DEF v, a1, a2, a3, x, y, do, C, retained

\* Optional pairs of calls.
LEMMA PairConcat ==
    ASSUME NEW u, NEW w, <<u>> \in Seq(Elements), <<w>> \in Seq(Elements)
    PROVE  <<u>> \o <<w>> = <<u, w>>
  <1> DEFINE a == <<u>>
             b == <<w>>
             t == <<u, w>>
  <1>1. a \in Seq(Elements) /\ Len(a) = 1 /\ a[1] = u
    OBVIOUS
  <1>2. b \in Seq(Elements) /\ Len(b) = 1 /\ b[1] = w
    OBVIOUS
  <1>3. u \in Elements /\ w \in Elements
    BY <1>1, <1>2, ElementOfSeq
  <1>4. t \in Seq(Elements) /\ Len(t) = 2 /\ t[1] = u /\ t[2] = w
    BY <1>3
  <1> HIDE DEF a, b, t
  <1>5. /\ a \o b \in Seq(Elements) /\ Len(a \o b) = 2
        /\ \A i \in 1..2 : (a \o b)[i] = IF i <= 1 THEN a[i] ELSE b[i - 1]
    BY <1>1, <1>2, ConcatProperties
  <1>6. \A i \in 1..Len(a \o b) : (a \o b)[i] = t[i]
    BY <1>1, <1>2, <1>4, <1>5
  <1>7. a \o b = t
    BY <1>4, <1>5, <1>6, SeqEqual
  <1> QED BY <1>7 DEF a, b, t

\* update_policy as a handler.
LEMMA PolicyScripted ==
    ASSUME SoundRecord(mem), NEW o \in LeaseOwners, NEW d \in Declarations,
           UpdatePolicy(o, d) # Reject
    PROVE  /\ Scripted(UpdatePolicy(o, d), mem, mem)
           /\ OwnedBy(UpdatePolicy(o, d), mem.owner.proc)
  <1>1. mem # None /\ mem \in Records /\ mem.decl \in Declarations
    BY NoneAssumption DEF SoundRecord, Records
  <1>2. /\ SameProcess(mem.owner, o) /\ mem.phase \in {"Active", "Suspended"}
        /\ d.table = mem.decl.table
    BY DEF UpdatePolicy, SameOwner, SameTunnel
  <1>3. CASE d = mem.decl
    <2> DEFINE a == Call("install_rule", d, None, "return")
               s == When(mem.phase = "Active", <<a>>)
    <2>1. UpdatePolicy(o, d) = s
      BY <1>1, <1>2, <1>3 DEF UpdatePolicy
    <2>2. a \in Calls(Quiet)
      BY KernelElement, CatchSets DEF Quiet, KernelCalls
    <2>3. Ordinary(a) /\ ~IsWrite(a) /\ a.catch \in Quiet /\ a \in Elements
      BY <2>2, CallsAreOrdinary, CallsAreElements
    <2> HIDE DEF a
    <2>4. s = <<>> \/ s = <<a>>
      BY DEF When
    <2> HIDE DEF s
    <2>5. CASE s = <<>>
      BY <2>1, <2>5, EmptyScripted
    <2>6. CASE s = <<a>>
      <3>1. s \in Seq(Elements) /\ Len(s) = 1 /\ s[1] = a /\ \A i \in 1..Len(s) : i = 1
        BY <2>3, <2>6
      <3>2. Shape(s, mem) /\ CleanupShape(s, mem)
        BY <1>1, <2>3, <3>1, OrdinaryScript
      <3>3. Catchable(s, mem, mem)
        BY <2>3, <3>1 DEF Catchable, Quiet, Drops, Restores
      <3>4. OwnedBy(s, mem.owner.proc)
        BY <2>3, <3>1 DEF OwnedBy
      <3> QED BY <2>1, <3>2, <3>3, <3>4 DEF Scripted
    <2> QED BY <2>4, <2>5, <2>6
  <1>4. CASE d # mem.decl
    <2> DEFINE retained == mem.failed \cap d.remote
               x == [mem EXCEPT !.phase = "RollingBack", !.cand = d, !.candOwner = o]
               y == [mem EXCEPT !.decl = d, !.failed = retained, !.candOwner = None]
               do(op, a) == Call(op, d, a, "restore_policy")
               s == <<Store(x, "return")>>
                    \o When(RoutesChanged(mem.decl, d), <<do("reconcile_routes", retained)>>)
                    \o When(FirewallChanged(mem.decl, d), <<do("replace_firewall", None)>>)
                    \o When(mem.phase = "Active", <<do("install_rule", None)>>)
                    \o <<Adopt(y, "restore_policy")>>
               C == {e \in Calls({"restore_policy"}) : e.op # "prepare_firewall"}
    <2>1. UpdatePolicy(o, d) = s
      BY <1>1, <1>2, <1>4 DEF UpdatePolicy
    <2>2. /\ SoundRecord(x) /\ SoundRecord(y) /\ Intent(x, mem)
          /\ x.owner.proc = mem.owner.proc /\ y.owner.proc = mem.owner.proc
          /\ Enclosed(s, Store(x, "return"), C, Adopt(y, "restore_policy"))
      BY <1>2, PolicyForm
    <2>3. C \subseteq Calls({"restore_policy"})
      OBVIOUS
    <2> HIDE DEF x, y, s, C
    <2>4. Enclosed(s, Store(x, "return"), Calls({"restore_policy"}),
                   Adopt(y, "restore_policy"))
      BY <2>2, <2>3, FormMonotonic
    <2>5. /\ Ordinary(Store(x, "return")) /\ Store(x, "return").op = "store"
          /\ Store(x, "return").catch = "return" /\ Store(x, "return").r = x
      BY <2>2, StoreOrdinary
    <2>6. /\ Ordinary(Adopt(y, "restore_policy"))
          /\ Adopt(y, "restore_policy").op = "adopt"
          /\ Adopt(y, "restore_policy").catch = "restore_policy"
          /\ Adopt(y, "restore_policy").r = y
      BY <2>2, AdoptOrdinary
    <2>7. "restore_policy" \in Restores
      BY DEF Restores
    <2>8. Scripted(s, mem, mem)
      BY <1>1, <1>2, <2>2, <2>4, <2>5, <2>6, <2>7, IntentScripted
    <2>9. OwnedBy(s, y.owner.proc)
      BY <2>2, <2>4, <2>5, <2>6, EnclosedOwned
    <2> QED BY <2>1, <2>2, <2>8, <2>9
  <1> QED BY <1>3, <1>4

\* The early return of restore_suspended and restore_policy.
LEMMA UnlessFailedElement ==
    Call("unless_failed", None, None, "return") \in Calls(Quiet)
  <1> DEFINE e == Call("unless_failed", None, None, "return")
  <1>1. e.op = "unless_failed" /\ e.catch = "return" /\ e.then = <<>>
    BY DEF Call
  <1>2. /\ "unless_failed" \in Operations /\ "return" \in Catches /\ <<>> \in Thens
        /\ None \in Arguments
    BY CatchSets DEF Operations, Thens
  <1>3. e \in Elements
    BY <1>2 DEF Elements, Call
  <1>4. WellFormed(e)
    BY <1>1, <1>2 DEF WellFormed, KernelCalls, RecordWrites, Cleaners
  <1> QED BY <1>1, <1>3, <1>4 DEF Calls, Quiet

\* restore_suspended_after_reconfigure and restore_policy_update.
LEMMA RestoreForm ==
    ASSUME NEW m, SoundRecord(m), m.cand # None, NEW prev, SoundRecord(prev)
    PROVE  /\ Tailed(RestoreSuspended(m, prev), Calls(Quiet), Adopt(prev, "return"))
           /\ Tailed(RestorePolicy(m, prev),
                     {e \in Calls(Quiet) : e.op # "prepare_firewall"},
                     Adopt(prev, "return"))
  <1> DEFINE w == Adopt(prev, "return")
             u == Call("unless_failed", None, None, "return")
             c == m.cand
             p == prev.decl
             C == {e \in Calls(Quiet) : e.op # "prepare_firewall"}
  <1>1. /\ c \in Declarations /\ p \in Declarations /\ prev.failed \in Arguments
        /\ None \in Arguments /\ {} \in Arguments
    BY CatchSets DEF SoundRecord, Records
  <1>2. w \in Elements /\ u \in Calls(Quiet) /\ Calls(Quiet) \subseteq Elements
    BY AdoptOrdinary, UnlessFailedElement, CallsAreElements
  <1>3. /\ Call("remove_firewall", c, None, "soft") \in Calls(Quiet)
        /\ Call("remove_routes", c, {}, "soft") \in Calls(Quiet)
        /\ Call("prepare_link", p, None, "soft") \in Calls(Quiet)
        /\ Call("prepare_routes", p, None, "soft") \in Calls(Quiet)
        /\ Call("prepare_firewall", p, None, "soft") \in Calls(Quiet)
    BY <1>1, KernelElement, CatchSets DEF Quiet, KernelCalls
  <1> DEFINE r1 == Call("reconcile_routes", p, prev.failed, "soft")
             r2 == Call("replace_firewall", p, None, "soft")
             r3 == Call("install_rule", p, None, "return")
  <1>4. r1 \in Calls(Quiet) /\ r2 \in Calls(Quiet) /\ r3 \in Calls(Quiet)
    BY <1>1, KernelElement, CatchSets DEF Quiet, KernelCalls
  <1>5. r1 \in C /\ r2 \in C /\ r3 \in C /\ u \in C
    BY <1>2, <1>4 DEF Call
  <1>6. RestorePolicy(m, prev) =
            When(RoutesChanged(p, c), <<r1>>) \o When(FirewallChanged(p, c), <<r2>>)
            \o When("rule" \in prev.steps, <<r3>>) \o <<u, w>>
    BY DEF RestorePolicy
  <1>7. RestoreSuspended(m, prev) =
            <<Call("remove_firewall", c, None, "soft"),
              Call("remove_routes", c, {}, "soft"), Call("prepare_link", p, None, "soft"),
              Call("prepare_routes", p, None, "soft"),
              Call("prepare_firewall", p, None, "soft"), u, w>>
    BY DEF RestoreSuspended
  <1>8. C \in SUBSET Elements
    BY <1>2
  <1> HIDE DEF w, u, c, p, r1, r2, r3, C
  <1>9. Tailed(RestoreSuspended(m, prev), Calls(Quiet), w)
    BY <1>2, <1>3, <1>7 DEF Tailed
  <1> DEFINE a1 == When(RoutesChanged(p, c), <<r1>>)
             a2 == When(FirewallChanged(p, c), <<r2>>)
             a3 == When("rule" \in prev.steps, <<r3>>)
  <1>10. a1 \in Seq(C)
    <2>1. <<r1>> \in Seq(C) /\ RoutesChanged(p, c) \in BOOLEAN
      BY <1>5 DEF RoutesChanged
    <2> QED BY <2>1, WhenScript
  <1>11. a2 \in Seq(C)
    <2>1. <<r2>> \in Seq(C) /\ FirewallChanged(p, c) \in BOOLEAN
      BY <1>5 DEF FirewallChanged
    <2> QED BY <2>1, WhenScript
  <1>12. a3 \in Seq(C)
    <2>1. <<r3>> \in Seq(C) /\ ("rule" \in prev.steps) \in BOOLEAN
      BY <1>5
    <2> QED BY <2>1, WhenScript
  <1> HIDE DEF a1, a2, a3
  <1>13. a1 \o a2 \in Seq(C)
    BY <1>10, <1>11, ConcatProperties
  <1>14. a1 \o a2 \o a3 \in Seq(C)
    BY <1>12, <1>13, ConcatProperties
  <1> DEFINE a == a1 \o a2 \o a3
  <1>15. a \in Seq(C)
    BY <1>14
  <1> HIDE DEF a
  <1>16. <<u>> \in Seq(C)
    BY <1>5
  <1>17. a \o <<u>> \in Seq(C)
    BY <1>15, <1>16, ConcatProperties
  <1>18. Tailed((a \o <<u>>) \o <<w>>, C, w)
    BY <1>2, <1>8, <1>17, TailedConcat
  <1>19. (a \o <<u>>) \o <<w>> = a \o <<u, w>>
    <2>1. a \in Seq(Elements) /\ <<u>> \in Seq(Elements) /\ <<w>> \in Seq(Elements)
      BY <1>2, <1>8, <1>15, SeqMonotonic
    <2>2. (a \o <<u>>) \o <<w>> = a \o (<<u>> \o <<w>>)
      BY <2>1, ConcatAssociative
    <2>3. <<u>> \o <<w>> = <<u, w>>
      BY <2>1, PairConcat
    <2> QED BY <2>2, <2>3
  <1>20. RestorePolicy(m, prev) = a \o <<u, w>>
    BY <1>6 DEF a, a1, a2, a3
  <1>21. Tailed(RestorePolicy(m, prev), C, w)
    BY <1>18, <1>19, <1>20
  <1> QED BY <1>9, <1>21 DEF w, C

\* recover_policy_update.
LEMMA RecoverPolicyForm ==
    ASSUME NEW r, SoundRecord(r), PolicyIntent(r)
    PROVE  LET x == [r EXCEPT !.cand = None, !.candOwner = None,
                              !.phase = IF "rule" \in r.steps THEN "Active" ELSE "Suspended"]
           IN /\ SoundRecord(x) /\ x.owner = r.owner
              /\ Tailed(RecoverPolicyUpdate(r),
                        {e \in Calls(Quiet) : e.op # "prepare_firewall"}, Adopt(x, "return"))
  <1> DEFINE x == [r EXCEPT !.cand = None, !.candOwner = None,
                            !.phase = IF "rule" \in r.steps THEN "Active" ELSE "Suspended"]
             w == Adopt(x, "return")
             d == r.decl
             c == r.cand
             C == {e \in Calls(Quiet) : e.op # "prepare_firewall"}
  <1>1. /\ r \in Records /\ d \in Declarations /\ r.failed \in Arguments
        /\ None \in Arguments /\ "fw" \in r.steps
    BY CatchSets DEF SoundRecord, Records, PolicyIntent
  <1>2. /\ x \in Records /\ x.owner = r.owner /\ x.decl = d /\ x.cand = None
        /\ x.candOwner = None /\ x.phase \in {"Active", "Suspended"} /\ x.steps = r.steps
    BY <1>1 DEF Records, Phases
  <1> HIDE DEF x
  <1>3. SoundRecord(x)
    BY <1>1, <1>2 DEF SoundRecord, Staged
  <1>4. w \in Elements /\ Calls(Quiet) \subseteq Elements /\ C \in SUBSET Elements
    BY <1>3, AdoptOrdinary, CallsAreElements
  <1> DEFINE r1 == Call("reconcile_routes", d, r.failed, "return")
             r2 == Call("replace_firewall", d, None, "return")
             r3 == Call("install_rule", d, None, "return")
  <1>5. r1 \in Calls(Quiet) /\ r2 \in Calls(Quiet) /\ r3 \in Calls(Quiet)
    BY <1>1, KernelElement, CatchSets DEF Quiet, KernelCalls
  <1>6. r1 \in C /\ r2 \in C /\ r3 \in C
    BY <1>5 DEF Call
  <1>7. RecoverPolicyUpdate(r) =
            When(RoutesChanged(d, c), <<r1>>) \o When(FirewallChanged(d, c), <<r2>>)
            \o When("rule" \in r.steps, <<r3>>) \o <<w>>
    BY DEF RecoverPolicyUpdate, x
  <1> HIDE DEF w, c, d, r1, r2, r3, C
  <1> DEFINE a1 == When(RoutesChanged(d, c), <<r1>>)
             a2 == When(FirewallChanged(d, c), <<r2>>)
             a3 == When("rule" \in r.steps, <<r3>>)
  <1>8. a1 \in Seq(C)
    <2>1. <<r1>> \in Seq(C) /\ RoutesChanged(d, c) \in BOOLEAN
      BY <1>6 DEF RoutesChanged
    <2> QED BY <2>1, WhenScript
  <1>9. a2 \in Seq(C)
    <2>1. <<r2>> \in Seq(C) /\ FirewallChanged(d, c) \in BOOLEAN
      BY <1>6 DEF FirewallChanged
    <2> QED BY <2>1, WhenScript
  <1>10. a3 \in Seq(C)
    <2>1. <<r3>> \in Seq(C) /\ ("rule" \in r.steps) \in BOOLEAN
      BY <1>6
    <2> QED BY <2>1, WhenScript
  <1> HIDE DEF a1, a2, a3
  <1>11. a1 \o a2 \in Seq(C)
    BY <1>8, <1>9, ConcatProperties
  <1>12. a1 \o a2 \o a3 \in Seq(C)
    BY <1>10, <1>11, ConcatProperties
  <1>13. Tailed(a1 \o a2 \o a3 \o <<w>>, C, w)
    BY <1>4, <1>12, TailedConcat
  <1>14. Tailed(RecoverPolicyUpdate(r), C, w)
    BY <1>7, <1>13 DEF a1, a2, a3
  <1> QED BY <1>2, <1>3, <1>14 DEF x, w, C

\* Calls whose errors are returned, and one write: nothing more to show.
LEMMA QuietForm ==
    ASSUME NEW s, NEW x, SoundRecord(x), NEW w, NEW C \in SUBSET Calls(Quiet),
           w \in {Store(x, "return"), Adopt(x, "return"), Store(x, "ignore")},
           Tailed(s, C, w), NEW m, m # None, NEW prev
    PROVE  /\ Scripted(s, m, prev) /\ OwnedBy(s, x.owner.proc)
           /\ ~InCleanup(s)
           /\ s # <<>> /\ s[Len(s)].op \in RecordWrites /\ s[Len(s)].r = x
           /\ s[Len(s)].catch = w.catch
  <1>1. /\ Ordinary(w) /\ IsWrite(w) /\ w.catch \in Quiet /\ w.r = x
    BY StoreOrdinary, AdoptOrdinary DEF Quiet
  <1>2. Tailed(s, Calls(Quiet), w)
    BY FormMonotonic
  <1>3. Scripted(s, m, prev)
    BY <1>1, <1>2, TailedScripted
  <1>4. OwnedBy(s, w.r.owner.proc)
    BY <1>2, TailedOwned
  <1>5. s # <<>> /\ s[Len(s)] = w
    BY <1>2 DEF Tailed
  <1>6. ~InCleanup(s)
    BY <1>1, <1>5 DEF InCleanup, IsWrite, RecordWrites
  <1> QED BY <1>1, <1>3, <1>4, <1>5, <1>6 DEF IsWrite

\* commit_with_drain.
LEMMA CommitHandlerScripted ==
    ASSUME OptRecord(mem), NEW o \in LeaseOwners, Commit(o) # Reject, now \in Nat
    PROVE  /\ mem # None /\ Scripted(Commit(o), mem, mem)
           /\ OwnedBy(Commit(o), mem.owner.proc)
  <1>1. mem # None /\ SoundRecord(mem) /\ mem \in Records /\ mem.decl \in Declarations
    BY DEF Commit, OptRecord, SoundRecord, Records
  <1>2. CASE mem.phase # "Prepared"
    BY <1>1, <1>2, EmptyScripted DEF Commit
  <1>3. CASE mem.phase = "Prepared" /\ mem.cand # None
    <2> DEFINE c == mem.cand
               y == [mem EXCEPT !.phase = "Draining", !.deadline = now + DrainLen]
               w == Store(y, "drop_activation")
               a == Call("activate_link", c, None, "drop_activation")
               b == Call("install_rule", c, None, "drop_activation")
    <2>1. Commit(o) = <<a, b, w>>
      BY <1>1, <1>3 DEF Commit
    <2>2. HasCandidate(mem) /\ c \in Declarations /\ "fw" \in mem.steps
      BY <1>1, <1>3 DEF HasCandidate, Records, SoundRecord
    <2>3. /\ y \in Records /\ y.owner = mem.owner /\ y.decl = mem.decl /\ y.cand = mem.cand
          /\ y.candOwner = mem.candOwner /\ y.phase = "Draining" /\ y.steps = mem.steps
      <3>1. now + DrainLen \in Nat
        BY BoundAssumption
      <3> QED BY <1>1, <3>1 DEF Records, Phases
    <2> HIDE DEF y
    <2>4. SoundRecord(y) /\ HasCandidate(y) /\ y # None
      BY <1>1, <1>3, <2>2, <2>3, NoneAssumption DEF SoundRecord, Staged, HasCandidate
    <2>5. a \in Calls({"drop_activation"}) /\ b \in Calls({"drop_activation"})
      BY <2>2, KernelElement, CatchSets DEF KernelCalls
    <2>6. /\ Ordinary(w) /\ w \in Elements /\ w.op = "store" /\ w.r = y
          /\ w.catch = "drop_activation"
      BY <2>4, StoreOrdinary
    <2>7. Calls({"drop_activation"}) \subseteq Elements
      BY CallsAreElements
    <2> HIDE DEF a, b, w
    <2>8. Tailed(Commit(o), Calls({"drop_activation"}), w)
      BY <2>1, <2>5, <2>6, <2>7 DEF Tailed
    <2>9. Scripted(Commit(o), mem, mem)
      BY <2>2, <2>4, <2>6, <2>8, ActivationScripted
    <2>10. OwnedBy(Commit(o), mem.owner.proc)
      BY <2>3, <2>6, <2>8, TailedOwned
    <2> QED BY <1>1, <2>9, <2>10
  <1>4. CASE mem.phase = "Prepared" /\ mem.cand = None
    <2> DEFINE x == WithSteps(mem, {"rule"})
               y == [x EXCEPT !.phase = "Active"]
               v == Store(x, "cleanup")
               w == Store(y, "cleanup")
               a == Call("install_rule", mem.decl, None, "cleanup")
    <2>1. Commit(o) = <<v, a, w>>
      BY <1>1, <1>4 DEF Commit
    <2>2. /\ x \in Records /\ x.owner = mem.owner /\ x.decl = mem.decl /\ x.cand = None
          /\ x.candOwner = mem.candOwner /\ x.phase = "Prepared"
          /\ x.steps = mem.steps \cup {"rule"}
      BY <1>1, <1>4 DEF Records, WithSteps, StepBits
    <2>3. /\ y \in Records /\ y.owner = mem.owner /\ y.decl = mem.decl /\ y.cand = None
          /\ y.candOwner = mem.candOwner /\ y.phase = "Active"
          /\ y.steps = mem.steps \cup {"rule"}
      BY <2>2 DEF Records, Phases
    <2> HIDE DEF x, y
    <2>4. SoundRecord(x) /\ SoundRecord(y)
      BY <1>1, <1>4, <2>2, <2>3 DEF SoundRecord, Staged
    <2>5. a \in Calls({"cleanup"})
      BY <1>1, KernelElement, CatchSets DEF KernelCalls
    <2>6. /\ Ordinary(v) /\ v \in Elements /\ v.r = x /\ v.catch = "cleanup"
          /\ Ordinary(w) /\ w \in Elements /\ w.r = y /\ w.catch = "cleanup"
      BY <2>4, StoreOrdinary
    <2>7. Calls({"cleanup"}) \subseteq Elements
      BY CallsAreElements
    <2> HIDE DEF a, v, w
    <2>8. Enclosed(Commit(o), v, Calls({"cleanup"}), w)
      BY <2>1, <2>5, <2>6, <2>7 DEF Enclosed
    <2>9. Scripted(Commit(o), mem, mem)
      BY <1>1, <1>4, <2>2, <2>3, <2>6, <2>8, CommitScripted
    <2>10. OwnedBy(Commit(o), mem.owner.proc)
      BY <2>2, <2>3, <2>6, <2>8, EnclosedOwned
    <2> QED BY <1>1, <2>9, <2>10
  <1> QED BY <1>2, <1>3, <1>4

\* prepare: the first record is adopted, every later failure is cleaned up.
Building(o) ==
    {e \in Elements :
        /\ Ordinary(e) /\ e.catch = "cleanup" /\ e.op # "adopt"
        /\ IsWrite(e) => e.r.cand = None /\ e.r.owner = o}

\* prepare writes, creates and writes again; every record it writes is one
\* that it is building.
LEMMA PrepareForm ==
    ASSUME mem = None, NEW o \in LeaseOwners, NEW d \in Declarations
    PROVE  LET r0 == [owner |-> o, decl |-> d, cand |-> None, candOwner |-> None,
                      phase |-> "Preparing", steps |-> {}, sysctls |-> FALSE,
                      deadline |-> 0, failed |-> {}]
           IN /\ SoundRecord(r0)
              /\ Headed(Prepare(o, d), Adopt(r0, "return"), Building(o))
  <1> DEFINE r0 == [owner |-> o, decl |-> d, cand |-> None, candOwner |-> None,
                    phase |-> "Preparing", steps |-> {}, sysctls |-> FALSE,
                    deadline |-> 0, failed |-> {}]
             r1 == [r0 EXCEPT !.sysctls = ~kern.sysctl]
             step(bits) == Store(WithSteps(r1, bits), "cleanup")
             do(op) == Call(op, d, r1.sysctls, "cleanup")
             z == [WithSteps(r1, StepBits \ {"rule"}) EXCEPT !.phase = "Prepared"]
             last == Store(z, "cleanup")
             B == Building(o)
  <1>1. r0 \in Records /\ r0.cand = None /\ r0.candOwner = None /\ r0.phase = "Preparing"
    BY DEF Records, Phases
  <1>2. SoundRecord(r0)
    BY <1>1 DEF SoundRecord, Staged
  <1>3. /\ r1 \in Records /\ r1.owner = o /\ r1.cand = None /\ r1.candOwner = None
        /\ r1.phase = "Preparing" /\ r1.steps = {} /\ r1.sysctls \in BOOLEAN
    BY DEF Records, Phases
  <1> HIDE DEF r1
  <1>4. ASSUME NEW bits \in SUBSET StepBits
        PROVE  step(bits) \in B
    <2> DEFINE x == WithSteps(r1, bits)
    <2>1. /\ x \in Records /\ x.owner = o /\ x.cand = None /\ x.candOwner = None
          /\ x.phase = "Preparing"
      BY <1>3 DEF Records, WithSteps
    <2> HIDE DEF x
    <2>2. SoundRecord(x)
      BY <2>1 DEF SoundRecord, Staged
    <2>3. Store(x, "cleanup") \in B
      BY <2>1, <2>2, StoreOrdinary DEF Building
    <2> QED BY <2>3 DEF x
  <1>5. last \in B
    <2>1. /\ WithSteps(r1, StepBits \ {"rule"}) \in Records
          /\ WithSteps(r1, StepBits \ {"rule"}).owner = o
          /\ WithSteps(r1, StepBits \ {"rule"}).cand = None
          /\ WithSteps(r1, StepBits \ {"rule"}).candOwner = None
          /\ "fw" \in WithSteps(r1, StepBits \ {"rule"}).steps
      BY <1>3 DEF Records, WithSteps, StepBits
    <2>2. /\ z \in Records /\ z.owner = o /\ z.cand = None /\ z.candOwner = None
          /\ z.phase = "Prepared" /\ "fw" \in z.steps
      BY <2>1 DEF Records, Phases
    <2> HIDE DEF z
    <2>3. SoundRecord(z)
      BY <2>2 DEF SoundRecord, Staged
    <2> QED BY <2>2, <2>3, StoreOrdinary DEF Building
  <1>6. r1.sysctls \in Arguments
    BY <1>3 DEF Arguments
  <1>7. ASSUME NEW op \in {"preflight", "prepare_link", "activate_link",
                           "prepare_routes", "prepare_firewall"}
        PROVE  do(op) \in B
    <2>1. do(op) \in Calls({"cleanup"})
      BY <1>6, KernelElement, CatchSets DEF KernelCalls
    <2> HIDE DEF do
    <2> QED BY <2>1, CallsAreOrdinary, CallsAreElements DEF Building
  <1>8. do("prepare_sysctls") \in B
    <2> DEFINE e == do("prepare_sysctls")
    <2>1. /\ e.op = "prepare_sysctls" /\ e.d = d /\ e.r \in BOOLEAN
          /\ e.catch = "cleanup" /\ e.then = <<>>
      BY <1>3 DEF Call
    <2>2. "prepare_sysctls" \in Operations /\ <<>> \in Thens /\ "cleanup" \in Catches
      BY CatchSets DEF Operations, KernelCalls, Thens
    <2>3. e \in Elements
      BY <1>6, <2>2 DEF Elements, Call
    <2> HIDE DEF e
    <2>4. WellFormed(e)
      BY <2>1, <2>2 DEF WellFormed, KernelCalls, RecordWrites, Cleaners
    <2>5. e \in B
      BY <2>1, <2>3, <2>4 DEF Building, Ordinary, IsWrite, RecordWrites, Cleaners
    <2> QED BY <2>5 DEF e
  <1>9. Prepare(o, d) =
            <<Adopt(r0, "return"), do("preflight"), step({}), step({"sysctls"}),
              do("prepare_sysctls"), step({"sysctls", "link"}), do("prepare_link"),
              step({"sysctls", "link", "up"}), do("activate_link"),
              step({"sysctls", "link", "up", "routes"}), do("prepare_routes"),
              step({"sysctls", "link", "up", "routes", "fw"}), do("prepare_firewall"),
              last>>
    BY DEF Prepare, r1
  <1>10. Adopt(r0, "return") \in Elements
    BY <1>2, AdoptOrdinary
  <1>11. /\ step({}) \in B /\ step({"sysctls"}) \in B /\ step({"sysctls", "link"}) \in B
         /\ step({"sysctls", "link", "up"}) \in B
         /\ step({"sysctls", "link", "up", "routes"}) \in B
         /\ step({"sysctls", "link", "up", "routes", "fw"}) \in B
    <2>1. /\ {} \in SUBSET StepBits /\ {"sysctls"} \in SUBSET StepBits
          /\ {"sysctls", "link"} \in SUBSET StepBits
          /\ {"sysctls", "link", "up"} \in SUBSET StepBits
          /\ {"sysctls", "link", "up", "routes"} \in SUBSET StepBits
          /\ {"sysctls", "link", "up", "routes", "fw"} \in SUBSET StepBits
      BY DEF StepBits
    <2> QED BY <2>1, <1>4
  <1>12. /\ do("preflight") \in B /\ do("prepare_link") \in B /\ do("activate_link") \in B
         /\ do("prepare_routes") \in B /\ do("prepare_firewall") \in B
    BY <1>7
  <1>13. B \subseteq Elements
    BY DEF Building
  <1> HIDE DEF step, do, last, B, r0
  <1>14. Headed(Prepare(o, d), Adopt(r0, "return"), B)
    <2>1. Prepare(o, d) \in Seq(Elements) /\ Len(Prepare(o, d)) = 14
      BY <1>5, <1>8, <1>9, <1>10, <1>11, <1>12, <1>13
    <2>2. Prepare(o, d)[1] = Adopt(r0, "return")
      BY <1>9
    <2>3. \A i \in 2..14 : Prepare(o, d)[i] \in B
      BY <1>5, <1>8, <1>9, <1>11, <1>12
    <2> QED BY <2>1, <2>2, <2>3 DEF Headed
  <1> QED BY <1>2, <1>14 DEF r0, B

\* prepare as a handler.
LEMMA PrepareScripted ==
    ASSUME OptRecord(mem), NEW o \in LeaseOwners, NEW d \in Declarations,
           Prepare(o, d) # Reject
    PROVE  /\ Scripted(Prepare(o, d), mem, mem)
           /\ mem = None => OwnedBy(Prepare(o, d), o.proc)
           /\ mem # None => Prepare(o, d) = <<>> /\ SameProcess(mem.owner, o)
  <1>1. CASE mem # None
    <2>1. Prepare(o, d) = <<>> /\ SameProcess(mem.owner, o)
      BY <1>1 DEF Prepare, SameOwner
    <2> QED BY <1>1, <2>1, EmptyScripted
  <1>2. CASE mem = None
    <2> DEFINE r0 == [owner |-> o, decl |-> d, cand |-> None, candOwner |-> None,
                      phase |-> "Preparing", steps |-> {}, sysctls |-> FALSE,
                      deadline |-> 0, failed |-> {}]
               v == Adopt(r0, "return")
               s == Prepare(o, d)
    <2>1. SoundRecord(r0) /\ Headed(s, v, Building(o)) /\ r0.owner = o /\ r0.cand = None
      BY <1>2, PrepareForm
    <2> HIDE DEF r0, s
    <2>2. /\ Ordinary(v) /\ v.op = "adopt" /\ v.r = r0 /\ v.catch = "return" /\ IsWrite(v)
      BY <2>1, AdoptOrdinary
    <2> HIDE DEF v
    <2>3. /\ s \in Seq(Elements) /\ Len(s) \in Nat \ {0} /\ s[1] = v /\ s # <<>>
          /\ \A i \in 1..Len(s) : (i = 1 /\ s[i] = v) \/ (i > 1 /\ s[i] \in Building(o))
      BY <2>1 DEF Headed
    <2>4. \A i \in 1..Len(s) :
              /\ Ordinary(s[i]) /\ s[i].catch \in {"return", "cleanup"}
              /\ IsWrite(s[i]) => s[i].r.cand = None /\ s[i].r.owner = o
      BY <2>1, <2>2, <2>3 DEF Building
    <2>5. Shape(s, mem)
      BY <2>2, <2>3, <2>4 DEF Shape, Ordinary, Cleaners
    <2>6. ~InCleanup(s)
      BY <2>3, <2>4 DEF InCleanup, Ordinary, Cleaners
    <2>7. CleanupShape(s, mem)
      BY <2>4, <2>6 DEF CleanupShape, Ordinary
    <2>8. Catchable(s, mem, mem)
      BY <1>2, <2>3, <2>4 DEF Catchable, Drops, Restores
    <2>9. OwnedBy(s, o.proc)
      BY <2>4 DEF OwnedBy
    <2> QED BY <1>2, <2>5, <2>7, <2>8, <2>9 DEF Scripted, s
  <1> QED BY <1>1, <1>2

-----------------------------------------------------------------------------
(* cleanup_record                                                          *)

Removing(e, t) == e.op = "remove_firewall" /\ e.d.table = t

\* What comes between the first store of a clean-up of r and its last element.
Cleaning(r) ==
    {e \in Elements :
        /\ WellFormed(e) /\ e.catch = "soft"
        /\ e.op \notin RecordWrites \cup {"clear", "clear_step", "reject",
                   "prepare_firewall", "replace_firewall", "prepare_sysctls"}
        /\ e.then = Undoing("fw") => Removing(e, r.decl.table)
        /\ e.then = Undoing("sysctls") => e.op = "restore_sysctls" /\ e.r = r.sysctls}

Contains(s, e) == \E i \in 1..Len(s) : s[i] = e

\* A call of cleanup_record, with the bit it clears.
LEMMA UndoElement ==
    ASSUME NEW op \in {"remove_rule", "deactivate_link", "restore_sysctls",
                       "remove_firewall", "remove_routes", "remove_link"},
           NEW d \in Declarations, NEW a \in Arguments, NEW b \in StepBits,
           op = "restore_sysctls" => a \in BOOLEAN
    PROVE  /\ Undo(op, d, a, b) \in Elements /\ WellFormed(Undo(op, d, a, b))
           /\ Undo(op, d, a, b).op = op /\ Undo(op, d, a, b).d = d
           /\ Undo(op, d, a, b).r = a /\ Undo(op, d, a, b).catch = "soft"
           /\ Undo(op, d, a, b).then = Undoing(b)
  <1> DEFINE e == Undo(op, d, a, b)
  <1>1. e = [op |-> op, d |-> d, r |-> a, catch |-> "soft", then |-> Undoing(b)]
    BY DEF Undo, Call, Undoing
  <1>2. op \in Operations /\ "soft" \in Catches /\ Undoing(b) \in Thens
    BY DEF Operations, KernelCalls, Catches, Quiet, Thens
  <1> HIDE DEF e
  <1>3. e \in Elements
    BY <1>1, <1>2 DEF Elements
  <1>4. /\ e.op = op /\ e.d = d /\ e.r = a /\ e.catch = "soft" /\ e.then = Undoing(b)
    BY <1>1
  <1>5. WellFormed(e)
    BY <1>2, <1>4 DEF WellFormed, KernelCalls, RecordWrites, Cleaners
  <1> QED BY <1>3, <1>4, <1>5 DEF e

\* Undoing one step is not undoing another.
LEMMA UndoingDistinct ==
    \A b, c \in StepBits : Undoing(b) = Undoing(c) => b = c
  <1> SUFFICES ASSUME NEW b \in StepBits, NEW c \in StepBits, Undoing(b) = Undoing(c)
               PROVE  b = c
    OBVIOUS
  <1>1. Undoing(b)[1] = Undoing(c)[1]
    OBVIOUS
  <1>2. Call("clear_step", None, b, "soft") = Call("clear_step", None, c, "soft")
    BY <1>1 DEF Undoing
  <1> QED BY <1>2 DEF Call

\* Adding to a script keeps what it has.
Grown(s, a, t) ==
    /\ Len(t) \in Nat /\ Len(s) <= Len(t) /\ Len(t) = Len(s) + Len(a)
    /\ \A i \in 1..Len(s) : t[i] = s[i]
    /\ \A i \in 1..Len(a) : t[Len(s) + i] = a[i]
    /\ \A e : Contains(s, e) \/ Contains(a, e) => Contains(t, e)

\* cleanup_record is put together from the left.
LEMMA GrowScript ==
    ASSUME NEW C \in SUBSET Elements, NEW v, NEW s, Headed(s, v, C), NEW a \in Seq(C)
    PROVE  Headed(s \o a, v, C) /\ Grown(s, a, s \o a)
  <1>1. Headed(s \o a, v, C)
    BY HeadedConcat
  <1>2. a \in Seq(Elements) /\ s \in Seq(Elements)
    BY SeqMonotonic DEF Headed
  <1>3. /\ Len(s \o a) = Len(s) + Len(a)
        /\ \A i \in 1..(Len(s) + Len(a)) : (s \o a)[i] =
               IF i <= Len(s) THEN s[i] ELSE a[i - Len(s)]
    BY <1>2, ConcatProperties
  <1>4. Len(s) \in Nat \ {0} /\ Len(a) \in Nat
    BY LenProperties DEF Headed
  <1>5. \A i \in 1..Len(s) : (s \o a)[i] = s[i] /\ i \in 1..Len(s \o a)
    BY <1>3, <1>4
  <1>6. ASSUME NEW i \in 1..Len(a)
        PROVE  (s \o a)[Len(s) + i] = a[i] /\ Len(s) + i \in 1..Len(s \o a)
    <2>1. /\ Len(s) + i \in 1..(Len(s) + Len(a)) /\ ~(Len(s) + i <= Len(s))
          /\ (Len(s) + i) - Len(s) = i
      BY <1>4
    <2> QED BY <2>1, <1>3
  <1>7. ASSUME NEW e, Contains(s, e) \/ Contains(a, e) PROVE Contains(s \o a, e)
    <2>1. CASE Contains(s, e)
      BY <2>1, <1>5 DEF Contains
    <2>2. CASE Contains(a, e)
      BY <2>2, <1>6 DEF Contains
    <2> QED BY <1>7, <2>1, <2>2
  <1>8. Len(s \o a) \in Nat /\ Len(s) <= Len(s \o a)
    BY <1>3, <1>4
  <1> QED BY <1>1, <1>3, <1>5, <1>6, <1>7, <1>8 DEF Grown

\* A conditional single element.
LEMMA WhenElement ==
    ASSUME NEW C, NEW b \in BOOLEAN, NEW e, b => e \in C
    PROVE  /\ When(b, <<e>>) \in Seq(C)
           /\ b => Contains(When(b, <<e>>), e)
  <1>1. CASE b
    <2>1. When(b, <<e>>) = <<e>> /\ <<e>> \in Seq(C) /\ Len(<<e>>) = 1 /\ <<e>>[1] = e
      BY <1>1 DEF When
    <2>2. Contains(<<e>>, e)
      BY <2>1 DEF Contains
    <2> QED BY <2>1, <2>2
  <1>2. CASE ~b
    BY <1>2, EmptySeq DEF When
  <1> QED BY <1>1, <1>2

\* cleanup_record: its first write, its calls, and its last element.
LEMMA CleanupForm ==
    ASSUME NEW m, SoundRecord(m)
    PROVE  LET r == [m EXCEPT !.phase = "RollingBack"]
               s == Cleanup(m)
           IN /\ SoundRecord(r) /\ r.owner = m.owner /\ r.phase = "RollingBack"
              /\ Enclosed(s, Store(r, "return"), Cleaning(r),
                          Call("clear", None, None, "soft"))
              /\ \A b \in r.steps : \E i \in 1..Len(s) : s[i].then = Undoing(b)
              /\ r.cand # None =>
                     /\ 2 \in 1..Len(s) /\ Removing(s[2], r.cand.table)
                     /\ \E i \in 1..Len(s) : s[i].op = "drop_candidate"
  <1> DEFINE r == [m EXCEPT !.phase = "RollingBack"]
             d == r.decl
             C == Cleaning(r)
             v == Store(r, "return")
             w == Call("clear", None, None, "soft")
             has(bits) == r.steps \cap bits # {}
             x1 == Call("remove_firewall", r.cand, None, "soft")
             x2 == Call("remove_routes", r.cand, {}, "soft")
             x3 == Call("drop_candidate", None, None, "soft")
             e2 == Undo("remove_rule", d, None, "rule")
             e3 == Undo("deactivate_link", d, None, "up")
             e4 == Undo("restore_sysctls", d, r.sysctls, "sysctls")
             e5 == Undo("remove_firewall", d, None, "fw")
             e6 == Undo("remove_routes", d, r.failed, "routes")
             e7 == Undo("remove_link", d, None, "link")
  <1>1. m \in Records
    BY DEF SoundRecord
  <1>2. /\ r \in Records /\ r.owner = m.owner /\ r.decl = m.decl /\ r.cand = m.cand
        /\ r.candOwner = m.candOwner /\ r.phase = "RollingBack" /\ r.steps = m.steps
    BY <1>1 DEF Records, Phases
  <1>3. Cleanup(m) =
            <<v>> \o When(r.cand # None, <<x1, x2, x3>>) \o When(has({"rule"}), <<e2>>)
            \o When(has({"link", "up"}), <<e3>>) \o When(has({"sysctls"}), <<e4>>)
            \o When(has({"fw"}), <<e5>>) \o When(has({"routes"}), <<e6>>)
            \o When(has({"link"}), <<e7>>) \o <<w>>
    BY DEF Cleanup
  <1> HIDE DEF r
  <1>4. SoundRecord(r)
    BY <1>1, <1>2 DEF SoundRecord, Staged
  <1>5. /\ d \in Declarations /\ r.sysctls \in BOOLEAN /\ r.steps \in SUBSET StepBits
        /\ r.failed \in SUBSET Prefixes
        /\ r.cand # None => r.cand \in Declarations
    BY <1>2 DEF Records
  <1>6. /\ r.sysctls \in Arguments /\ r.failed \in Arguments /\ None \in Arguments
        /\ {} \in Arguments
    <2>1. BOOLEAN \subseteq Arguments
      BY DEF Arguments
    <2>2. SUBSET Prefixes \subseteq Arguments
      BY CatchSets
    <2>3. None \in Arguments /\ {} \in Arguments
      BY CatchSets
    <2> QED BY <1>5, <2>1, <2>2, <2>3
  <1>7. /\ "rule" \in StepBits /\ "up" \in StepBits /\ "sysctls" \in StepBits
        /\ "fw" \in StepBits /\ "routes" \in StepBits /\ "link" \in StepBits
    BY DEF StepBits
  <1>8. /\ e2 \in C /\ e2.then = Undoing("rule") /\ e3 \in C /\ e3.then = Undoing("up")
        /\ e4 \in C /\ e4.then = Undoing("sysctls") /\ e5 \in C /\ e5.then = Undoing("fw")
        /\ e6 \in C /\ e6.then = Undoing("routes") /\ e7 \in C /\ e7.then = Undoing("link")
    <2>1. /\ e2 \in Elements /\ WellFormed(e2) /\ e2.op = "remove_rule"
          /\ e2.catch = "soft" /\ e2.then = Undoing("rule")
      BY <1>5, <1>6, <1>7, UndoElement
    <2>2. /\ e3 \in Elements /\ WellFormed(e3) /\ e3.op = "deactivate_link"
          /\ e3.catch = "soft" /\ e3.then = Undoing("up")
      BY <1>5, <1>6, <1>7, UndoElement
    <2>3. /\ e4 \in Elements /\ WellFormed(e4) /\ e4.op = "restore_sysctls"
          /\ e4.catch = "soft" /\ e4.then = Undoing("sysctls") /\ e4.r = r.sysctls
      BY <1>5, <1>6, <1>7, UndoElement
    <2>4. /\ e5 \in Elements /\ WellFormed(e5) /\ e5.op = "remove_firewall"
          /\ e5.catch = "soft" /\ e5.then = Undoing("fw") /\ e5.d = d
      BY <1>5, <1>6, <1>7, UndoElement
    <2>5. /\ e6 \in Elements /\ WellFormed(e6) /\ e6.op = "remove_routes"
          /\ e6.catch = "soft" /\ e6.then = Undoing("routes")
      BY <1>5, <1>6, <1>7, UndoElement
    <2>6. /\ e7 \in Elements /\ WellFormed(e7) /\ e7.op = "remove_link"
          /\ e7.catch = "soft" /\ e7.then = Undoing("link")
      BY <1>5, <1>6, <1>7, UndoElement
    <2>7. /\ Undoing("rule") # Undoing("fw") /\ Undoing("rule") # Undoing("sysctls")
          /\ Undoing("up") # Undoing("fw") /\ Undoing("up") # Undoing("sysctls")
          /\ Undoing("routes") # Undoing("fw") /\ Undoing("routes") # Undoing("sysctls")
          /\ Undoing("link") # Undoing("fw") /\ Undoing("link") # Undoing("sysctls")
          /\ Undoing("fw") # Undoing("sysctls")
      BY <1>7, UndoingDistinct
    <2> HIDE DEF e2, e3, e4, e5, e6, e7
    <2>8. e2 \in C /\ e3 \in C
      BY <2>1, <2>2, <2>7 DEF Cleaning, RecordWrites
    <2>9. e4 \in C
      BY <2>3, <2>7 DEF Cleaning, RecordWrites
    <2>10. e5 \in C
      BY <2>4, <2>7 DEF Cleaning, RecordWrites, Removing
    <2>11. e6 \in C /\ e7 \in C
      BY <2>5, <2>6, <2>7 DEF Cleaning, RecordWrites
    <2> QED BY <2>1, <2>2, <2>3, <2>4, <2>5, <2>6, <2>8, <2>9, <2>10, <2>11
  <1>9. <<>> # Undoing("fw") /\ <<>> # Undoing("sysctls")
    BY DEF Undoing
  <1>10. ASSUME r.cand # None
         PROVE  /\ x1 \in C /\ x2 \in C /\ x1.op = "remove_firewall" /\ x1.d = r.cand
    <2>1. r.cand \in Declarations /\ "soft" \in Quiet /\ Quiet \in SUBSET Catches
      BY <1>5, <1>10, CatchSets DEF Quiet
    <2>2. /\ "remove_firewall" \in KernelCalls \ {"prepare_sysctls", "restore_sysctls"}
          /\ "remove_routes" \in KernelCalls \ {"prepare_sysctls", "restore_sysctls"}
      BY DEF KernelCalls
    <2>3. /\ x1 \in Calls(Quiet) /\ x1.op = "remove_firewall" /\ x1.d = r.cand
          /\ x1.catch = "soft" /\ x1.then = <<>>
      BY <1>6, <2>1, <2>2, KernelElement
    <2>4. /\ x2 \in Calls(Quiet) /\ x2.op = "remove_routes" /\ x2.catch = "soft"
          /\ x2.then = <<>>
      <3> DEFINE a == {}
                 op == "remove_routes"
      <3>1. a \in Arguments /\ op \in KernelCalls \ {"prepare_sysctls", "restore_sysctls"}
        BY <1>6, <2>2
      <3> HIDE DEF a, op
      <3>2. /\ Call(op, r.cand, a, "soft") \in Calls(Quiet)
            /\ Call(op, r.cand, a, "soft").op = op
            /\ Call(op, r.cand, a, "soft").catch = "soft"
            /\ Call(op, r.cand, a, "soft").then = <<>>
        BY <3>1, <2>1, KernelElement
      <3> QED BY <3>2 DEF a, op
    <2> HIDE DEF x1, x2
    <2>5. WellFormed(x1) /\ WellFormed(x2) /\ x1 \in Elements /\ x2 \in Elements
      BY <2>3, <2>4, CallsAreElements
    <2> QED BY <1>9, <2>3, <2>4, <2>5 DEF Cleaning, RecordWrites
  <1>11. x3 \in C /\ x3.op = "drop_candidate"
    <2>1. x3.op = "drop_candidate" /\ x3.catch = "soft" /\ x3.then = <<>>
      BY DEF Call
    <2>2. "drop_candidate" \in Operations /\ "soft" \in Catches /\ <<>> \in Thens
      BY DEF Operations, Cleaners, Catches, Quiet, Thens
    <2>3. x3 \in Elements
      BY <1>6, <2>2 DEF Elements, Call
    <2> HIDE DEF x3
    <2>4. WellFormed(x3)
      BY <2>1, <2>2 DEF WellFormed, KernelCalls, RecordWrites, Cleaners
    <2> QED BY <1>9, <2>1, <2>3, <2>4 DEF Cleaning, RecordWrites
  <1>12. w \in Elements /\ w.op = "clear"
    <2>1. "clear" \in Operations /\ "soft" \in Catches /\ <<>> \in Thens
      BY DEF Operations, Cleaners, Catches, Quiet, Thens
    <2> QED BY <1>6, <2>1 DEF Elements, Call
  <1>13. v \in Elements
    BY <1>4, StoreOrdinary
  <1>14. C \in SUBSET Elements
    BY DEF Cleaning
  <1> DEFINE p1 == When(r.cand # None, <<x1, x2, x3>>)
             p2 == When(has({"rule"}), <<e2>>)
             p3 == When(has({"link", "up"}), <<e3>>)
             p4 == When(has({"sysctls"}), <<e4>>)
             p5 == When(has({"fw"}), <<e5>>)
             p6 == When(has({"routes"}), <<e6>>)
             p7 == When(has({"link"}), <<e7>>)
             s0 == <<v>>
             s1 == s0 \o p1
             s2 == s1 \o p2
             s3 == s2 \o p3
             s4 == s3 \o p4
             s5 == s4 \o p5
             s6 == s5 \o p6
             s7 == s6 \o p7
             s == s7 \o <<w>>
  <1>15. Cleanup(m) = s
    BY <1>3
  <1> HIDE DEF x1, x2, x3, e2, e3, e4, e5, e6, e7, v, w, C, d
  <1>16. /\ p1 \in Seq(C)
         /\ r.cand # None => /\ Len(p1) = 3 /\ p1[1] = x1 /\ p1[2] = x2 /\ p1[3] = x3
    <2>1. CASE r.cand = None
      BY <2>1, EmptySeq DEF When
    <2>2. CASE r.cand # None
      <3>1. x1 \in C /\ x2 \in C /\ x3 \in C
        BY <2>2, <1>10, <1>11
      <3> QED BY <2>2, <3>1 DEF When
    <2> QED BY <2>1, <2>2
  <1>17. /\ p2 \in Seq(C) /\ (has({"rule"}) => Contains(p2, e2))
         /\ p3 \in Seq(C) /\ (has({"link", "up"}) => Contains(p3, e3))
         /\ p4 \in Seq(C) /\ (has({"sysctls"}) => Contains(p4, e4))
         /\ p5 \in Seq(C) /\ (has({"fw"}) => Contains(p5, e5))
         /\ p6 \in Seq(C) /\ (has({"routes"}) => Contains(p6, e6))
         /\ p7 \in Seq(C) /\ (has({"link"}) => Contains(p7, e7))
    BY <1>8, WhenElement
  <1> HIDE DEF p1, p2, p3, p4, p5, p6, p7
  <1>18. Headed(s0, v, C) /\ Len(s0) = 1
    BY <1>13, HeadedSingle
  <1>19. s1 = s0 \o p1 /\ s2 = s1 \o p2 /\ s3 = s2 \o p3 /\ s4 = s3 \o p4
    OBVIOUS
  <1>20. s5 = s4 \o p5 /\ s6 = s5 \o p6 /\ s7 = s6 \o p7 /\ s = s7 \o <<w>>
    OBVIOUS
  <1> HIDE DEF s0, s1, s2, s3, s4, s5, s6, s7, s
  <1>21. /\ Headed(s1, v, C) /\ Len(s1) \in Nat
         /\ r.cand # None => /\ 4 <= Len(s1) /\ s1[2] = x1 /\ s1[4] = x3
    <2>1. /\ Headed(s1, v, C) /\ Len(s1) = Len(s0) + Len(p1) /\ Len(s1) \in Nat
          /\ \A i \in 1..Len(p1) : s1[Len(s0) + i] = p1[i]
      <3>1. Headed(s0 \o p1, v, C) /\ Grown(s0, p1, s0 \o p1)
        BY <1>14, <1>16, <1>18, GrowScript
      <3> QED BY <3>1, <1>19 DEF Grown
    <2>2. ASSUME r.cand # None PROVE s1[2] = x1 /\ s1[4] = x3 /\ 4 <= Len(s1)
      <3>1. Len(p1) = 3 /\ p1[1] = x1 /\ p1[3] = x3 /\ Len(s0) = 1
        BY <1>16, <1>18, <2>2
      <3>2. s1[1 + 1] = x1 /\ s1[1 + 3] = x3 /\ Len(s1) = 1 + 3
        BY <2>1, <3>1
      <3> QED BY <3>2
    <2> QED BY <2>1, <2>2
  <1>22. /\ Headed(s2, v, C) /\ Len(s2) \in Nat /\ Len(s1) <= Len(s2)
         /\ \A i \in 1..Len(s1) : s2[i] = s1[i]
         /\ \A e : Contains(s1, e) \/ Contains(p2, e) => Contains(s2, e)
    <2>1. Headed(s1 \o p2, v, C) /\ Grown(s1, p2, s1 \o p2)
      <3>1. p2 \in Seq(C) /\ Headed(s1, v, C)
        BY <1>17, <1>21
      <3> QED BY <3>1, <1>14, GrowScript
    <2> QED BY <2>1, <1>19 DEF Grown
  <1>23. /\ Headed(s3, v, C) /\ Len(s3) \in Nat /\ Len(s2) <= Len(s3)
         /\ \A i \in 1..Len(s2) : s3[i] = s2[i]
         /\ \A e : Contains(s2, e) \/ Contains(p3, e) => Contains(s3, e)
    <2>1. Headed(s2 \o p3, v, C) /\ Grown(s2, p3, s2 \o p3)
      <3>1. p3 \in Seq(C) /\ Headed(s2, v, C)
        BY <1>17, <1>22
      <3> QED BY <3>1, <1>14, GrowScript
    <2> QED BY <2>1, <1>19 DEF Grown
  <1>24. /\ Headed(s4, v, C) /\ Len(s4) \in Nat /\ Len(s3) <= Len(s4)
         /\ \A i \in 1..Len(s3) : s4[i] = s3[i]
         /\ \A e : Contains(s3, e) \/ Contains(p4, e) => Contains(s4, e)
    <2>1. Headed(s3 \o p4, v, C) /\ Grown(s3, p4, s3 \o p4)
      <3>1. p4 \in Seq(C) /\ Headed(s3, v, C)
        BY <1>17, <1>23
      <3> QED BY <3>1, <1>14, GrowScript
    <2> QED BY <2>1, <1>19 DEF Grown
  <1>25. /\ Headed(s5, v, C) /\ Len(s5) \in Nat /\ Len(s4) <= Len(s5)
         /\ \A i \in 1..Len(s4) : s5[i] = s4[i]
         /\ \A e : Contains(s4, e) \/ Contains(p5, e) => Contains(s5, e)
    <2>1. Headed(s4 \o p5, v, C) /\ Grown(s4, p5, s4 \o p5)
      <3>1. p5 \in Seq(C) /\ Headed(s4, v, C)
        BY <1>17, <1>24
      <3> QED BY <3>1, <1>14, GrowScript
    <2> QED BY <2>1, <1>20 DEF Grown
  <1>26. /\ Headed(s6, v, C) /\ Len(s6) \in Nat /\ Len(s5) <= Len(s6)
         /\ \A i \in 1..Len(s5) : s6[i] = s5[i]
         /\ \A e : Contains(s5, e) \/ Contains(p6, e) => Contains(s6, e)
    <2>1. Headed(s5 \o p6, v, C) /\ Grown(s5, p6, s5 \o p6)
      <3>1. p6 \in Seq(C) /\ Headed(s5, v, C)
        BY <1>17, <1>25
      <3> QED BY <3>1, <1>14, GrowScript
    <2> QED BY <2>1, <1>20 DEF Grown
  <1>27. /\ Headed(s7, v, C) /\ Len(s7) \in Nat /\ Len(s6) <= Len(s7)
         /\ \A i \in 1..Len(s6) : s7[i] = s6[i]
         /\ \A e : Contains(s6, e) \/ Contains(p7, e) => Contains(s7, e)
    <2>1. Headed(s6 \o p7, v, C) /\ Grown(s6, p7, s6 \o p7)
      <3>1. p7 \in Seq(C) /\ Headed(s6, v, C)
        BY <1>17, <1>26
      <3> QED BY <3>1, <1>14, GrowScript
    <2> QED BY <2>1, <1>20 DEF Grown
  <1>28. Enclosed(s, v, C, w)
    BY <1>12, <1>14, <1>20, <1>27, EnclosedConcat
  <1>29. /\ Len(s) = Len(s7) + 1
         /\ \A i \in 1..Len(s7) : s[i] = s7[i]
    <2> DEFINE a == <<w>>
    <2>1. a \in Seq(Elements) /\ Len(a) = 1 /\ s7 \in Seq(Elements) /\ s = s7 \o a
      BY <1>12, <1>20, <1>27 DEF Headed
    <2> HIDE DEF a
    <2>2. /\ Len(s7 \o a) = Len(s7) + Len(a)
          /\ \A i \in 1..(Len(s7) + Len(a)) : (s7 \o a)[i] =
                 IF i <= Len(s7) THEN s7[i] ELSE a[i - Len(s7)]
      BY <2>1, ConcatProperties
    <2>3. Len(s) = Len(s7) + 1 /\ \A i \in 1..(Len(s7) + 1) : s[i] =
                 IF i <= Len(s7) THEN s7[i] ELSE a[i - Len(s7)]
      BY <2>1, <2>2
    <2> HIDE DEF a
    <2> QED BY <2>3, <1>27
  <1>30. \A e : Contains(s7, e) => \E i \in 1..Len(s) : s[i] = e
    BY <1>27, <1>29 DEF Contains
  <1>31. ASSUME NEW b \in r.steps PROVE \E i \in 1..Len(s) : s[i].then = Undoing(b)
    <2>1. b \in {"sysctls", "link", "up", "routes", "fw", "rule"}
      BY <1>5 DEF StepBits
    <2>2. CASE b = "rule"
      <3>1. Contains(p2, e2)
        BY <2>2, <1>17
      <3>2. Contains(s7, e2)
        BY <3>1, <1>22, <1>23, <1>24, <1>25, <1>26, <1>27
      <3> QED BY <2>2, <3>2, <1>8, <1>30
    <2>3. CASE b = "up"
      <3>1. Contains(p3, e3)
        BY <2>3, <1>17
      <3>2. Contains(s7, e3)
        BY <3>1, <1>23, <1>24, <1>25, <1>26, <1>27
      <3> QED BY <2>3, <3>2, <1>8, <1>30
    <2>4. CASE b = "sysctls"
      <3>1. Contains(p4, e4)
        BY <2>4, <1>17
      <3>2. Contains(s7, e4)
        BY <3>1, <1>24, <1>25, <1>26, <1>27
      <3> QED BY <2>4, <3>2, <1>8, <1>30
    <2>5. CASE b = "fw"
      <3>1. Contains(p5, e5)
        BY <2>5, <1>17
      <3>2. Contains(s7, e5)
        BY <3>1, <1>25, <1>26, <1>27
      <3> QED BY <2>5, <3>2, <1>8, <1>30
    <2>6. CASE b = "routes"
      <3>1. Contains(p6, e6)
        BY <2>6, <1>17
      <3>2. Contains(s7, e6)
        BY <3>1, <1>26, <1>27
      <3> QED BY <2>6, <3>2, <1>8, <1>30
    <2>7. CASE b = "link"
      <3>1. Contains(p7, e7)
        BY <2>7, <1>17
      <3>2. Contains(s7, e7)
        BY <3>1, <1>27
      <3> QED BY <2>7, <3>2, <1>8, <1>30
    <2> QED BY <2>1, <2>2, <2>3, <2>4, <2>5, <2>6, <2>7
  <1>32. ASSUME r.cand # None
         PROVE  /\ 2 \in 1..Len(s) /\ Removing(s[2], r.cand.table)
                /\ \E i \in 1..Len(s) : s[i].op = "drop_candidate"
    <2>1. 4 <= Len(s1) /\ s1[2] = x1 /\ s1[4] = x3
      BY <1>21, <1>32
    <2>2. s2[2] = x1 /\ s2[4] = x3 /\ 4 <= Len(s2)
      BY <2>1, <1>21, <1>22
    <2>3. s3[2] = x1 /\ s3[4] = x3 /\ 4 <= Len(s3)
      BY <2>2, <1>22, <1>23
    <2>4. s4[2] = x1 /\ s4[4] = x3 /\ 4 <= Len(s4)
      BY <2>3, <1>23, <1>24
    <2>5. s5[2] = x1 /\ s5[4] = x3 /\ 4 <= Len(s5)
      BY <2>4, <1>24, <1>25
    <2>6. s6[2] = x1 /\ s6[4] = x3 /\ 4 <= Len(s6)
      BY <2>5, <1>25, <1>26
    <2>7. s7[2] = x1 /\ s7[4] = x3 /\ 4 <= Len(s7)
      BY <2>6, <1>26, <1>27
    <2>8. s[2] = x1 /\ s[4] = x3 /\ 2 \in 1..Len(s) /\ 4 \in 1..Len(s)
      BY <2>7, <1>27, <1>29
    <2> QED BY <2>8, <1>10, <1>11, <1>32 DEF Removing
  <1> QED BY <1>2, <1>4, <1>15, <1>28, <1>31, <1>32 DEF r, v, w, C

\* A step is undone by an element that clears its bit once it has succeeded, or
\* by the clearing itself.
Undone(s, b) ==
    \E i \in 1..Len(s) : \/ s[i].then = Undoing(b)
                         \/ s[i].op = "clear_step" /\ s[i].r = b

\* A recovery that goes through leaves no record or one that is not RollingBack:
\* it is refused, it ends by writing such a record, or it is a clean-up that
\* undoes every step and drops every candidate of the record it works on.
Recovers(s, m, err) ==
    \/ s = <<>> /\ (err \/ m = None \/ m.phase # "RollingBack")
    \/ s # <<>> /\ s[1].op = "reject"
    \/ /\ s # <<>> /\ s[Len(s)].op \in RecordWrites /\ s[Len(s)].catch = "return"
       /\ s[Len(s)].r.phase # "RollingBack"
    \/ /\ InCleanup(s)
       /\ \/ err
          \/ /\ \A b \in Ambient(s, m).steps : Undone(s, b)
             /\ Ambient(s, m).cand # None =>
                    \E i \in 1..Len(s) : s[i].op = "drop_candidate"

\* cleanup_record as a script.
LEMMA CleanupScripted ==
    ASSUME NEW m, SoundRecord(m), NEW n, n # None, NEW prev
    PROVE  /\ Scripted(Cleanup(m), n, prev) /\ OwnedBy(Cleanup(m), m.owner.proc)
           /\ Recovers(Cleanup(m), n, FALSE)
  <1> DEFINE r == [m EXCEPT !.phase = "RollingBack"]
             s == Cleanup(m)
             C == Cleaning(r)
             v == Store(r, "return")
             w == Call("clear", None, None, "soft")
  <1>1. /\ SoundRecord(r) /\ r.owner = m.owner /\ r.phase = "RollingBack"
        /\ Enclosed(s, v, C, w)
        /\ \A b \in r.steps : \E i \in 1..Len(s) : s[i].then = Undoing(b)
        /\ r.cand # None => \E i \in 1..Len(s) : s[i].op = "drop_candidate"
    BY CleanupForm
  <1> HIDE DEF r, s
  <1>2. r # None
    BY <1>1, NoneAssumption DEF SoundRecord
  <1>3. /\ Ordinary(v) /\ v.op = "store" /\ v.r = r /\ v.catch = "return"
        /\ v \in Elements /\ v.then = <<>>
    BY <1>1, StoreOrdinary DEF Ordinary
  <1>4. /\ w.op = "clear" /\ w.catch = "soft" /\ w.then = <<>>
    BY DEF Call
  <1>5. WellFormed(w)
    <2>1. "clear" \in Operations /\ "soft" \in Catches
      BY DEF Operations, Cleaners, Catches, Quiet
    <2> HIDE DEF w
    <2> QED BY <1>4, <2>1 DEF WellFormed, KernelCalls, RecordWrites, Cleaners
  <1>6. \A e \in C : /\ WellFormed(e) /\ e.catch = "soft" /\ e.op \notin RecordWrites
                     /\ e.op \notin {"clear", "clear_step", "reject", "prepare_firewall",
                                     "replace_firewall", "prepare_sysctls"}
    BY DEF Cleaning
  <1> HIDE DEF v, w, C
  <1>7. /\ s \in Seq(Elements) /\ Len(s) \in Nat \ {0, 1} /\ s # <<>>
        /\ s[1] = v /\ s[Len(s)] = w
        /\ \A i \in 1..Len(s) : \/ i = 1 /\ s[i] = v
                                \/ i > 1 /\ i < Len(s) /\ s[i] \in C
                                \/ i > 1 /\ i = Len(s) /\ s[i] = w
    BY <1>1 DEF Enclosed
  <1>8. \A i \in 1..Len(s) :
            /\ WellFormed(s[i]) /\ s[i].catch \in {"soft", "return"}
            /\ s[i].op = "clear" => i = Len(s)
            /\ s[i].op \in RecordWrites => i = 1 /\ s[i] = v
            /\ s[i].op \notin {"clear_step", "reject", "prepare_firewall", "adopt",
                               "replace_firewall", "prepare_sysctls"}
    BY <1>3, <1>4, <1>5, <1>6, <1>7 DEF Ordinary, RecordWrites, Cleaners
  <1>9. Shape(s, n)
    BY <1>3, <1>7, <1>8 DEF Shape, IsWrite
  <1>10. InCleanup(s) /\ Ambient(s, n) = r
    BY <1>3, <1>4, <1>7 DEF InCleanup, Ambient
  <1>11. CleanupShape(s, n)
    BY <1>1, <1>2, <1>3, <1>8, <1>10 DEF CleanupShape, RecordWrites
  <1>12. Catchable(s, n, prev)
    BY <1>8 DEF Catchable, Drops, Restores
  <1>13. OwnedBy(s, m.owner.proc)
    BY <1>1, <1>3, <1>8 DEF OwnedBy, IsWrite
  <1>14. Recovers(s, n, FALSE)
    BY <1>1, <1>10 DEF Recovers, Undone
  <1> QED BY <1>9, <1>11, <1>12, <1>13, <1>14 DEF Scripted, s

\* A recovery that is refused.
LEMMA RejectRecovers ==
    \A m : Recovers(Reject, m, FALSE)
  <1>1. Reject # <<>> /\ Reject[1].op = "reject"
    BY DEF Reject, Call
  <1> QED BY <1>1 DEF Recovers

\* The handlers whose script ends in one write, and the refusal of them.
LEMMA QuietStore ==
    ASSUME NEW s, NEW x, SoundRecord(x), Tailed(s, Calls(Quiet), Store(x, "return")),
           NEW m, m # None, NEW prev
    PROVE  /\ Scripted(s, m, prev) /\ OwnedBy(s, x.owner.proc)
           /\ x.phase # "RollingBack" => Recovers(s, m, FALSE)
  <1> DEFINE w == Store(x, "return")
  <1>1. Ordinary(w) /\ IsWrite(w) /\ w.catch = "return" /\ w.r = x
    BY StoreOrdinary
  <1>2. Tailed(s, Calls(Quiet), w)
    OBVIOUS
  <1> HIDE DEF w
  <1>3. w.catch \in Quiet
    BY <1>1 DEF Quiet
  <1>4. Scripted(s, m, prev)
    BY <1>1, <1>2, <1>3, TailedScripted
  <1>5. OwnedBy(s, w.r.owner.proc)
    BY <1>2, TailedOwned
  <1>6. s # <<>> /\ s[Len(s)] = w
    BY <1>2 DEF Tailed
  <1> QED BY <1>1, <1>4, <1>5, <1>6 DEF Recovers, IsWrite

\* The handlers, each with the script it is shown to be.
LEMMA RollbackScripted ==
    ASSUME OptRecord(mem), NEW o \in LeaseOwners, NEW prev
    PROVE  /\ Scripted(Rollback(o), mem, prev)
           /\ mem # None /\ Rollback(o) # Reject => OwnedBy(Rollback(o), mem.owner.proc)
  <1>1. CASE Rollback(o) = Reject
    BY <1>1, RejectScripted
  <1>2. CASE Rollback(o) # Reject /\ Staged(mem)
    <2>1. Rollback(o) = DiscardCandidate(mem) /\ SoundRecord(mem) /\ HasCandidate(mem)
      BY <1>2 DEF Rollback, OptRecord, HasCandidate, Staged
    <2> DEFINE x == WithoutCandidate(mem, "Active")
    <2>2. /\ SoundRecord(x) /\ x.owner = mem.owner
          /\ Tailed(DiscardCandidate(mem), Calls(Quiet), Store(x, "return"))
      BY <2>1, DiscardForm
    <2> HIDE DEF x
    <2>3. mem # None
      BY <1>2 DEF Staged
    <2>4. /\ Scripted(DiscardCandidate(mem), mem, prev)
          /\ OwnedBy(DiscardCandidate(mem), x.owner.proc)
      BY <2>2, <2>3, QuietStore
    <2> QED BY <2>1, <2>2, <2>4
  <1>3. CASE Rollback(o) # Reject /\ ~Staged(mem)
    <2>1. Rollback(o) = Cleanup(mem) /\ SoundRecord(mem) /\ mem # None
      BY <1>3 DEF Rollback, OptRecord
    <2> QED BY <2>1, CleanupScripted
  <1> QED BY <1>1, <1>2, <1>3

LEMMA DrainScripted ==
    ASSUME OptRecord(mem), NEW o \in LeaseOwners, DrainOld(o) # Reject, NEW prev
    PROVE  /\ mem # None /\ Scripted(DrainOld(o), mem, prev)
           /\ OwnedBy(DrainOld(o), mem.owner.proc)
           /\ mem.phase = "Draining" => Recovers(DrainOld(o), mem, FALSE)
  <1>1. mem # None /\ SoundRecord(mem)
    BY DEF DrainOld, OptRecord
  <1>2. CASE mem.phase = "Active" /\ mem.cand = None
    <2>1. DrainOld(o) = <<>>
      BY <1>1, <1>2 DEF DrainOld
    <2> QED BY <1>1, <1>2, <2>1, EmptyScripted
  <1>3. CASE ~(mem.phase = "Active" /\ mem.cand = None)
    <2> DEFINE x == [WithoutCandidate(mem, "Active") EXCEPT
                         !.owner = IF mem.candOwner = None THEN o ELSE mem.candOwner,
                         !.decl = mem.cand]
    <2>1. /\ mem.phase = "Draining" /\ SameProcess(mem.owner, o)
          /\ DrainOld(o) = <<Call("remove_rule", mem.decl, None, "return"),
                             Call("remove_firewall", mem.decl, None, "return"),
                             Call("remove_routes", mem.decl, {}, "return"),
                             Store(x, "return")>>
      BY <1>1, <1>3 DEF DrainOld, SameOwner
    <2>2. /\ SoundRecord(x) /\ x.owner.proc = mem.owner.proc
          /\ Tailed(DrainOld(o), Calls(Quiet), Store(x, "return"))
      <3>1. LET y == [WithoutCandidate(mem, "Active") EXCEPT
                          !.owner = IF mem.candOwner = None THEN o ELSE mem.candOwner,
                          !.decl = mem.cand]
            IN /\ SoundRecord(y) /\ y.owner.proc = mem.owner.proc
               /\ Tailed(<<Call("remove_rule", mem.decl, None, "return"),
                           Call("remove_firewall", mem.decl, None, "return"),
                           Call("remove_routes", mem.decl, {}, "return"),
                           Store(y, "return")>>, Calls(Quiet), Store(y, "return"))
        <4>1. mem.phase = "Draining" /\ SameProcess(mem.owner, o) /\ SoundRecord(mem)
          BY <1>1, <2>1
        <4> HIDE DEF x
        <4> QED BY <4>1, DrainForm, ZenonT(60)
      <3> QED BY <2>1, <3>1
    <2>3. x.phase = "Active"
      BY <1>1 DEF WithoutCandidate, SoundRecord, Records
    <2> HIDE DEF x
    <2>4. /\ Scripted(DrainOld(o), mem, prev) /\ OwnedBy(DrainOld(o), x.owner.proc)
          /\ Recovers(DrainOld(o), mem, FALSE)
      BY <1>1, <2>2, <2>3, QuietStore
    <2> QED BY <1>1, <2>2, <2>4
  <1> QED BY <1>2, <1>3

LEMMA WithdrawScripted ==
    ASSUME OptRecord(mem), NEW o \in LeaseOwners, NEW failed \in SUBSET Prefixes,
           SetFailedPrefixes(o, failed) # Reject, NEW prev
    PROVE  /\ mem # None /\ Scripted(SetFailedPrefixes(o, failed), mem, prev)
           /\ OwnedBy(SetFailedPrefixes(o, failed), mem.owner.proc)
  <1> DEFINE x == [mem EXCEPT !.failed = failed]
             s == SetFailedPrefixes(o, failed)
  <1>1. /\ mem # None /\ SoundRecord(mem) /\ mem.phase \in {"Active", "Suspended"}
        /\ s = <<Call("reconcile_routes", mem.decl, failed, "return")>>
               \o When(mem.phase = "Active",
                       <<Call("install_rule", mem.decl, None, "return")>>)
               \o <<Store(x, "return")>>
    BY DEF SetFailedPrefixes, OptRecord
  <1>2. /\ SoundRecord(x) /\ x.owner = mem.owner
        /\ Tailed(s, Calls(Quiet), Store(x, "return"))
    BY <1>1, WithdrawForm
  <1>3. mem # None
    BY <1>1
  <1> HIDE DEF x, s
  <1>4. Scripted(s, mem, prev) /\ OwnedBy(s, x.owner.proc)
    BY <1>2, <1>3, QuietStore
  <1> QED BY <1>2, <1>3, <1>4 DEF s

LEMMA RenewScripted ==
    ASSUME OptRecord(mem), NEW o \in LeaseOwners, RenewLease(o) # Reject, NEW prev
    PROVE  /\ mem # None /\ Scripted(RenewLease(o), mem, prev)
           /\ OwnedBy(RenewLease(o), mem.owner.proc)
  <1> DEFINE x == [mem EXCEPT !.owner.lease = o.lease]
             s == RenewLease(o)
  <1>1. mem # None /\ SoundRecord(mem) /\ s = <<Store(x, "return")>>
    BY DEF RenewLease, OptRecord
  <1>2. /\ SoundRecord(x) /\ x.owner.proc = mem.owner.proc
        /\ Tailed(s, Calls(Quiet), Store(x, "return"))
    BY <1>1, RenewForm
  <1> HIDE DEF x, s
  <1>3. Scripted(s, mem, prev) /\ OwnedBy(s, x.owner.proc)
    BY <1>1, <1>2, QuietStore
  <1> QED BY <1>1, <1>2, <1>3 DEF s

LEMMA MtuScripted ==
    ASSUME OptRecord(mem), NEW o \in LeaseOwners, NEW mtu \in Nat,
           UpdateMtu(o, mtu) # Reject, NEW prev
    PROVE  /\ mem # None /\ Scripted(UpdateMtu(o, mtu), mem, prev)
           /\ OwnedBy(UpdateMtu(o, mtu), mem.owner.proc)
  <1> DEFINE x == [mem EXCEPT !.decl.mtu = mtu]
             s == UpdateMtu(o, mtu)
  <1>1. /\ mem # None /\ SoundRecord(mem) /\ mem.phase = "Active"
        /\ s = <<Call("update_mtu", mem.decl, mtu, "return"), Store(x, "return")>>
    BY DEF UpdateMtu, OptRecord
  <1>2. /\ SoundRecord(x) /\ x.owner = mem.owner
        /\ Tailed(s, Calls(Quiet), Store(x, "return"))
    BY <1>1, MtuForm
  <1> HIDE DEF x, s
  <1>3. Scripted(s, mem, prev) /\ OwnedBy(s, x.owner.proc)
    BY <1>1, <1>2, QuietStore
  <1> QED BY <1>1, <1>2, <1>3 DEF s

\* recover_orphan's choice of a script.
LEMMA RecoverScripted ==
    ASSUME SoundRecord(mem), NEW prev
    PROVE  /\ Scripted(RecoverScript(mem), mem, prev)
           /\ OwnedBy(RecoverScript(mem), mem.owner.proc)
           /\ Recovers(RecoverScript(mem), mem, FALSE)
  <1>1. mem # None /\ mem \in Records
    BY NoneAssumption DEF SoundRecord
  <1>2. CASE PolicyIntent(mem) /\ mem.candOwner = mem.owner
    <2> DEFINE x == [mem EXCEPT !.cand = None, !.candOwner = None,
                         !.phase = IF "rule" \in mem.steps THEN "Active" ELSE "Suspended"]
               C == {e \in Calls(Quiet) : e.op # "prepare_firewall"}
               w == Adopt(x, "return")
               s == RecoverPolicyUpdate(mem)
    <2>1. RecoverScript(mem) = s
      <3>1. ~Staged(mem) /\ mem.phase # "Draining"
        BY <1>2 DEF PolicyIntent, Staged
      <3> QED BY <1>2, <3>1 DEF RecoverScript
    <2>2. SoundRecord(x) /\ x.owner = mem.owner /\ Tailed(s, C, w)
      BY <1>2, RecoverPolicyForm, ZenonT(60)
    <2>3. x.phase # "RollingBack"
      BY <1>1 DEF Records
    <2> HIDE DEF x, s
    <2>4. Ordinary(w) /\ IsWrite(w) /\ w.catch = "return" /\ w.r = x
      BY <2>2, AdoptOrdinary
    <2>5. w.catch \in Quiet /\ C \subseteq Calls(Quiet)
      BY <2>4 DEF Quiet
    <2> HIDE DEF w, C
    <2>6. Tailed(s, Calls(Quiet), w)
      BY <2>2, <2>5, FormMonotonic
    <2>7. Scripted(s, mem, prev)
      BY <1>1, <2>4, <2>5, <2>6, TailedScripted
    <2>8. OwnedBy(s, w.r.owner.proc)
      BY <2>6, TailedOwned
    <2>9. s # <<>> /\ s[Len(s)] = w
      BY <2>6 DEF Tailed
    <2>10. Recovers(s, mem, FALSE)
      BY <2>3, <2>4, <2>9 DEF Recovers, IsWrite
    <2> QED BY <2>1, <2>2, <2>4, <2>7, <2>8, <2>10
  <1>3. CASE ~(PolicyIntent(mem) /\ mem.candOwner = mem.owner) /\ Staged(mem)
    <2>1. RecoverScript(mem) = DiscardCandidate(mem) /\ HasCandidate(mem)
      BY <1>3 DEF RecoverScript, HasCandidate, Staged
    <2> DEFINE x == WithoutCandidate(mem, "Active")
    <2>2. /\ SoundRecord(x) /\ x.owner = mem.owner
          /\ Tailed(DiscardCandidate(mem), Calls(Quiet), Store(x, "return"))
      BY <2>1, DiscardForm
    <2>3. x.phase = "Active"
      BY <1>1 DEF WithoutCandidate, Records
    <2> HIDE DEF x
    <2>4. /\ Scripted(DiscardCandidate(mem), mem, prev)
          /\ OwnedBy(DiscardCandidate(mem), x.owner.proc)
          /\ Recovers(DiscardCandidate(mem), mem, FALSE)
      BY <1>1, <2>2, <2>3, QuietStore
    <2> QED BY <2>1, <2>2, <2>4
  <1>4. CASE /\ ~(PolicyIntent(mem) /\ mem.candOwner = mem.owner) /\ ~Staged(mem)
             /\ mem.phase = "Draining"
    <2> DEFINE o == IF mem.candOwner = None THEN mem.owner ELSE mem.candOwner
    <2>1. RecoverScript(mem) = DrainOld(o)
      BY <1>4 DEF RecoverScript
    <2>2. o \in LeaseOwners
      BY <1>1 DEF Records
    <2> HIDE DEF o
    <2>3. CASE DrainOld(o) = Reject
      BY <2>1, <2>3, RejectScripted, RejectRecovers
    <2>4. CASE DrainOld(o) # Reject
      BY <1>4, <2>1, <2>2, <2>4, DrainScripted DEF OptRecord
    <2> QED BY <2>3, <2>4
  <1>5. CASE /\ ~(PolicyIntent(mem) /\ mem.candOwner = mem.owner) /\ ~Staged(mem)
             /\ mem.phase # "Draining"
    <2>1. RecoverScript(mem) = Cleanup(mem)
      BY <1>5 DEF RecoverScript
    <2> QED BY <1>1, <2>1, CleanupScripted
  <1> QED BY <1>2, <1>3, <1>4, <1>5

\* The record in memory when the first element of a script has failed.
Remaining(s, m) == IF s[1].op = "store" THEN s[1].r ELSE m

\* The error branches are scripts of the record they find.
LEMMA CaughtScripted ==
    ASSUME NEW s, NEW m, NEW prev, OptRecord(m), OptRecord(prev), Scripted(s, m, prev),
           s # <<>>
    PROVE  LET n == Remaining(s, m)
               c == Caught(s[1].catch, n, prev)
           IN /\ Scripted(c, n, prev)
              /\ \A p : (/\ n # None => n.owner.proc = p
                         /\ prev # None => prev.owner.proc = p) => OwnedBy(c, p)
  <1> DEFINE n == Remaining(s, m)
             c == Caught(s[1].catch, n, prev)
  <1>1. /\ s \in Seq(Elements) /\ Len(s) \in Nat \ {0} /\ 1 \in 1..Len(s)
    BY EmptySeq DEF Scripted, Shape
  <1>2. WellFormed(s[1]) /\ s[1].catch \in Catches
    BY <1>1 DEF Scripted, Shape, WellFormed
  <1>3. s[1].op = "store" => SoundRecord(s[1].r)
    BY <1>2 DEF WellFormed, RecordWrites
  <1>4. OptRecord(n)
    BY <1>3 DEF Remaining, OptRecord
  <1>5. SoundRecord(n) => n # None
    BY NoneAssumption DEF SoundRecord
  <1>6. CASE s[1].catch = "cleanup"
    <2>1. m # None
      BY <1>6 DEF Scripted, Shape
    <2>2. SoundRecord(n)
      BY <1>3, <2>1 DEF Remaining, OptRecord
    <2>3. c = Cleanup(n)
      BY <1>6 DEF Caught
    <2> HIDE DEF n, c
    <2>4. Scripted(Cleanup(n), n, prev) /\ OwnedBy(Cleanup(n), n.owner.proc)
      BY <1>5, <2>2, CleanupScripted
    <2>5. Scripted(c, n, prev) /\ OwnedBy(c, n.owner.proc) /\ n # None
      BY <1>5, <2>2, <2>3, <2>4
    <2> QED BY <2>5 DEF n, c
  <1>7. CASE s[1].catch \in Drops
    <2>1. HasCandidate(n)
      BY <1>1, <1>7 DEF Scripted, Catchable, Remaining
    <2>2. SoundRecord(n)
      BY <1>4, <2>1 DEF OptRecord, HasCandidate
    <2>3. c = DropActivation(n) \/ c = DropCandidate(n)
      BY <1>7 DEF Caught, Drops
    <2> HIDE DEF n, c
    <2> DEFINE x == WithoutCandidate(n, "Active")
               w == Store(x, "ignore")
    <2>4. /\ SoundRecord(x) /\ x.owner = n.owner
          /\ Tailed(DropCandidate(n), Calls(Quiet), w)
          /\ Tailed(DropActivation(n), Calls(Quiet), w)
      BY <2>1, <2>2, DiscardForm
    <2> HIDE DEF x
    <2>5. Ordinary(w) /\ IsWrite(w) /\ w.catch = "ignore" /\ w.r = x
      BY <2>4, StoreOrdinary
    <2> HIDE DEF w
    <2>6. Tailed(c, Calls(Quiet), w) /\ w.catch \in Quiet
      BY <2>3, <2>4, <2>5 DEF Quiet
    <2>7. Scripted(c, n, prev)
      BY <1>5, <2>2, <2>5, <2>6, TailedScripted
    <2>8. OwnedBy(c, w.r.owner.proc)
      BY <2>6, TailedOwned
    <2>9. Scripted(c, n, prev) /\ OwnedBy(c, n.owner.proc) /\ n # None
      BY <1>5, <2>2, <2>4, <2>5, <2>7, <2>8
    <2> QED BY <2>9 DEF n, c
  <1>8. CASE s[1].catch \in Restores
    <2>1. Intent(n, prev) /\ prev # None
      BY <1>1, <1>8 DEF Scripted, Catchable, Remaining
    <2>2. SoundRecord(n) /\ SoundRecord(prev) /\ n.cand # None
      BY <1>4, <2>1 DEF OptRecord, Intent
    <2>3. c = RestoreSuspended(n, prev) \/ c = RestorePolicy(n, prev)
      BY <1>8 DEF Caught, Restores
    <2> HIDE DEF n, c
    <2> DEFINE w == Adopt(prev, "return")
    <2>4. Tailed(c, Calls(Quiet), w)
      <3> DEFINE C == {e \in Calls(Quiet) : e.op # "prepare_firewall"}
      <3>1. /\ Tailed(RestoreSuspended(n, prev), Calls(Quiet), w)
            /\ Tailed(RestorePolicy(n, prev), C, w)
        BY <2>2, RestoreForm
      <3>2. C \subseteq Calls(Quiet)
        OBVIOUS
      <3> HIDE DEF C, w
      <3>3. Tailed(RestorePolicy(n, prev), Calls(Quiet), w)
        BY <3>1, <3>2, FormMonotonic
      <3> QED BY <2>3, <3>1, <3>3
    <2>5. Ordinary(w) /\ IsWrite(w) /\ w.catch = "return" /\ w.r = prev
      BY <2>2, AdoptOrdinary
    <2> HIDE DEF w
    <2>6. w.catch \in Quiet
      BY <2>5 DEF Quiet
    <2>7. Scripted(c, n, prev)
      BY <1>5, <2>2, <2>4, <2>5, <2>6, TailedScripted
    <2>8. OwnedBy(c, w.r.owner.proc)
      BY <2>4, TailedOwned
    <2>9. Scripted(c, n, prev) /\ OwnedBy(c, prev.owner.proc) /\ prev # None
      BY <2>1, <2>5, <2>7, <2>8
    <2> QED BY <2>9 DEF n, c
  <1>9. CASE s[1].catch \in Quiet
    <2>1. c = <<>>
      BY <1>9 DEF Caught, Quiet
    <2> HIDE DEF n, c
    <2>2. Scripted(c, n, prev) /\ \A p : OwnedBy(c, p)
      BY <2>1, EmptyScripted
    <2> QED BY <2>2 DEF n, c
  <1> QED BY <1>2, <1>6, <1>7, <1>8, <1>9 DEF Catches

-----------------------------------------------------------------------------
(* One step of a script                                                    *)

\* The first element is over and the record in memory is n: it is not a write,
\* or its failure ends the script; it is the record written; or a clean-up has
\* cleared a step, dropped the candidate or removed the record.
Passes(s, m, n) ==
    \/ n = m /\ (~IsWrite(s[1]) \/ Len(s) = 1)
    \/ n = s[1].r /\ IsWrite(s[1])
    \/ s[1].op = "clear_step" /\ n = [m EXCEPT !.steps = @ \ {s[1].r}]
    \/ s[1].op = "drop_candidate" /\ n = [m EXCEPT !.cand = None, !.candOwner = None]
    \/ s[1].op = "clear" /\ n = None

\* The same without an error to report.
Smooth(s, m, n) ==
    \/ /\ n = m /\ ~IsWrite(s[1]) /\ s[1].then = <<>>
       /\ s[1].op \notin {"drop_candidate", "clear_step", "reject"}
       /\ s[1].op = "clear" => m.steps # {} \/ m.cand # None
    \/ n = m /\ IsWrite(s[1]) /\ s[1].catch = "ignore"
    \/ n = s[1].r /\ IsWrite(s[1])
    \/ s[1].op = "clear_step" /\ n = [m EXCEPT !.steps = @ \ {s[1].r}]
    \/ s[1].op = "drop_candidate" /\ n = [m EXCEPT !.cand = None, !.candOwner = None]
    \/ s[1].op = "clear" /\ n = None

\* The record in memory is sound after every step.
LEMMA PassesSound ==
    ASSUME NEW s, NEW m, NEW prev, NEW n, Scripted(s, m, prev), s # <<>>,
           OptRecord(m), Passes(s, m, n)
    PROVE  /\ OptRecord(n)
           /\ s[1].op \in {"clear_step", "drop_candidate"} => m # None
           /\ n # None /\ m # None /\ ~IsWrite(s[1]) =>
                  n.owner = m.owner /\ n.phase = m.phase /\ n.decl = m.decl
           /\ n = None => Tail(s) = <<>>
  <1>1. s \in Seq(Elements) /\ Len(s) \in Nat \ {0} /\ 1 \in 1..Len(s)
    BY EmptySeq DEF Scripted, Shape
  <1>2. Len(Tail(s)) = Len(s) - 1 /\ Tail(s) \in Seq(Elements)
    BY <1>1, TailScript
  <1>3. Len(s) = 1 => Tail(s) = <<>>
    <2> DEFINE t == Tail(s)
    <2>1. t \in Seq(Elements) /\ Len(t) = Len(s) - 1
      BY <1>2
    <2> HIDE DEF t
    <2>2. Len(s) = 1 => t = <<>>
      BY <2>1, EmptySeq
    <2> QED BY <2>2 DEF t
  <1>4. /\ WellFormed(s[1]) /\ s[1].op \in Operations
        /\ s[1].op \in {"reject", "clear"} => Len(s) = 1
        /\ m = None => s[1].op \in {"adopt", "reject"}
    BY <1>1 DEF Scripted, Shape, WellFormed
  <1>5. s[1].op \in {"clear_step", "drop_candidate"} => InCleanup(s)
    BY <1>1 DEF Scripted, CleanupShape, Cleaners
  <1>6. s[1].op \in {"clear_step", "drop_candidate"} =>
            /\ m # None /\ SoundRecord(m) /\ m.phase = "RollingBack"
    BY <1>4, <1>5 DEF Scripted, CleanupShape, Ambient, OptRecord
  <1>7. IsWrite(s[1]) => SoundRecord(s[1].r) /\ s[1].r # None
    BY <1>4, NoneAssumption DEF IsWrite, WellFormed, SoundRecord
  <1>8. CASE n = m /\ (~IsWrite(s[1]) \/ Len(s) = 1)
    BY <1>3, <1>4, <1>6, <1>8 DEF IsWrite, RecordWrites
  <1>9. CASE n = s[1].r /\ IsWrite(s[1])
    BY <1>7, <1>9 DEF OptRecord, IsWrite, RecordWrites
  <1>10. CASE s[1].op = "clear_step" /\ n = [m EXCEPT !.steps = @ \ {s[1].r}]
    <2>1. m \in Records /\ m.phase = "RollingBack"
      BY <1>6, <1>10 DEF SoundRecord
    <2>2. /\ n \in Records /\ n.owner = m.owner /\ n.decl = m.decl /\ n.cand = m.cand
          /\ n.candOwner = m.candOwner /\ n.phase = m.phase
      BY <1>10, <2>1 DEF Records
    <2>3. SoundRecord(n) /\ n # None
      BY <1>6, <1>10, <2>1, <2>2, NoneAssumption DEF SoundRecord, Staged
    <2> QED BY <1>6, <1>10, <2>2, <2>3 DEF OptRecord
  <1>11. CASE s[1].op = "drop_candidate" /\ n = [m EXCEPT !.cand = None, !.candOwner = None]
    <2>1. m \in Records /\ m.phase = "RollingBack"
      BY <1>6, <1>11 DEF SoundRecord
    <2>2. /\ n \in Records /\ n.owner = m.owner /\ n.decl = m.decl /\ n.cand = None
          /\ n.candOwner = None /\ n.phase = m.phase
      BY <1>11, <2>1 DEF Records
    <2>3. SoundRecord(n) /\ n # None
      BY <1>6, <1>11, <2>1, <2>2, NoneAssumption DEF SoundRecord, Staged
    <2> QED BY <1>6, <1>11, <2>2, <2>3 DEF OptRecord
  <1>12. CASE s[1].op = "clear" /\ n = None
    BY <1>3, <1>4, <1>12 DEF OptRecord
  <1> QED BY <1>8, <1>9, <1>10, <1>11, <1>12 DEF Passes

\* The rest of a script is a script.
LEMMA TailScripted ==
    ASSUME NEW s, NEW m, NEW prev, NEW n, Scripted(s, m, prev), s # <<>>,
           OptRecord(m), Passes(s, m, n)
    PROVE  Scripted(Tail(s), n, prev)
  <1> DEFINE t == Tail(s)
  <1>1. s \in Seq(Elements) /\ Len(s) \in Nat \ {0} /\ 1 \in 1..Len(s)
    BY EmptySeq DEF Scripted, Shape
  <1>2. /\ Len(t) = Len(s) - 1 /\ t \in Seq(Elements)
        /\ \A i \in 1..Len(t) : t[i] = s[i + 1] /\ i + 1 \in 1..Len(s)
    <2>1. /\ Len(t) = Len(s) - 1 /\ t \in Seq(Elements)
          /\ \A i \in 1..(Len(s) - 1) : t[i] = s[i + 1]
      BY <1>1, TailScript
    <2> QED BY <1>1, <2>1
  <1>3. n = None => t = <<>>
    BY PassesSound
  <1> HIDE DEF t
  <1>4. CASE t = <<>>
    BY <1>4, EmptyScripted DEF t
  <1>5. CASE t # <<>>
    <2>1. Len(t) \in Nat \ {0} /\ Len(s) > 1 /\ 1 \in 1..Len(t) /\ t[1] = s[2]
      BY <1>1, <1>2, <1>5, EmptySeq
    <2>2. n # None /\ s[1].op \notin {"reject", "clear"}
      BY <1>1, <1>3, <1>5, <2>1 DEF Scripted, Shape
    <2>3. Shape(t, n)
      <3>1. \A i \in 1..Len(s) :
                /\ WellFormed(s[i])
                /\ s[i].op = "reject" => Len(s) = 1
                /\ s[i].op = "clear" => i = Len(s)
                /\ IsWrite(s[i]) /\ s[i].catch = "ignore" => i = Len(s)
        BY DEF Scripted, Shape
      <3>2. ASSUME NEW i \in 1..Len(t)
            PROVE  /\ WellFormed(t[i])
                   /\ t[i].op = "reject" => Len(t) = 1
                   /\ t[i].op = "clear" => i = Len(t)
                   /\ IsWrite(t[i]) /\ t[i].catch = "ignore" => i = Len(t)
        <4>1. t[i] = s[i + 1] /\ i + 1 \in 1..Len(s) /\ (i + 1 = Len(s) <=> i = Len(t))
          BY <1>1, <1>2, <2>1
        <4> QED BY <3>1, <4>1, <2>1
      <3> QED BY <1>2, <2>2, <3>2 DEF Shape
    <2>4. InCleanup(t) <=> InCleanup(s)
      BY <1>1, <1>2, <1>5, <2>1 DEF InCleanup
    <2>5. \A i \in 1..Len(s) : s[i].op \in Cleaners \/ s[i].then # <<>> => InCleanup(s)
      BY DEF Scripted, CleanupShape
    <2>6. CASE InCleanup(s)
      <3>1. /\ Ambient(s, m) # None /\ Ambient(s, m).phase = "RollingBack"
            /\ \A i \in 1..Len(s) :
                   /\ s[i].op \notin {"adopt", "prepare_firewall",
                                      "replace_firewall", "prepare_sysctls"}
                   /\ s[i].op = "store" => i = 1 /\ s[i].catch = "return"
                   /\ s[i].op = "clear_step" => i = 1
                   /\ s[i].catch \in {"soft", "return"}
        BY <2>6 DEF Scripted, CleanupShape
      <3>2. \A i \in 1..Len(t) :
                /\ t[i].op \notin {"adopt", "store", "clear_step", "prepare_firewall",
                                   "replace_firewall", "prepare_sysctls"}
                /\ t[i].catch \in {"soft", "return"}
        <4> SUFFICES ASSUME NEW i \in 1..Len(t)
                     PROVE  /\ t[i].op \notin {"adopt", "store", "clear_step",
                                   "prepare_firewall", "replace_firewall", "prepare_sysctls"}
                            /\ t[i].catch \in {"soft", "return"}
          OBVIOUS
        <4>1. t[i] = s[i + 1] /\ i + 1 \in 1..Len(s) /\ i + 1 # 1
          BY <1>2, <2>1
        <4> QED BY <3>1, <4>1
      <3>3. Ambient(t, n) = n
        BY <2>1, <3>2 DEF Ambient
      <3>4. n.phase = "RollingBack"
        <4>1. CASE IsWrite(s[1])
          <5>1. s[1].op = "store"
            BY <1>1, <3>1, <4>1 DEF IsWrite, RecordWrites
          <5>2. n = s[1].r
            BY <2>1, <4>1, <5>1 DEF Passes
          <5> QED BY <3>1, <5>1, <5>2 DEF Ambient
        <4>2. CASE ~IsWrite(s[1])
          <5>1. s[1].op # "store"
            BY <4>2 DEF IsWrite, RecordWrites
          <5>2. m.phase = "RollingBack" /\ m # None
            BY <3>1, <5>1 DEF Ambient
          <5> QED BY <2>2, <4>2, <5>2, PassesSound
        <4> QED BY <4>1, <4>2
      <3>5. CleanupShape(t, n)
        BY <2>2, <2>4, <2>6, <3>2, <3>3, <3>4 DEF CleanupShape
      <3>6. Catchable(t, n, prev)
        BY <3>2 DEF Catchable, Drops, Restores
      <3> QED BY <2>3, <3>5, <3>6 DEF Scripted, t
    <2>7. CASE ~InCleanup(s)
      <3>1. CleanupShape(t, n)
        BY <1>2, <2>4, <2>5, <2>7 DEF CleanupShape
      <3>2. s[1].op \notin Cleaners
        BY <1>1, <2>5, <2>7
      <3>3. \/ n = m /\ ~IsWrite(s[1])
            \/ n = s[1].r /\ IsWrite(s[1])
        BY <2>1, <3>2 DEF Passes, Cleaners
      <3>4. Catchable(s, m, prev)
        BY DEF Scripted
      <3>5. ASSUME NEW i \in 1..Len(t)
            PROVE  /\ t[i].catch = "cleanup" =>
                          /\ \A j \in 1..i : IsWrite(t[j]) => t[j].r.cand = None
                          /\ n = None \/ n.cand = None
                   /\ t[i].catch \in Drops =>
                          /\ \A j \in 1..i :
                                 /\ t[j].op # "adopt"
                                 /\ t[j].op = "store" => HasCandidate(t[j].r)
                          /\ t[1].op = "store" \/ HasCandidate(n)
                   /\ t[i].catch \in Restores =>
                          /\ prev # None /\ prev.phase \in {"Active", "Suspended"}
                          /\ t[i].op # "store"
                          /\ \A j \in 1..i :
                                 /\ t[j].op = "adopt" => j = i
                                 /\ t[j].op = "store" => Intent(t[j].r, prev)
                          /\ t[1].op = "store" \/ Intent(n, prev)
        <4>1. t[i] = s[i + 1] /\ i + 1 \in 1..Len(s) /\ 1 \in 1..(i + 1) /\ 1 # i + 1
          BY <1>2, <2>1
        <4>2. \A j \in 1..i : t[j] = s[j + 1] /\ j + 1 \in 1..(i + 1)
                              /\ (j + 1 = i + 1 => j = i)
          BY <1>2, <2>1
        <4>3. ASSUME t[i].catch = "cleanup"
              PROVE  /\ \A j \in 1..i : IsWrite(t[j]) => t[j].r.cand = None
                     /\ n = None \/ n.cand = None
          <5>1. /\ \A j \in 1..(i + 1) : IsWrite(s[j]) => s[j].r.cand = None
                /\ m = None \/ m.cand = None
            BY <3>4, <4>1, <4>3 DEF Catchable
          <5> QED BY <3>3, <4>1, <4>2, <5>1
        <4>4. ASSUME t[i].catch \in Drops
              PROVE  /\ \A j \in 1..i : /\ t[j].op # "adopt"
                                        /\ t[j].op = "store" => HasCandidate(t[j].r)
                     /\ t[1].op = "store" \/ HasCandidate(n)
          <5>1. /\ \A j \in 1..(i + 1) : /\ s[j].op # "adopt"
                                         /\ s[j].op = "store" => HasCandidate(s[j].r)
                /\ s[1].op = "store" \/ HasCandidate(m)
            BY <3>4, <4>1, <4>4 DEF Catchable
          <5>2. HasCandidate(n)
            BY <3>3, <4>1, <5>1 DEF IsWrite, RecordWrites
          <5> QED BY <4>2, <5>1, <5>2
        <4>5. ASSUME t[i].catch \in Restores
              PROVE  /\ prev # None /\ prev.phase \in {"Active", "Suspended"}
                     /\ t[i].op # "store"
                     /\ \A j \in 1..i : /\ t[j].op = "adopt" => j = i
                                        /\ t[j].op = "store" => Intent(t[j].r, prev)
                     /\ t[1].op = "store" \/ Intent(n, prev)
          <5>1. /\ prev # None /\ prev.phase \in {"Active", "Suspended"}
                /\ s[i + 1].op # "store"
                /\ \A j \in 1..(i + 1) : /\ s[j].op = "adopt" => j = i + 1
                                         /\ s[j].op = "store" => Intent(s[j].r, prev)
                /\ s[1].op = "store" \/ Intent(m, prev)
            BY <3>4, <4>1, <4>5 DEF Catchable
          <5>2. Intent(n, prev)
            BY <3>3, <4>1, <5>1 DEF IsWrite, RecordWrites
          <5> QED BY <4>1, <4>2, <5>1, <5>2
        <4> QED BY <4>3, <4>4, <4>5
      <3>6. Catchable(t, n, prev)
        BY <3>5 DEF Catchable
      <3> QED BY <2>3, <3>1, <3>6 DEF Scripted, t
    <2> QED BY <2>6, <2>7
  <1> QED BY <1>4, <1>5

\* After a removal of a clean-up has succeeded, its bit is cleared first.
LEMMA ThenScripted ==
    ASSUME NEW s, NEW m, NEW prev, Scripted(s, m, prev), s # <<>>,
           NEW b \in StepBits, s[1].then = Undoing(b)
    PROVE  LET t == Undoing(b) \o Tail(s)
               c == Call("clear_step", None, b, "soft")
           IN /\ Scripted(t, m, prev) /\ Len(t) = Len(s) /\ t[1] = c
              /\ c.op = "clear_step" /\ c.r = b /\ InCleanup(s) /\ InCleanup(t)
              /\ Ambient(t, m) = m /\ Ambient(s, m) = m /\ Len(s) \in Nat \ {0, 1}
              /\ \A i \in 2..Len(s) : t[i] = s[i]
  <1> DEFINE c == Call("clear_step", None, b, "soft")
             t == Undoing(b) \o Tail(s)
  <1>1. s \in Seq(Elements) /\ Len(s) \in Nat \ {0} /\ 1 \in 1..Len(s)
    BY EmptySeq DEF Scripted, Shape
  <1>2. c.op = "clear_step" /\ c.r = b /\ c.catch = "soft" /\ c.then = <<>>
    BY DEF Call
  <1>3. /\ "clear_step" \in Operations /\ "soft" \in Catches /\ <<>> \in Thens
        /\ b \in Arguments
    BY DEF Operations, Cleaners, Catches, Quiet, Thens, Arguments
  <1>4. c \in Elements
    BY <1>3 DEF Elements, Call
  <1>5. t = <<c>> \o Tail(s) /\ s[1].then # <<>>
    BY DEF Undoing
  <1> HIDE DEF c
  <1>6. WellFormed(c)
    BY <1>2, <1>3 DEF WellFormed, KernelCalls, RecordWrites, Cleaners
  <1>7. t \in Seq(Elements) /\ Len(t) = Len(s) /\ t[1] = c /\ \A i \in 2..Len(s) : t[i] = s[i]
    <2> DEFINE a == <<c>> \o Tail(s)
    <2>1. a \in Seq(Elements) /\ Len(a) = Len(s) /\ a[1] = c /\ \A i \in 2..Len(s) : a[i] = s[i]
      BY <1>1, <1>4, ThenScript
    <2>2. t = a
      BY <1>5
    <2> HIDE DEF a, t
    <2> QED BY <2>1, <2>2
  <1> HIDE DEF t
  <1>8. WellFormed(s[1]) /\ s[1].op \in KernelCalls
    BY <1>1, <1>5 DEF Scripted, Shape, WellFormed
  <1>9. InCleanup(s) /\ s[Len(s)].op = "clear"
    BY <1>1, <1>5 DEF Scripted, CleanupShape, InCleanup
  <1>10. Len(s) # 1 /\ s[1].op \notin {"store", "adopt", "reject"}
    BY <1>8, <1>9 DEF KernelCalls
  <1>11. m # None
    BY <1>10 DEF Scripted, Shape
  <1>12. t # <<>> /\ t[Len(t)] = s[Len(s)]
    <2>1. Len(s) \in 2..Len(s)
      <3> DEFINE k == Len(s)
      <3>1. k \in Nat /\ k # 0 /\ k # 1
        BY <1>1, <1>10
      <3> HIDE DEF k
      <3>2. k \in 2..k
        BY <3>1
      <3> QED BY <3>2 DEF k
    <2> QED BY <1>1, <1>7, <2>1, EmptySeq
  <1>13. InCleanup(t) /\ Ambient(t, m) = m /\ Ambient(s, m) = m
    BY <1>2, <1>7, <1>9, <1>10, <1>12 DEF InCleanup, Ambient
  <1>14. \A i \in 1..Len(t) : (i = 1 /\ t[i] = c) \/ (i # 1 /\ i \in 1..Len(s) /\ t[i] = s[i])
    BY <1>1, <1>7
  <1>15. Shape(t, m)
    BY <1>2, <1>6, <1>7, <1>10, <1>11, <1>14 DEF Scripted, Shape, IsWrite, RecordWrites
  <1>16. CleanupShape(t, m)
    <2>1. /\ m # None /\ m.phase = "RollingBack"
          /\ \A i \in 1..Len(s) :
                 /\ s[i].op \notin {"adopt", "prepare_firewall",
                                    "replace_firewall", "prepare_sysctls"}
                 /\ s[i].op = "store" => i = 1 /\ s[i].catch = "return"
                 /\ s[i].op = "clear_step" => i = 1
                 /\ s[i].catch \in {"soft", "return"}
      BY <1>9, <1>13 DEF Scripted, CleanupShape
    <2>2. \A i \in 1..Len(t) :
              /\ t[i].op \notin {"adopt", "prepare_firewall",
                                 "replace_firewall", "prepare_sysctls"}
              /\ t[i].op = "store" => i = 1 /\ t[i].catch = "return"
              /\ t[i].op = "clear_step" => i = 1
              /\ t[i].catch \in {"soft", "return"}
      BY <1>2, <1>14, <2>1
    <2> QED BY <1>13, <2>1, <2>2 DEF CleanupShape
  <1>17. Catchable(t, m, prev)
    <2>1. \A i \in 1..Len(t) : t[i].catch \in {"soft", "return"}
      BY <1>13, <1>16 DEF CleanupShape
    <2> QED BY <2>1 DEF Catchable, Drops, Restores
  <1>18. Scripted(t, m, prev)
    BY <1>15, <1>16, <1>17 DEF Scripted
  <1>19. Len(s) \in Nat \ {0, 1}
    BY <1>1, <1>10
  <1> QED BY <1>2, <1>7, <1>9, <1>13, <1>18, <1>19 DEF t, c

\* What recovery still has to do is kept by every kind of step.
LEMMA RecoversThen ==
    ASSUME NEW s, NEW m, NEW prev, Scripted(s, m, prev), s # <<>>,
           NEW b \in StepBits, s[1].then = Undoing(b), NEW err, Recovers(s, m, err)
    PROVE  Recovers(Undoing(b) \o Tail(s), m, err)
  <1> DEFINE t == Undoing(b) \o Tail(s)
  <1>1. /\ Len(t) = Len(s) /\ t[1].op = "clear_step" /\ t[1].r = b
        /\ InCleanup(s) /\ InCleanup(t) /\ Ambient(t, m) = m /\ Ambient(s, m) = m
        /\ Len(s) \in Nat \ {0, 1} /\ \A i \in 2..Len(s) : t[i] = s[i]
    BY ThenScripted
  <1> HIDE DEF t
  <1>2. s[1].op \in KernelCalls
    <2>1. Undoing(b) # <<>> /\ 1 \in 1..Len(s)
      BY <1>1 DEF Undoing
    <2> QED BY <2>1 DEF Scripted, Shape, WellFormed
  <1>3. s[Len(s)].op = "clear"
    BY <1>1 DEF InCleanup
  <1>4. \/ err
        \/ /\ \A c \in m.steps : Undone(s, c)
           /\ m.cand # None => \E i \in 1..Len(s) : s[i].op = "drop_candidate"
    BY <1>1, <1>2, <1>3 DEF Recovers, RecordWrites, KernelCalls
  <1>5. ASSUME NEW c \in StepBits, Undone(s, c) PROVE Undone(t, c)
    <2>1. PICK i \in 1..Len(s) : \/ s[i].then = Undoing(c)
                                 \/ s[i].op = "clear_step" /\ s[i].r = c
      BY <1>5 DEF Undone
    <2>2. CASE i = 1
      <3>1. s[1].then = Undoing(c)
        BY <1>2, <2>1, <2>2 DEF KernelCalls
      <3>2. b = c
        BY <3>1, UndoingDistinct
      <3> QED BY <1>1, <2>2, <3>2 DEF Undone
    <2>3. CASE i # 1
      <3>1. t[i] = s[i]
        BY <1>1, <2>3
      <3> QED BY <1>1, <2>1, <3>1 DEF Undone
    <2> QED BY <2>2, <2>3
  <1>6. ASSUME NEW i \in 1..Len(s), s[i].op = "drop_candidate"
        PROVE  \E j \in 1..Len(t) : t[j].op = "drop_candidate"
    <2>1. i # 1
      BY <1>2, <1>6 DEF KernelCalls
    <2>2. t[i] = s[i]
      BY <1>1, <2>1
    <2> QED BY <1>1, <1>6, <2>2
  <1>7. \A c : Undone(s, c) => c \in StepBits
    <2> SUFFICES ASSUME NEW c, Undone(s, c) PROVE c \in StepBits
      OBVIOUS
    <2>1. PICK i \in 1..Len(s) : \/ s[i].then = Undoing(c)
                                 \/ s[i].op = "clear_step" /\ s[i].r = c
      BY DEF Undone
    <2>2. CASE s[i].op = "clear_step" /\ s[i].r = c
      BY <2>2 DEF Scripted, Shape, WellFormed
    <2>3. CASE s[i].then = Undoing(c)
      <3>1. s[i] \in Elements
        BY ElementOfSeq DEF Scripted, Shape
      <3>2. s[i].then \in Thens
        BY <3>1 DEF Elements
      <3>3. PICK a \in StepBits : Undoing(c) = Undoing(a)
        BY <2>3, <3>2 DEF Thens, Undoing
      <3>4. Call("clear_step", None, c, "soft") = Call("clear_step", None, a, "soft")
        BY <3>3 DEF Undoing
      <3>5. c = a
        BY <3>4 DEF Call
      <3> QED BY <3>5
    <2> QED BY <2>1, <2>2, <2>3
  <1>8. \/ err
        \/ /\ \A c \in Ambient(t, m).steps : Undone(t, c)
           /\ Ambient(t, m).cand # None => \E i \in 1..Len(t) : t[i].op = "drop_candidate"
    BY <1>1, <1>4, <1>5, <1>6, <1>7
  <1> QED BY <1>1, <1>8 DEF Recovers, t

\* The last element stays the last.
LEMMA TailLast ==
    ASSUME NEW s \in Seq(Elements), s # <<>>
    PROVE  Tail(s) # <<>> => /\ Tail(s)[Len(Tail(s))] = s[Len(s)] /\ Len(s) > 1
                             /\ InCleanup(Tail(s)) <=> InCleanup(s)
  <1> DEFINE t == Tail(s)
  <1>1. /\ Len(s) \in Nat \ {0} /\ Len(t) = Len(s) - 1 /\ t \in Seq(Elements)
        /\ \A i \in 1..(Len(s) - 1) : t[i] = s[i + 1]
    BY TailScript
  <1> HIDE DEF t
  <1>2. ASSUME t # <<>> PROVE t[Len(t)] = s[Len(s)] /\ Len(s) > 1
    <2>1. Len(t) \in 1..(Len(s) - 1) /\ Len(t) + 1 = Len(s) /\ Len(s) > 1
      BY <1>1, <1>2, EmptySeq
    <2> QED BY <1>1, <2>1
  <1>3. t # <<>> => (t[Len(t)] = s[Len(s)] /\ Len(s) > 1 /\ (InCleanup(t) <=> InCleanup(s)))
    BY <1>2 DEF InCleanup
  <1> QED BY <1>3 DEF t

\* Once an error is to be reported, what is left of a recovery does not matter.
LEMMA RecoversErr ==
    ASSUME NEW s, NEW m, NEW prev, Scripted(s, m, prev), s # <<>>, NEW err,
           Recovers(s, m, err), NEW n
    PROVE  Recovers(Tail(s), n, TRUE)
  <1>1. s \in Seq(Elements) /\ Len(s) \in Nat \ {0} /\ 1 \in 1..Len(s)
    BY EmptySeq DEF Scripted, Shape
  <1>2. CASE Tail(s) = <<>>
    BY <1>2 DEF Recovers
  <1>3. CASE Tail(s) # <<>>
    <2>1. /\ Tail(s)[Len(Tail(s))] = s[Len(s)] /\ Len(s) > 1
          /\ InCleanup(Tail(s)) <=> InCleanup(s)
      BY <1>1, <1>3, TailLast
    <2>2. s[1].op # "reject"
      BY <1>1, <2>1 DEF Scripted, Shape
    <2> QED BY <1>3, <2>1, <2>2 DEF Recovers
  <1> QED BY <1>2, <1>3

\* The same when an element has passed.
LEMMA RecoversPass ==
    ASSUME NEW s, NEW m, NEW prev, NEW n, Scripted(s, m, prev), s # <<>>, OptRecord(m),
           Recovers(s, m, FALSE), Smooth(s, m, n)
    PROVE  Recovers(Tail(s), n, FALSE)
  <1> DEFINE t == Tail(s)
  <1>1. s \in Seq(Elements) /\ Len(s) \in Nat \ {0} /\ 1 \in 1..Len(s)
    BY EmptySeq DEF Scripted, Shape
  <1>2. /\ Len(t) = Len(s) - 1 /\ t \in Seq(Elements)
        /\ \A i \in 1..(Len(s) - 1) : t[i] = s[i + 1]
    BY <1>1, TailScript
  <1>3. t # <<>> => /\ t[Len(t)] = s[Len(s)] /\ Len(s) > 1
                    /\ InCleanup(t) <=> InCleanup(s)
    BY <1>1, TailLast
  <1>4. WellFormed(s[1]) /\ (s[1].then # <<>> => s[1].op \in KernelCalls)
    BY <1>1 DEF Scripted, Shape, WellFormed
  <1>5. s[1].op # "reject"
    BY <1>4 DEF Smooth, IsWrite, RecordWrites
  <1> HIDE DEF t
  <1>6. CASE t = <<>>
    <2>1. Len(s) = 1
      BY <1>1, <1>2, <1>6
    <2>2. CASE /\ s[1].op \in RecordWrites /\ s[1].catch = "return"
               /\ s[1].r.phase # "RollingBack"
      <3>1. n = s[1].r
        BY <2>2 DEF Smooth, IsWrite, RecordWrites
      <3> QED BY <1>6, <2>2, <3>1 DEF Recovers, t
    <2>3. CASE /\ s[1].op = "clear"
               /\ \A b \in Ambient(s, m).steps : Undone(s, b)
               /\ Ambient(s, m).cand # None =>
                      \E i \in 1..Len(s) : s[i].op = "drop_candidate"
      <3>1. Ambient(s, m) = m
        BY <2>3 DEF Ambient
      <3>2. s[1].then = <<>>
        BY <1>4, <2>3 DEF KernelCalls
      <3>3. \A b : ~Undone(s, b)
        <4> SUFFICES ASSUME NEW b, Undone(s, b) PROVE FALSE
          OBVIOUS
        <4>1. PICK i \in 1..Len(s) : \/ s[i].then = Undoing(b)
                                     \/ s[i].op = "clear_step" /\ s[i].r = b
          BY DEF Undone
        <4>2. i = 1
          BY <2>1
        <4> QED BY <2>3, <3>2, <4>1, <4>2 DEF Undoing
      <3>4. m.steps = {} /\ m.cand = None
        <4>1. m.steps = {}
          BY <2>3, <3>1, <3>3
        <4>2. m.cand = None
          BY <2>1, <2>3, <3>1
        <4> QED BY <4>1, <4>2
      <3>5. n = None
        BY <2>3, <3>4 DEF Smooth, IsWrite, RecordWrites
      <3> QED BY <1>6, <3>5 DEF Recovers, t
    <2> QED BY <1>5, <2>1, <2>2, <2>3 DEF Recovers, InCleanup
  <1>7. CASE t # <<>> /\ ~InCleanup(s)
    BY <1>3, <1>5, <1>7 DEF Recovers, t
  <1>8. CASE t # <<>> /\ InCleanup(s)
    <2>1. /\ \A i \in 1..Len(s) :
                 /\ s[i].op \notin {"adopt", "prepare_firewall",
                                    "replace_firewall", "prepare_sysctls"}
                 /\ s[i].op = "store" => i = 1 /\ s[i].catch = "return"
                 /\ s[i].op = "clear_step" => i = 1
                 /\ s[i].catch \in {"soft", "return"}
      BY <1>8 DEF Scripted, CleanupShape
    <2>2. s[Len(s)].op = "clear" /\ s[1].op # "clear"
      BY <1>1, <1>3, <1>8 DEF InCleanup, Scripted, Shape
    <2>3. /\ \A b \in Ambient(s, m).steps : Undone(s, b)
          /\ Ambient(s, m).cand # None =>
                 \E i \in 1..Len(s) : s[i].op = "drop_candidate"
      BY <1>5, <1>8, <2>2 DEF Recovers, RecordWrites
    <2>4. Len(t) \in Nat \ {0} /\ 1 \in 1..Len(t) /\ t[1] = s[2] /\ 2 \in 1..Len(s)
      BY <1>1, <1>2, <1>3, <1>8, EmptySeq
    <2>5. Ambient(t, n) = n
      BY <2>1, <2>4 DEF Ambient
    <2>6. ASSUME NEW b, Undone(s, b)
          PROVE  \/ Undone(t, b) \/ s[1].then = Undoing(b)
                 \/ s[1].op = "clear_step" /\ s[1].r = b
      <3>1. PICK i \in 1..Len(s) : \/ s[i].then = Undoing(b)
                                   \/ s[i].op = "clear_step" /\ s[i].r = b
        BY <2>6 DEF Undone
      <3>2. CASE i = 1
        BY <3>1, <3>2
      <3>3. CASE i # 1
        <4>1. i - 1 \in 1..(Len(s) - 1) /\ (i - 1) + 1 = i
          BY <1>1, <3>3
        <4>2. t[i - 1] = s[i] /\ i - 1 \in 1..Len(t)
          BY <1>2, <4>1
        <4> QED BY <3>1, <4>2 DEF Undone
      <3> QED BY <3>2, <3>3
    <2>7. ASSUME NEW i \in 1..Len(s), s[i].op = "drop_candidate", s[1].op # "drop_candidate"
          PROVE  \E j \in 1..Len(t) : t[j].op = "drop_candidate"
      <3>1. i # 1
        BY <2>7
      <3>2. i - 1 \in 1..(Len(s) - 1) /\ (i - 1) + 1 = i
        BY <1>1, <3>1
      <3>3. t[i - 1] = s[i] /\ i - 1 \in 1..Len(t)
        BY <1>2, <3>2
      <3> QED BY <2>7, <3>3
    <2>8. Undoing("fw") # <<>> /\ \A b : Undoing(b) # <<>>
      BY DEF Undoing
    <2>9. s[1].op \in RecordWrites \cup Cleaners => s[1].then = <<>>
      BY <1>4 DEF KernelCalls, RecordWrites, Cleaners
    <2>10. /\ \A b \in n.steps : Undone(t, b)
           /\ n.cand # None => \E j \in 1..Len(t) : t[j].op = "drop_candidate"
      <3>1. CASE /\ n = m /\ ~IsWrite(s[1]) /\ s[1].then = <<>>
                 /\ s[1].op \notin {"drop_candidate", "clear_step"}
        <4>1. Ambient(s, m) = m
          BY <3>1 DEF Ambient, IsWrite, RecordWrites
        <4> QED BY <2>3, <2>6, <2>7, <2>8, <3>1, <4>1
      <3>2. CASE n = s[1].r /\ IsWrite(s[1])
        <4>1. s[1].op = "store"
          BY <1>1, <2>1, <3>2 DEF IsWrite, RecordWrites
        <4>2. Ambient(s, m) = n /\ s[1].then = <<>>
          BY <1>8, <2>9, <3>2, <4>1 DEF Ambient, RecordWrites
        <4> QED BY <2>3, <2>6, <2>7, <2>8, <4>1, <4>2
      <3>3. CASE s[1].op = "clear_step" /\ n = [m EXCEPT !.steps = @ \ {s[1].r}]
        <4>1. Ambient(s, m) = m /\ s[1].then = <<>>
          BY <2>9, <3>3 DEF Ambient, Cleaners
        <4>2. m \in Records
          <5>1. m # None
            BY <3>3 DEF Scripted, Shape
          <5> QED BY <5>1 DEF OptRecord, SoundRecord
        <4>3. n.steps = m.steps \ {s[1].r} /\ n.cand = m.cand
          BY <3>3, <4>2 DEF Records
        <4> QED BY <2>3, <2>6, <2>7, <2>8, <3>3, <4>1, <4>3
      <3>4. CASE /\ s[1].op = "drop_candidate"
                 /\ n = [m EXCEPT !.cand = None, !.candOwner = None]
        <4>1. Ambient(s, m) = m /\ s[1].then = <<>>
          BY <2>9, <3>4 DEF Ambient, Cleaners
        <4>2. m \in Records
          <5>1. m # None
            BY <3>4 DEF Scripted, Shape
          <5> QED BY <5>1 DEF OptRecord, SoundRecord
        <4>3. n.steps = m.steps /\ n.cand = None
          BY <3>4, <4>2 DEF Records
        <4> QED BY <2>3, <2>6, <2>8, <3>4, <4>1, <4>3
      <3>5. ~(s[1].catch = "ignore")
        BY <1>1, <2>1
      <3> QED BY <2>2, <3>1, <3>2, <3>3, <3>4, <3>5 DEF Smooth
    <2> QED BY <1>3, <1>8, <2>5, <2>10 DEF Recovers, t
  <1> QED BY <1>6, <1>7, <1>8

\* The owner of what a script writes is the owner of what its rest writes.
LEMMA TailOwned ==
    ASSUME NEW s \in Seq(Elements), s # <<>>, NEW p, OwnedBy(s, p)
    PROVE  OwnedBy(Tail(s), p)
  <1> DEFINE t == Tail(s)
  <1>1. /\ Len(s) \in Nat \ {0} /\ Len(t) = Len(s) - 1
        /\ \A i \in 1..(Len(s) - 1) : t[i] = s[i + 1]
    BY TailScript
  <1> HIDE DEF t
  <1>2. \A i \in 1..Len(t) : t[i] = s[i + 1] /\ i + 1 \in 1..Len(s)
    BY <1>1
  <1>3. OwnedBy(t, p)
    BY <1>2 DEF OwnedBy
  <1> QED BY <1>3 DEF t

\* The same for the element that clears a bit.
LEMMA ThenOwned ==
    ASSUME NEW s, NEW m, NEW prev, Scripted(s, m, prev), s # <<>>,
           NEW b \in StepBits, s[1].then = Undoing(b), NEW p, OwnedBy(s, p)
    PROVE  OwnedBy(Undoing(b) \o Tail(s), p)
  <1> DEFINE t == Undoing(b) \o Tail(s)
  <1>1. /\ Len(t) = Len(s) /\ t[1].op = "clear_step" /\ Len(s) \in Nat \ {0, 1}
        /\ \A i \in 2..Len(s) : t[i] = s[i]
    BY ThenScripted
  <1> HIDE DEF t
  <1>2. \A i \in 1..Len(t) : i = 1 \/ (i \in 1..Len(s) /\ t[i] = s[i])
    BY <1>1
  <1>3. OwnedBy(t, p)
    BY <1>1, <1>2 DEF OwnedBy, IsWrite, RecordWrites
  <1> QED BY <1>3 DEF t

-----------------------------------------------------------------------------
(* The state of the service                                                *)

Sessions ==
    [phase : SessionPhases, owner : LeaseOwners \cup {None},
     decl : Declarations \cup {None}, pending : BOOLEAN]

Kinds ==
    {"Idle", "Prepare", "Commit", "Rollback", "LeaseRenew", "MtuUpdate", "Suspend",
     "Reconfigure", "Resume", "Drain", "WithdrawPrefixes", "PolicyUpdate", "Recover",
     "Shutdown"}

Jobs ==
    [kind : Kinds, todo : Seq(Elements), prev : Records \cup {None}, sess : Sessions,
     err : BOOLEAN, failed : BOOLEAN]

\* Records, scripts and the variables of the main loop.
ServiceInv ==
    /\ OptRecord(mem) /\ OptRecord(disk) /\ OptRecord(job.prev) /\ job \in Jobs
    /\ Scripted(job.todo, mem, job.prev)
    /\ turn \in {"start", "serve", "recover"} /\ fd \in Procs \cup {None}
    /\ alive \in SUBSET Procs /\ now \in Nat /\ torn \in SUBSET Tables

\* Job j, run over record m, becomes job k over record n: an element passes, a
\* removal of a clean-up goes on to clear its bit, or an error branch is taken.
Outcome(j, m, k, n) ==
    /\ k = [kind |-> j.kind, todo |-> k.todo, prev |-> j.prev, sess |-> j.sess,
            err |-> k.err, failed |-> k.failed]
    /\ k.err \in BOOLEAN /\ k.failed \in BOOLEAN
    /\ \/ /\ k.todo = Tail(j.todo) /\ k.failed = j.failed /\ Passes(j.todo, m, n)
          /\ k.err \/ (~j.err /\ Smooth(j.todo, m, n))
          /\ j.todo[1].op # "reject"
       \/ /\ n = m /\ k.failed = j.failed /\ k.err = j.err
          /\ \E b \in StepBits : /\ j.todo[1].then = Undoing(b)
                                 /\ k.todo = Undoing(b) \o Tail(j.todo)
       \/ /\ n = Remaining(j.todo, m) /\ k.failed = TRUE /\ k.err = FALSE
          /\ k.todo = Caught(j.todo[1].catch, n, j.prev)

\* What is known of the element a step runs.
LEMMA FirstElement ==
    ASSUME ServiceInv, job.todo # <<>>
    PROVE  LET e == Head(job.todo)
           IN /\ e = job.todo[1] /\ WellFormed(e) /\ e \in Elements
              /\ job.todo \in Seq(Elements) /\ <<>> \o Tail(job.todo) = Tail(job.todo)
              /\ e.op \in Operations /\ e.catch \in Catches
              /\ e.then # <<>> => e.op \in KernelCalls /\ e.catch = "soft"
              /\ e.then = <<>> \/ \E b \in StepBits : e.then = Undoing(b)
              /\ mem = None => e.op \in {"adopt", "reject"} /\ e.catch = "return"
              /\ IsWrite(e) /\ e.catch = "ignore" => Len(job.todo) = 1
              /\ e.op \in {"reject", "clear"} => Len(job.todo) = 1
  <1> DEFINE s == job.todo
             e == s[1]
  <1>1. /\ s \in Seq(Elements) /\ Len(s) \in Nat \ {0} /\ 1 \in 1..Len(s)
    BY EmptySeq DEF ServiceInv, Scripted, Shape
  <1>2. Head(s) = s[1] /\ <<>> \o Tail(s) = Tail(s) /\ e \in Elements
    BY <1>1, TailScript
  <1>3. /\ WellFormed(e)
        /\ s[1].op = "reject" => Len(s) = 1
        /\ s[1].op = "clear" => 1 = Len(s)
        /\ IsWrite(s[1]) /\ s[1].catch = "ignore" => 1 = Len(s)
        /\ mem = None => s[1].op \in {"adopt", "reject"} /\ s[1].catch = "return"
    BY <1>1 DEF ServiceInv, Scripted, Shape
  <1>4. e.then \in Thens
    BY <1>2 DEF Elements
  <1>5. e.then = <<>> \/ \E b \in StepBits : e.then = Undoing(b)
    BY <1>4 DEF Thens
  <1>6. /\ e.op \in Operations /\ e.catch \in Catches
        /\ e.then # <<>> => e.op \in KernelCalls /\ e.catch = "soft"
    BY <1>3 DEF WellFormed
  <1> QED BY <1>1, <1>2, <1>3, <1>5, <1>6

\* A successful element, and a failing one.
LEMMA SucceededOutcome ==
    ASSUME ServiceInv, job.todo # <<>>, Succeeded(Head(job.todo)), NEW n,
           Head(job.todo).op # "reject",
           LET e == Head(job.todo)
           IN IF e.then = <<>>
              THEN Passes(job.todo, mem, n) /\ (job.err \/ Smooth(job.todo, mem, n))
              ELSE n = mem
    PROVE  Outcome(job, mem, job', n)
  <1> DEFINE e == Head(job.todo)
             k == [kind |-> job.kind, todo |-> e.then \o Tail(job.todo), prev |-> job.prev,
                   sess |-> job.sess, err |-> job.err, failed |-> job.failed]
  <1>1. /\ e = job.todo[1] /\ <<>> \o Tail(job.todo) = Tail(job.todo)
        /\ e.then = <<>> \/ \E b \in StepBits : e.then = Undoing(b)
    BY FirstElement
  <1>2. job \in Jobs
    BY DEF ServiceInv
  <1>3. job' = k
    BY <1>2 DEF Succeeded, Jobs
  <1>4. job.err \in BOOLEAN /\ job.failed \in BOOLEAN
    BY <1>2 DEF Jobs
  <1>5. /\ k.todo = e.then \o Tail(job.todo) /\ k.err = job.err /\ k.failed = job.failed
        /\ k = [kind |-> job.kind, todo |-> k.todo, prev |-> job.prev, sess |-> job.sess,
                err |-> k.err, failed |-> k.failed]
    OBVIOUS
  <1> HIDE DEF k, e
  <1>6. CASE e.then = <<>>
    <2>1. k.todo = Tail(job.todo)
      BY <1>1, <1>5, <1>6
    <2>2. /\ Passes(job.todo, mem, n) /\ (job.err \/ Smooth(job.todo, mem, n))
          /\ job.todo[1].op # "reject"
      BY <1>1, <1>6 DEF e
    <2> QED BY <1>3, <1>4, <1>5, <2>1, <2>2 DEF Outcome
  <1>7. CASE e.then # <<>>
    <2>1. n = mem
      BY <1>7 DEF e
    <2>2. PICK b \in StepBits : e.then = Undoing(b)
      BY <1>1, <1>7
    <2>3. k.todo = Undoing(b) \o Tail(job.todo) /\ job.todo[1].then = Undoing(b)
      BY <1>1, <1>5, <2>2
    <2> QED BY <1>3, <1>4, <1>5, <2>1, <2>3 DEF Outcome
  <1> QED BY <1>6, <1>7

LEMMA FailedOutcome ==
    ASSUME ServiceInv, job.todo # <<>>, NEW n, Failed(Head(job.todo), n),
           LET e == Head(job.todo)
           IN /\ e.catch \in {"ignore", "soft"} => Passes(job.todo, mem, n)
              /\ e.catch = "ignore" => Smooth(job.todo, mem, n)
              /\ e.catch \notin {"ignore", "soft"} => n = Remaining(job.todo, mem)
    PROVE  Outcome(job, mem, job', n)
  <1> DEFINE e == Head(job.todo)
  <1>1. /\ e = job.todo[1] /\ e.catch \in Catches
        /\ e.catch # "return" => e.op # "reject"
    BY FirstElement DEF WellFormed
  <1>2. job \in Jobs
    BY DEF ServiceInv
  <1>3. job.err \in BOOLEAN /\ job.failed \in BOOLEAN
    BY <1>2 DEF Jobs
  <1> DEFINE new(todo, err, failed) ==
                 [kind |-> job.kind, todo |-> todo, prev |-> job.prev, sess |-> job.sess,
                  err |-> err, failed |-> failed]
  <1>4. e.catch # "then"
    BY <1>1 DEF Catches, Quiet, Drops, Restores
  <1>5. CASE e.catch = "ignore"
    <2>1. job' = [job EXCEPT !.todo = Tail(@)]
      BY <1>5 DEF Failed
    <2>2. job' = new(Tail(job.todo), job.err, job.failed)
      BY <1>2, <2>1 DEF Jobs
    <2> DEFINE k == new(Tail(job.todo), job.err, job.failed)
    <2>3. /\ k.todo = Tail(job.todo) /\ k.err = job.err /\ k.failed = job.failed
          /\ k = new(k.todo, k.err, k.failed)
      OBVIOUS
    <2> HIDE DEF k
    <2>4. Passes(job.todo, mem, n) /\ Smooth(job.todo, mem, n)
      BY <1>5
    <2>5. Outcome(job, mem, k, n)
      BY <1>1, <1>3, <1>5, <2>3, <2>4 DEF Outcome
    <2> QED BY <2>2, <2>5 DEF k
  <1>6. CASE e.catch = "soft"
    <2>1. job' = [job EXCEPT !.todo = Tail(@), !.err = TRUE]
      BY <1>6 DEF Failed
    <2>2. job' = new(Tail(job.todo), TRUE, job.failed)
      BY <1>2, <2>1 DEF Jobs
    <2> DEFINE k == new(Tail(job.todo), TRUE, job.failed)
    <2>3. /\ k.todo = Tail(job.todo) /\ k.err = TRUE /\ k.failed = job.failed
          /\ k = new(k.todo, k.err, k.failed)
      OBVIOUS
    <2> HIDE DEF k
    <2>4. Passes(job.todo, mem, n)
      BY <1>6
    <2>5. Outcome(job, mem, k, n)
      BY <1>1, <1>3, <1>6, <2>3, <2>4 DEF Outcome
    <2> QED BY <2>2, <2>5 DEF k
  <1>7. CASE e.catch \notin {"ignore", "soft"}
    <2> DEFINE c == Caught(e.catch, n, job.prev)
    <2>1. job' = [job EXCEPT !.todo = c, !.err = FALSE, !.failed = TRUE]
      BY <1>4, <1>7 DEF Failed
    <2> DEFINE k == new(c, FALSE, TRUE)
    <2>2. job' = k
      BY <1>2, <2>1 DEF Jobs
    <2>3. /\ k.todo = c /\ k.err = FALSE /\ k.failed = TRUE
          /\ k = new(k.todo, k.err, k.failed)
      OBVIOUS
    <2>4. c = Caught(job.todo[1].catch, n, job.prev)
      BY <1>1
    <2> HIDE DEF k, c
    <2>5. n = Remaining(job.todo, mem)
      BY <1>7
    <2>6. Outcome(job, mem, k, n)
      BY <2>3, <2>4, <2>5 DEF Outcome
    <2> QED BY <2>2, <2>6 DEF k
  <1> QED BY <1>5, <1>6, <1>7

\* What a step does to the job, the record in memory and the journal.
LEMMA StepOutcome ==
    ASSUME ServiceInv, Step
    PROVE  /\ job # Idle /\ job.todo # <<>> /\ Outcome(job, mem, job', mem')
           /\ OptRecord(disk') /\ torn' \in SUBSET Tables
           /\ UNCHANGED <<session, tun, fd, turn, up, alive, now>>
  <1> DEFINE e == Head(job.todo)
             s == job.todo
  <1>1. /\ job # Idle /\ s # <<>> /\ UNCHANGED <<session, tun, fd, turn, up, alive, now>>
        /\ \/ StepKernel(e) \/ RefuseKernel(e) \/ FailKernel(e) \/ StepSkip(e)
           \/ StopRestore(e) \/ StepWrite(e) \/ FailWrite(e) \/ StepClear(e)
    BY DEF Step
  <1>2. /\ e = s[1] /\ WellFormed(e) /\ e \in Elements
        /\ e.op \in Operations /\ e.catch \in Catches
        /\ e.then # <<>> => e.op \in KernelCalls /\ e.catch = "soft"
        /\ mem = None => e.op \in {"adopt", "reject"} /\ e.catch = "return"
        /\ IsWrite(e) /\ e.catch = "ignore" => Len(s) = 1
        /\ e.op \in {"reject", "clear"} => Len(s) = 1
    BY <1>1, FirstElement
  <1>3. OptRecord(mem) /\ OptRecord(disk) /\ torn \in SUBSET Tables
        /\ Scripted(s, mem, job.prev)
    BY DEF ServiceInv
  <1>4. e.op \in Cleaners => e.catch = "soft" /\ e.then = <<>>
    BY <1>2 DEF WellFormed, Cleaners, KernelCalls
  <1>5. e.op \in {"reject", "unless_failed"} => e.catch = "return" /\ e.then = <<>>
    BY <1>2 DEF WellFormed, KernelCalls
  <1>6. IsWrite(e) => e.catch # "soft" /\ e.then = <<>>
    BY <1>2 DEF WellFormed, IsWrite, RecordWrites, KernelCalls
  <1>7. IsWrite(e) <=> e.op \in {"store", "adopt"}
    BY DEF IsWrite, RecordWrites
  <1> HIDE DEF e, s
  <1>8. CASE StepKernel(e)
    <2>1. /\ e.op \notin Writes \cup {"clear", "unless_failed"} /\ Feasible(e, kern)
          /\ Succeeded(e) /\ UNCHANGED <<disk, mem, torn>>
      BY <1>8 DEF StepKernel
    <2>2. e.op # "reject"
      BY <2>1 DEF Feasible
    <2>3. Passes(s, mem, mem) /\ (e.then = <<>> => Smooth(s, mem, mem))
      BY <1>2, <1>7, <2>1, <2>2 DEF Passes, Smooth, Writes
    <2>4. Outcome(job, mem, job', mem)
      BY <1>1, <2>1, <2>2, <2>3, SucceededOutcome DEF e, s
    <2> QED BY <1>1, <1>3, <2>1, <2>4 DEF s
  <1>9. ASSUME \/ RefuseKernel(e) \/ StopRestore(e)
        PROVE  Outcome(job, mem, job', mem') /\ OptRecord(disk') /\ torn' \in SUBSET Tables
    <2>1. /\ e.op \notin Writes \cup {"clear"} /\ Failed(e, mem) /\ UNCHANGED <<disk, mem, torn>>
      BY <1>9 DEF RefuseKernel, StopRestore, Writes
    <2>2. ~IsWrite(e)
      BY <1>7, <2>1 DEF Writes
    <2>3. Passes(s, mem, mem) /\ Remaining(s, mem) = mem
      BY <1>2, <1>7, <2>2 DEF Passes, Remaining
    <2>4. e.catch = "ignore" => Smooth(s, mem, mem)
      BY <1>2, <1>5, <2>1, <2>2 DEF Smooth, Writes
    <2>5. Outcome(job, mem, job', mem)
      BY <1>1, <2>1, <2>3, <2>4, FailedOutcome DEF e, s
    <2> QED BY <1>3, <2>1, <2>5
  <1>10. CASE FailKernel(e)
    <2>1. /\ e.op \notin Writes \cup {"clear", "unless_failed", "reject"}
          /\ Failed(e, mem) /\ UNCHANGED <<disk, mem>>
          /\ torn' = IF e.catch \in {"ignore", "return"} /\ e.op \in Removals
                     THEN torn \cup {e.d.table} ELSE torn
      BY <1>10 DEF FailKernel
    <2>2. ~IsWrite(e)
      BY <1>7, <2>1 DEF Writes
    <2>3. Passes(s, mem, mem) /\ Remaining(s, mem) = mem
      BY <1>2, <1>7, <2>2 DEF Passes, Remaining
    <2>4. e.catch = "ignore" => Smooth(s, mem, mem)
      BY <1>2, <2>1, <2>2 DEF Smooth, Writes
    <2>5. Outcome(job, mem, job', mem)
      BY <1>1, <2>1, <2>3, <2>4, FailedOutcome DEF e, s
    <2>6. e.op \in Removals => e.d.table \in Tables
      <3>1. e.op \in Removals => e.d \in Declarations
        BY <1>2 DEF WellFormed, Removals, KernelCalls
      <3> QED BY <3>1 DEF Declarations
    <2>7. torn' \in SUBSET Tables
      BY <1>3, <2>1, <2>6
    <2> QED BY <1>1, <1>3, <2>1, <2>5, <2>7 DEF s
  <1>11. CASE StepSkip(e)
    <2>1. Skipped(e) /\ Succeeded(e) /\ UNCHANGED <<disk, mem, torn>>
      BY <1>11 DEF StepSkip
    <2>2. /\ e.op \in {"drop_candidate", "clear", "unless_failed"}
          /\ e.op = "drop_candidate" => job.err
          /\ e.op = "clear" => mem.steps # {} \/ mem.cand # None
      BY <2>1 DEF Skipped
    <2>3. e.then = <<>> /\ ~IsWrite(e)
      BY <1>4, <1>5, <1>7, <2>2 DEF Cleaners
    <2>4. Passes(s, mem, mem) /\ (job.err \/ Smooth(s, mem, mem))
      BY <1>2, <2>2, <2>3 DEF Passes, Smooth
    <2>5. Outcome(job, mem, job', mem)
      BY <1>1, <2>1, <2>2, <2>3, <2>4, SucceededOutcome DEF e, s
    <2> QED BY <1>1, <1>3, <2>1, <2>5 DEF s
  <1>12. e.op \in Writes => Passes(s, mem, Written(e)) /\ Smooth(s, mem, Written(e))
    BY <1>2, <1>7 DEF Writes, Written, Passes, Smooth
  <1>13. e.op \in Writes => OptRecord(Written(e))
    BY <1>1, <1>3, <1>12, PassesSound
  <1>14. CASE StepWrite(e)
    <2>1. /\ e.op \in Writes /\ Succeeded(e) /\ disk' = Written(e) /\ mem' = Written(e)
          /\ UNCHANGED torn
      BY <1>14 DEF StepWrite
    <2>2. e.then = <<>> /\ e.op # "reject"
      BY <1>4, <1>6, <1>7, <2>1 DEF Writes, Cleaners
    <2>3. Outcome(job, mem, job', Written(e))
      BY <1>1, <1>12, <2>1, <2>2, SucceededOutcome DEF e, s
    <2> QED BY <1>1, <1>3, <1>13, <2>1, <2>3 DEF s
  <1>15. CASE FailWrite(e)
    <2>1. /\ e.op \in Writes /\ disk' \in {disk, Written(e)} /\ UNCHANGED torn
          /\ mem' = IF e.op = "adopt" THEN mem ELSE Written(e)
          /\ Failed(e, mem')
      BY <1>15 DEF FailWrite
    <2>2. OptRecord(disk') /\ torn' \in SUBSET Tables
      BY <1>3, <1>13, <2>1
    <2> DEFINE n == IF e.op = "adopt" THEN mem ELSE Written(e)
    <2>3. mem' = n /\ Failed(e, n)
      BY <2>1
    <2>4. e.catch \in {"ignore", "soft"} => Passes(s, mem, n)
      <3>1. CASE e.op = "adopt"
        BY <1>2, <1>6, <1>7, <3>1 DEF Passes
      <3>2. CASE e.op # "adopt"
        BY <1>12, <2>1, <3>2
      <3> QED BY <3>1, <3>2
    <2>5. e.catch = "ignore" => Smooth(s, mem, n)
      <3>1. CASE e.op = "adopt"
        BY <1>2, <1>7, <3>1 DEF Smooth
      <3>2. CASE e.op # "adopt"
        BY <1>12, <2>1, <3>2
      <3> QED BY <3>1, <3>2
    <2>6. e.catch \notin {"ignore", "soft"} => n = Remaining(s, mem)
      <3>1. CASE e.op \in {"store", "adopt"}
        BY <1>2, <3>1 DEF Remaining, Written
      <3>2. CASE e.op \notin {"store", "adopt"}
        BY <1>4, <2>1, <3>2 DEF Writes, Cleaners
      <3> QED BY <3>1, <3>2
    <2> HIDE DEF n
    <2>7. Outcome(job, mem, job', n)
      BY <1>1, <2>3, <2>4, <2>5, <2>6, FailedOutcome DEF e, s
    <2> QED BY <1>1, <2>2, <2>3, <2>7 DEF s
  <1>16. CASE StepClear(e)
    <2>1. e.op = "clear" /\ UNCHANGED torn /\ e.catch = "soft" /\ e.then = <<>> /\ ~IsWrite(e)
      BY <1>4, <1>7, <1>16 DEF StepClear, Cleaners
    <2>2. CASE disk' = None /\ mem' = None /\ Succeeded(e)
      <3>1. Passes(s, mem, None) /\ Smooth(s, mem, None)
        BY <1>2, <2>1 DEF Passes, Smooth
      <3>2. Outcome(job, mem, job', None)
        BY <1>1, <2>1, <2>2, <3>1, SucceededOutcome DEF e, s
      <3> QED BY <1>1, <1>3, <2>1, <2>2, <3>2 DEF s, OptRecord
    <2>3. CASE disk' \in {disk, None} /\ UNCHANGED mem /\ Failed(e, mem)
      <3>1. Passes(s, mem, mem)
        BY <1>2, <2>1 DEF Passes
      <3>2. Outcome(job, mem, job', mem)
        BY <1>1, <2>1, <2>3, <3>1, FailedOutcome DEF e, s
      <3> QED BY <1>1, <1>3, <2>1, <2>3, <3>2 DEF s, OptRecord
    <2> QED BY <1>16, <2>2, <2>3 DEF StepClear
  <1> QED BY <1>1, <1>8, <1>9, <1>10, <1>11, <1>14, <1>15, <1>16 DEF s

\* Every outcome is a script again.
LEMMA OutcomeScripted ==
    ASSUME NEW j \in Jobs, NEW m, NEW k, NEW n, OptRecord(m), OptRecord(j.prev),
           Scripted(j.todo, m, j.prev), j.todo # <<>>, Outcome(j, m, k, n)
    PROVE  /\ k \in Jobs /\ k.kind = j.kind /\ k.prev = j.prev /\ k.sess = j.sess
           /\ OptRecord(n) /\ Scripted(k.todo, n, k.prev)
  <1>1. /\ k = [kind |-> j.kind, todo |-> k.todo, prev |-> j.prev, sess |-> j.sess,
                err |-> k.err, failed |-> k.failed]
        /\ k.err \in BOOLEAN /\ k.failed \in BOOLEAN
    BY DEF Outcome
  <1>2. k.kind = j.kind /\ k.prev = j.prev /\ k.sess = j.sess
    BY <1>1
  <1>3. OptRecord(n) /\ Scripted(k.todo, n, j.prev)
    <2>1. CASE k.todo = Tail(j.todo) /\ Passes(j.todo, m, n)
      <3>1. OptRecord(n)
        BY <2>1, PassesSound
      <3>2. Scripted(Tail(j.todo), n, j.prev)
        BY <2>1, TailScripted
      <3> QED BY <2>1, <3>1, <3>2
    <2>2. CASE /\ n = m
               /\ \E b \in StepBits : /\ j.todo[1].then = Undoing(b)
                                      /\ k.todo = Undoing(b) \o Tail(j.todo)
      <3>1. PICK b \in StepBits : /\ j.todo[1].then = Undoing(b)
                                  /\ k.todo = Undoing(b) \o Tail(j.todo)
        BY <2>2
      <3>2. Scripted(Undoing(b) \o Tail(j.todo), m, j.prev)
        BY <3>1, ThenScripted
      <3> QED BY <2>2, <3>1, <3>2
    <2>3. CASE n = Remaining(j.todo, m) /\ k.todo = Caught(j.todo[1].catch, n, j.prev)
      <3>1. Scripted(Caught(j.todo[1].catch, Remaining(j.todo, m), j.prev),
                     Remaining(j.todo, m), j.prev)
        BY CaughtScripted
      <3>2. OptRecord(n)
        <4>1. 1 \in 1..Len(j.todo)
          BY EmptySeq DEF Scripted, Shape
        <4>2. j.todo[1].op = "store" => SoundRecord(j.todo[1].r)
          BY <4>1 DEF Scripted, Shape, WellFormed, RecordWrites
        <4> QED BY <2>3, <4>2 DEF Remaining, OptRecord
      <3> QED BY <2>3, <3>1, <3>2
    <2> QED BY <2>1, <2>2, <2>3 DEF Outcome
  <1>4. k.todo \in Seq(Elements)
    BY <1>3 DEF Scripted, Shape
  <1>5. k \in Jobs
    BY <1>1, <1>4 DEF Jobs
  <1> QED BY <1>2, <1>3, <1>5

-----------------------------------------------------------------------------
(* Session and transaction                                                 *)

Sess(x) ==
    x \in Sessions /\ (x.phase # "Stopped" => x.owner # None /\ x.decl # None)

\* What the process of session x may find: its own transaction.
Owned(x, s, m, prev) ==
    x.phase # "Stopped" =>
        /\ m # None => m.owner.proc = x.owner.proc
        /\ prev # None => prev.owner.proc = x.owner.proc
        /\ OwnedBy(s, x.owner.proc)

Rejecting(j) == j.failed \/ (j.todo # <<>> /\ j.todo[1].op = "reject")

\* The session in force owns the transaction whatever becomes of the job, the
\* one the job would install does unless the job is refused or has failed.
AgreeInv ==
    /\ Sess(session) /\ Sess(job.sess)
    /\ Owned(session, job.todo, mem, job.prev)
    /\ ~Rejecting(job) => Owned(job.sess, job.todo, mem, job.prev)
    /\ job.kind = "Idle" => job = Idle
    /\ job.kind = "Prepare" => job.sess.phase # "Stopped"
    /\ job.kind = "Recover" /\ ~job.failed => Recovers(job.todo, mem, job.err)
    /\ job = Idle /\ turn = "serve" => mem = None \/ mem.phase # "RollingBack"

\* The script a step leaves writes for the same process.
LEMMA OutcomeOwned ==
    ASSUME NEW j \in Jobs, NEW m, NEW k, NEW n, OptRecord(m), OptRecord(j.prev),
           Scripted(j.todo, m, j.prev), j.todo # <<>>, Outcome(j, m, k, n),
           NEW x, Owned(x, j.todo, m, j.prev)
    PROVE  Owned(x, k.todo, n, k.prev)
  <1> SUFFICES ASSUME x.phase # "Stopped"
               PROVE  /\ n # None => n.owner.proc = x.owner.proc
                      /\ k.prev # None => k.prev.owner.proc = x.owner.proc
                      /\ OwnedBy(k.todo, x.owner.proc)
    BY DEF Owned
  <1> DEFINE p == x.owner.proc
             s == j.todo
  <1>1. /\ m # None => m.owner.proc = p
        /\ j.prev # None => j.prev.owner.proc = p
        /\ OwnedBy(s, p)
    BY DEF Owned
  <1>2. k.prev = j.prev
    BY OutcomeScripted
  <1>3. s \in Seq(Elements) /\ Len(s) \in Nat \ {0} /\ 1 \in 1..Len(s)
    BY EmptySeq DEF Scripted, Shape
  <1>4. IsWrite(s[1]) => s[1].r.owner.proc = p
    BY <1>1, <1>3 DEF OwnedBy
  <1> HIDE DEF p
  <1>5. CASE k.todo = Tail(s) /\ Passes(s, m, n)
    <2>1. OwnedBy(k.todo, p)
      BY <1>1, <1>3, <1>5, TailOwned
    <2>2. n # None => n.owner.proc = p
      <3>1. CASE IsWrite(s[1])
        BY <1>1, <1>4, <1>5, <3>1 DEF Passes, IsWrite, RecordWrites
      <3>2. CASE ~IsWrite(s[1])
        <4>1. CASE m # None /\ n # None
          BY <1>1, <1>5, <3>2, <4>1, PassesSound
        <4>2. CASE m = None /\ n # None
          <5>1. s[1].op = "reject"
            BY <1>3, <3>2, <4>2 DEF Scripted, Shape, IsWrite, RecordWrites
          <5> QED BY <1>5, <3>2, <4>2, <5>1 DEF Passes
        <4> QED BY <4>1, <4>2
      <3> QED BY <3>1, <3>2
    <2> QED BY <1>1, <1>2, <2>1, <2>2 DEF p
  <1>6. CASE /\ n = m
             /\ \E b \in StepBits : /\ s[1].then = Undoing(b)
                                    /\ k.todo = Undoing(b) \o Tail(s)
    <2>1. PICK b \in StepBits : s[1].then = Undoing(b) /\ k.todo = Undoing(b) \o Tail(s)
      BY <1>6
    <2>2. OwnedBy(Undoing(b) \o Tail(s), p)
      BY <1>1, <2>1, ThenOwned
    <2> QED BY <1>1, <1>2, <1>6, <2>1, <2>2 DEF p
  <1>7. CASE n = Remaining(s, m) /\ k.todo = Caught(s[1].catch, n, j.prev)
    <2>1. n # None => n.owner.proc = p
      BY <1>1, <1>4, <1>7 DEF Remaining, IsWrite, RecordWrites
    <2>2. \A q : (/\ Remaining(s, m) # None => Remaining(s, m).owner.proc = q
                  /\ j.prev # None => j.prev.owner.proc = q)
                 => OwnedBy(Caught(s[1].catch, Remaining(s, m), j.prev), q)
      BY CaughtScripted
    <2>3. OwnedBy(k.todo, p)
      BY <1>1, <1>7, <2>1, <2>2
    <2> QED BY <1>1, <1>2, <2>1, <2>3 DEF p
  <1> QED BY <1>5, <1>6, <1>7 DEF Outcome

\* A step of a recovery recovers.
LEMMA OutcomeRecovers ==
    ASSUME NEW j \in Jobs, NEW m, NEW k, NEW n, OptRecord(m), OptRecord(j.prev),
           Scripted(j.todo, m, j.prev), j.todo # <<>>, Outcome(j, m, k, n),
           Recovers(j.todo, m, j.err), ~k.failed
    PROVE  Recovers(k.todo, n, k.err)
  <1> DEFINE s == j.todo
  <1>1. j.err \in BOOLEAN /\ k.err \in BOOLEAN
    BY DEF Jobs, Outcome
  <1>2. CASE k.todo = Tail(s) /\ k.err
    <2>1. Recovers(Tail(s), n, TRUE)
      BY RecoversErr
    <2>2. k.err = TRUE
      BY <1>1, <1>2
    <2> QED BY <1>2, <2>1, <2>2
  <1>3. CASE k.todo = Tail(s) /\ ~k.err /\ ~j.err /\ Smooth(s, m, n)
    <2>1. k.err = FALSE /\ j.err = FALSE
      BY <1>1, <1>3
    <2>2. Recovers(s, m, FALSE)
      BY <2>1
    <2>3. Recovers(Tail(s), n, FALSE)
      BY <1>3, <2>2, RecoversPass
    <2> QED BY <1>3, <2>1, <2>3
  <1>4. CASE /\ n = m /\ k.err = j.err
             /\ \E b \in StepBits : /\ s[1].then = Undoing(b)
                                    /\ k.todo = Undoing(b) \o Tail(s)
    <2>1. PICK b \in StepBits : s[1].then = Undoing(b) /\ k.todo = Undoing(b) \o Tail(s)
      BY <1>4
    <2>2. Recovers(Undoing(b) \o Tail(s), m, j.err)
      BY <2>1, RecoversThen
    <2> QED BY <1>4, <2>1, <2>2
  <1> QED BY <1>1, <1>2, <1>3, <1>4 DEF Outcome

\* One step of a script keeps the agreement.
LEMMA StepAgrees ==
    ASSUME ServiceInv, AgreeInv, Step
    PROVE  ServiceInv' /\ AgreeInv'
  <1>1. /\ job # Idle /\ job.todo # <<>> /\ Outcome(job, mem, job', mem')
        /\ OptRecord(disk') /\ torn' \in SUBSET Tables
        /\ UNCHANGED <<session, tun, fd, turn, up, alive, now>>
    BY StepOutcome
  <1>2. /\ OptRecord(mem) /\ OptRecord(job.prev) /\ job \in Jobs
        /\ Scripted(job.todo, mem, job.prev)
    BY DEF ServiceInv
  <1>3. /\ job' \in Jobs /\ job'.kind = job.kind /\ job'.prev = job.prev
        /\ job'.sess = job.sess /\ OptRecord(mem')
        /\ Scripted(job'.todo, mem', job'.prev)
    BY <1>1, <1>2, OutcomeScripted
  <1>4. ServiceInv'
    BY <1>1, <1>2, <1>3 DEF ServiceInv
  <1>5. Owned(session, job'.todo, mem', job'.prev)
    <2>1. Owned(session, job.todo, mem, job.prev)
      BY DEF AgreeInv
    <2> QED BY <1>1, <1>2, <2>1, OutcomeOwned
  <1>6. ~Rejecting(job') => Owned(job'.sess, job'.todo, mem', job'.prev)
    <2> SUFFICES ASSUME ~Rejecting(job')
                 PROVE  Owned(job.sess, job'.todo, mem', job'.prev)
      BY <1>3
    <2>1. CASE Rejecting(job)
      <3>1. ~job'.failed
        BY DEF Rejecting
      <3>2. job'.failed = job.failed
        BY <1>1, <3>1 DEF Outcome
      <3>3. job.todo[1].op = "reject"
        BY <2>1, <3>1, <3>2 DEF Rejecting
      <3>4. /\ 1 \in 1..Len(job.todo) /\ WellFormed(job.todo[1]) /\ Len(job.todo) = 1
        BY <1>1, <1>2, <3>3, EmptySeq DEF Scripted, Shape
      <3>5. job.todo[1].then = <<>>
        BY <3>3, <3>4 DEF WellFormed, KernelCalls
      <3> QED BY <1>1, <3>1, <3>3, <3>5 DEF Outcome, Undoing
    <2>2. CASE ~Rejecting(job)
      <3>1. Owned(job.sess, job.todo, mem, job.prev)
        BY <2>2 DEF AgreeInv
      <3> QED BY <1>1, <1>2, <3>1, OutcomeOwned
    <2> QED BY <2>1, <2>2
  <1>7. job'.kind = "Recover" /\ ~job'.failed => Recovers(job'.todo, mem', job'.err)
    <2> SUFFICES ASSUME job.kind = "Recover", ~job'.failed
                 PROVE  Recovers(job'.todo, mem', job'.err)
      BY <1>3
    <2>1. ~job.failed
      BY <1>1 DEF Outcome
    <2>2. Recovers(job.todo, mem, job.err)
      BY <2>1 DEF AgreeInv
    <2> QED BY <1>1, <1>2, <2>2, OutcomeRecovers
  <1>8. job'.kind # "Idle" /\ job' # Idle
    <2>1. job.kind # "Idle"
      BY <1>1 DEF AgreeInv
    <2> QED BY <1>3, <2>1 DEF Idle
  <1> QED BY <1>1, <1>3, <1>4, <1>5, <1>6, <1>7, <1>8 DEF AgreeInv

\* The ownership checks keep the session's process.
LEMMA FencedSession ==
    ASSUME NEW x, Sess(x), NEW op, NEW o \in LeaseOwners, Fenced(x, op, o) # None
    PROVE  LET f == Fenced(x, op, o)
           IN /\ f \in Sessions /\ f.phase = x.phase
              /\ x.phase # "Stopped" => /\ f.owner # None /\ f.decl = x.decl
                                        /\ x.owner.proc = o.proc /\ f.owner.proc = o.proc
  <1> DEFINE f == Fenced(x, op, o)
             stoppedPrepare == x.phase = "Stopped" /\ op = "Prepare"
  <1>1. x \in Sessions /\ o # None
    BY NoneAssumption DEF Sess
  <1>2. \/ f = x /\ (x.owner = None \/ stoppedPrepare \/ SameOwner(x.owner, o))
        \/ f = [x EXCEPT !.owner = None, !.decl = None] /\ stoppedPrepare
        \/ f = [x EXCEPT !.owner = o] /\ SameProcess(x.owner, o)
    BY DEF Fenced
  <1> HIDE DEF f
  <1>3. CASE f = x /\ (x.owner = None \/ stoppedPrepare \/ SameOwner(x.owner, o))
    BY <1>1, <1>3 DEF Sess, SameOwner, SameProcess, f
  <1>4. CASE f = [x EXCEPT !.owner = None, !.decl = None] /\ stoppedPrepare
    BY <1>1, <1>4 DEF Sessions, f
  <1>5. CASE f = [x EXCEPT !.owner = o] /\ SameProcess(x.owner, o)
    <2>1. f \in Sessions /\ f.phase = x.phase /\ f.owner = o /\ f.decl = x.decl
      BY <1>1, <1>5 DEF Sessions
    <2> QED BY <1>1, <1>5, <2>1 DEF SameProcess, f
  <1> QED BY <1>2, <1>3, <1>4, <1>5

\* What the lifecycle makes of session f for a request of owner o.
Proceeds(f, op, o, y) ==
    /\ y \in Sessions
    /\ op = "Prepare" => y.phase # "Stopped"
    /\ y.phase # "Stopped" => /\ y.owner # None /\ y.decl # None
                              /\ y.owner.proc = o.proc
                              /\ f.phase # "Stopped" \/ op = "Prepare"

\* The lifecycle keeps it too; only Prepare starts a stopped session.
LEMMA AdvancedSession ==
    ASSUME NEW f \in Sessions, NEW op, NEW o \in LeaseOwners, NEW d,
           f.phase # "Stopped" => /\ f.owner # None /\ f.decl # None
                                  /\ f.owner.proc = o.proc,
           op \in {"Prepare", "Reconfigure", "PolicyUpdate"} => d \in Declarations,
           op = "MtuUpdate" => d \in Nat, Advanced(f, op, o, d) # None
    PROVE  Proceeds(f, op, o, Advanced(f, op, o, d))
  <1> DEFINE y == Advanced(f, op, o, d)
  <1> SUFFICES Proceeds(f, op, o, y)
    OBVIOUS
  <1>1. o # None /\ \A c \in Declarations : c # None
    BY NoneAssumption
  <1>2. /\ "Stopped" \in SessionPhases /\ "Active" \in SessionPhases
        /\ "Draining" \in SessionPhases /\ "Suspended" \in SessionPhases
        /\ "Prepared" \in SessionPhases
    BY DEF SessionPhases
  <1>3. /\ f.owner \in LeaseOwners \cup {None} /\ f.decl \in Declarations \cup {None}
        /\ f.phase \in SessionPhases /\ f.pending \in BOOLEAN
    BY DEF Sessions
  <1>4. CASE f.phase # "Stopped" /\ y = f /\ op # "Prepare"
    BY <1>3, <1>4 DEF Proceeds
  <1>5. ASSUME NEW ph \in SessionPhases, y = [f EXCEPT !.phase = ph],
               f.phase # "Stopped", op # "Prepare"
        PROVE  Proceeds(f, op, o, y)
    <2>1. y \in Sessions /\ y.phase = ph /\ y.owner = f.owner /\ y.decl = f.decl
      BY <1>5 DEF Sessions
    <2> HIDE DEF y
    <2> QED BY <1>5, <2>1 DEF Proceeds
  <1>6. CASE op = "Prepare"
    <2>1. \/ f.phase # "Stopped" /\ y = f
          \/ f.phase = "Stopped" /\ y = [f EXCEPT !.phase = "Prepared", !.owner = o,
                                                  !.decl = d]
      BY <1>6 DEF Advanced
    <2> HIDE DEF y
    <2>2. CASE f.phase # "Stopped" /\ y = f
      BY <1>3, <1>6, <2>2 DEF Proceeds
    <2>3. CASE y = [f EXCEPT !.phase = "Prepared", !.owner = o, !.decl = d]
      <3>1. y \in Sessions /\ y.phase = "Prepared" /\ y.owner = o /\ y.decl = d
        BY <1>2, <1>6, <2>3 DEF Sessions
      <3> QED BY <1>1, <1>6, <3>1 DEF Proceeds
    <2> QED BY <2>1, <2>2, <2>3 DEF y
  <1>7. CASE op = "Commit"
    <2>1. /\ f.phase # "Stopped"
          /\ \/ y = f
             \/ y = [f EXCEPT !.phase = "Draining"]
             \/ y = [f EXCEPT !.phase = "Active"]
      BY <1>7 DEF Advanced
    <2> HIDE DEF y
    <2> QED BY <1>2, <1>4, <1>5, <1>7, <2>1 DEF y
  <1>8. CASE op = "Rollback"
    <2>1. y = [f EXCEPT !.phase = "Stopped", !.pending = FALSE]
      BY <1>8 DEF Advanced
    <2> HIDE DEF y
    <2>2. y \in Sessions /\ y.phase = "Stopped"
      BY <1>2, <2>1 DEF Sessions
    <2>3. Proceeds(f, op, o, y)
      BY <1>8, <2>2 DEF Proceeds
    <2> QED BY <2>3 DEF y
  <1>9. CASE op = "LeaseRenew"
    <2>1. y = [f EXCEPT !.owner = o]
      BY <1>9 DEF Advanced
    <2> HIDE DEF y
    <2>2. y \in Sessions /\ y.phase = f.phase /\ y.owner = o /\ y.decl = f.decl
      BY <2>1 DEF Sessions
    <2>3. Proceeds(f, op, o, y)
      BY <1>1, <1>9, <2>2 DEF Proceeds
    <2> QED BY <2>3 DEF y
  <1>10. CASE op = "MtuUpdate"
    <2>1. f.phase = "Active" /\ y = [f EXCEPT !.decl.mtu = d]
      BY <1>10 DEF Advanced
    <2> HIDE DEF y
    <2>2. f.decl \in Declarations /\ d \in Nat
      BY <1>3, <1>10, <2>1
    <2>3. [f.decl EXCEPT !.mtu = d] \in Declarations
      BY <2>2 DEF Declarations
    <2>4. /\ y \in Sessions /\ y.phase = f.phase /\ y.owner = f.owner
          /\ y.decl = [f.decl EXCEPT !.mtu = d]
      BY <2>1, <2>3 DEF Sessions
    <2>5. Proceeds(f, op, o, y)
      BY <1>1, <1>10, <2>1, <2>3, <2>4 DEF Proceeds
    <2> QED BY <2>5 DEF y
  <1>11. CASE op \in {"Suspend", "Resume"}
    <2>1. /\ f.phase # "Stopped"
          /\ \/ y = [f EXCEPT !.phase = "Suspended"]
             \/ y = [f EXCEPT !.phase = "Active"]
      <3>1. CASE op = "Suspend"
        BY <3>1 DEF Advanced
      <3>2. CASE op = "Resume"
        BY <3>2 DEF Advanced
      <3> QED BY <1>11, <3>1, <3>2
    <2> HIDE DEF y
    <2> QED BY <1>2, <1>5, <1>11, <2>1 DEF y
  <1>12. ASSUME y = [f EXCEPT !.decl = d], d \in Declarations,
                f.phase # "Stopped", op # "Prepare"
         PROVE  Proceeds(f, op, o, y)
    <2>1. y \in Sessions /\ y.phase = f.phase /\ y.owner = f.owner /\ y.decl = d
      BY <1>12 DEF Sessions
    <2> HIDE DEF y
    <2> QED BY <1>1, <1>12, <2>1 DEF Proceeds
  <1>13. CASE op = "Reconfigure"
    <2>1. /\ f.phase # "Stopped"
          /\ \/ y = f
             \/ y = [f EXCEPT !.decl = d]
             \/ y = [f EXCEPT !.decl = d, !.pending = TRUE, !.phase = "Prepared"]
      BY <1>13 DEF Advanced
    <2> HIDE DEF y
    <2>2. CASE y = [f EXCEPT !.decl = d, !.pending = TRUE, !.phase = "Prepared"]
      <3>1. y \in Sessions /\ y.phase = "Prepared" /\ y.owner = f.owner /\ y.decl = d
        BY <1>2, <1>13, <2>2 DEF Sessions
      <3> QED BY <1>1, <1>13, <2>1, <3>1 DEF Proceeds
    <2> QED BY <1>4, <1>12, <1>13, <2>1, <2>2 DEF y
  <1>14. CASE op = "Drain"
    <2>1. f.phase # "Stopped" /\ y = [f EXCEPT !.phase = "Active", !.pending = FALSE]
      BY <1>14 DEF Advanced
    <2> HIDE DEF y
    <2>2. y \in Sessions /\ y.phase = "Active" /\ y.owner = f.owner /\ y.decl = f.decl
      BY <1>2, <2>1 DEF Sessions
    <2>3. Proceeds(f, op, o, y)
      BY <1>14, <2>1, <2>2 DEF Proceeds
    <2> QED BY <2>3 DEF y
  <1>15. CASE op \in {"WithdrawPrefixes", "PolicyUpdate"}
    <2>1. /\ f.phase # "Stopped"
          /\ y = f \/ (op = "PolicyUpdate" /\ y = [f EXCEPT !.decl = d])
      BY <1>15 DEF Advanced
    <2> HIDE DEF y
    <2> QED BY <1>4, <1>12, <1>15, <2>1 DEF y
  <1>16. op \in {"Prepare", "Commit", "Rollback", "LeaseRenew", "MtuUpdate", "Suspend",
                 "Resume", "Reconfigure", "Drain", "WithdrawPrefixes", "PolicyUpdate"}
    BY DEF Advanced
  <1> QED BY <1>6, <1>7, <1>8, <1>9, <1>10, <1>11, <1>13, <1>14, <1>15, <1>16

\* An admitted request: both sessions belong to the requesting process.
LEMMA AdmittedSession ==
    ASSUME NEW x, Sess(x), NEW op, NEW o \in LeaseOwners, NEW d,
           op \in {"Prepare", "Reconfigure", "PolicyUpdate"} => d \in Declarations,
           op = "MtuUpdate" => d \in Nat, Admitted(x, op, o, d) # None
    PROVE  /\ Proceeds(x, op, o, Admitted(x, op, o, d))
           /\ Sess(Admitted(x, op, o, d))
           /\ x.phase # "Stopped" => x.owner.proc = o.proc
  <1> DEFINE f == Fenced(x, op, o)
             y == Admitted(x, op, o, d)
  <1>1. f # None /\ y = Advanced(f, op, o, d) /\ y # None
    BY DEF Admitted
  <1>2. /\ f \in Sessions /\ f.phase = x.phase
        /\ x.phase # "Stopped" => /\ f.owner # None /\ f.decl = x.decl /\ x.decl # None
                                  /\ x.owner.proc = o.proc /\ f.owner.proc = o.proc
    BY <1>1, FencedSession DEF Sess
  <1> HIDE DEF f, y
  <1>3. Proceeds(f, op, o, y)
    BY <1>1, <1>2, AdvancedSession
  <1>4. Proceeds(x, op, o, y) /\ Sess(y)
    BY <1>2, <1>3 DEF Proceeds, Sess
  <1> QED BY <1>2, <1>4 DEF y

\* The script of an admitted request belongs to the transaction it finds, or,
\* without one, to the requesting process.
Sanctioned(op, o, s) ==
    /\ Scripted(s, mem, mem)
    /\ mem # None => OwnedBy(s, mem.owner.proc)
    /\ mem = None => OwnedBy(s, o.proc)
    /\ op = "Prepare" /\ mem # None => mem.owner.proc = o.proc

\* A request that the session admitted, with the script the transaction chose.
LEMMA ServeAgrees ==
    ASSUME ServiceInv, AgreeInv,
           NEW op \in Kinds \ {"Idle", "Recover", "Shutdown"}, NEW o \in LeaseOwners,
           NEW d, op \in {"Prepare", "Reconfigure", "PolicyUpdate"} => d \in Declarations,
           op = "MtuUpdate" => d \in Nat, NEW s, s # Reject => Sanctioned(op, o, s),
           Serve(op, o, d, s)
    PROVE  ServiceInv' /\ AgreeInv'
  <1> DEFINE y == Admitted(session, op, o, d)
  <1>1. /\ y # None /\ UNCHANGED <<disk, mem, session, fd, turn, up, alive, now, torn>>
        /\ job' = [kind |-> op, todo |-> s, prev |-> mem, sess |-> y,
                   err |-> FALSE, failed |-> FALSE]
    BY DEF Serve, Start
  <1>2. Sess(session) /\ OptRecord(mem) /\ Owned(session, job.todo, mem, job.prev)
    BY DEF AgreeInv, ServiceInv
  <1>3. Proceeds(session, op, o, y) /\ Sess(y)
    BY <1>1, <1>2, AdmittedSession
  <1>4. session.phase # "Stopped" => session.owner.proc = o.proc
    BY <1>1, <1>2, AdmittedSession
  <1> HIDE DEF y
  <1>5. Scripted(s, mem, mem)
    BY RejectScripted DEF Sanctioned
  <1>6. /\ job'.kind = op /\ job'.todo = s /\ job'.prev = mem /\ job'.sess = y
        /\ job'.err = FALSE /\ job'.failed = FALSE
    BY <1>1
  <1>7. job' \in Jobs
    <2>1. s \in Seq(Elements) /\ mem \in Records \cup {None} /\ y \in Sessions
      BY <1>2, <1>3, <1>5 DEF Scripted, Shape, OptRecord, SoundRecord, Sess
    <2> QED BY <1>1, <2>1 DEF Jobs
  <1>8. ServiceInv'
    BY <1>1, <1>2, <1>5, <1>6, <1>7 DEF ServiceInv
  <1>9. Owned(session, s, mem, mem)
    <2>1. CASE s = Reject
      BY <1>2, <2>1, RejectScripted DEF Owned
    <2>2. CASE s # Reject
      BY <1>2, <1>4, <2>2 DEF Owned, Sanctioned
    <2> QED BY <2>1, <2>2
  <1>10. ASSUME ~Rejecting(job') PROVE Owned(y, s, mem, mem)
    <2>1. s # Reject
      <3>1. Reject # <<>> /\ Reject[1].op = "reject"
        BY DEF Reject, Call
      <3> QED BY <1>6, <1>10, <3>1 DEF Rejecting
    <2>2. y.phase # "Stopped" => /\ y.owner.proc = o.proc
                                 /\ session.phase # "Stopped" \/ op = "Prepare"
      BY <1>3 DEF Proceeds
    <2>3. y.phase # "Stopped" /\ mem # None => mem.owner.proc = o.proc
      BY <1>2, <1>4, <2>1, <2>2 DEF Owned, Sanctioned
    <2> QED BY <2>1, <2>2, <2>3 DEF Owned, Sanctioned
  <1>11. job' # Idle /\ job'.kind # "Idle" /\ job'.kind # "Recover"
    BY <1>6 DEF Idle
  <1>12. op = "Prepare" => y.phase # "Stopped"
    BY <1>3 DEF Proceeds
  <1> QED BY <1>1, <1>2, <1>3, <1>6, <1>8, <1>9, <1>10, <1>11, <1>12 DEF AgreeInv

\* Every handler's script is one.
LEMMA HandlersSanctioned ==
    ASSUME ServiceInv, NEW o \in LeaseOwners
    PROVE  /\ \A d \in Declarations :
                  /\ Prepare(o, d) # Reject => Sanctioned("Prepare", o, Prepare(o, d))
                  /\ Reconfigure(o, d) # Reject =>
                         Sanctioned("Reconfigure", o, Reconfigure(o, d))
                  /\ UpdatePolicy(o, d) # Reject =>
                         Sanctioned("PolicyUpdate", o, UpdatePolicy(o, d))
           /\ Commit(o) # Reject => Sanctioned("Commit", o, Commit(o))
           /\ Rollback(o) # Reject => Sanctioned("Rollback", o, Rollback(o))
           /\ RenewLease(o) # Reject => Sanctioned("LeaseRenew", o, RenewLease(o))
           /\ \A m \in Nat : UpdateMtu(o, m) # Reject =>
                  Sanctioned("MtuUpdate", o, UpdateMtu(o, m))
           /\ Suspend(o) # Reject => Sanctioned("Suspend", o, Suspend(o))
           /\ Resume(o) # Reject => Sanctioned("Resume", o, Resume(o))
           /\ DrainOld(o) # Reject => Sanctioned("Drain", o, DrainOld(o))
           /\ \A x \in SUBSET Prefixes : SetFailedPrefixes(o, x) # Reject =>
                  Sanctioned("WithdrawPrefixes", o, SetFailedPrefixes(o, x))
  <1>1. OptRecord(mem) /\ now \in Nat /\ (mem # None => SoundRecord(mem))
    BY DEF ServiceInv, OptRecord
  <1>2. ASSUME NEW d \in Declarations, Prepare(o, d) # Reject
        PROVE  Sanctioned("Prepare", o, Prepare(o, d))
    <2>1. /\ Scripted(Prepare(o, d), mem, mem)
          /\ mem = None => OwnedBy(Prepare(o, d), o.proc)
          /\ mem # None => Prepare(o, d) = <<>> /\ SameProcess(mem.owner, o)
      BY <1>1, <1>2, PrepareScripted
    <2>2. mem # None => OwnedBy(<<>>, mem.owner.proc)
      BY EmptyScripted
    <2> QED BY <2>1, <2>2 DEF Sanctioned, SameProcess
  <1>3. ASSUME NEW d \in Declarations, Reconfigure(o, d) # Reject
        PROVE  Sanctioned("Reconfigure", o, Reconfigure(o, d))
    <2>1. mem # None
      BY <1>3 DEF Reconfigure
    <2> QED BY <1>1, <1>3, <2>1, ReconfigureScripted DEF Sanctioned
  <1>4. ASSUME NEW d \in Declarations, UpdatePolicy(o, d) # Reject
        PROVE  Sanctioned("PolicyUpdate", o, UpdatePolicy(o, d))
    <2>1. mem # None
      BY <1>4 DEF UpdatePolicy
    <2> QED BY <1>1, <1>4, <2>1, PolicyScripted DEF Sanctioned
  <1>5. Commit(o) # Reject => Sanctioned("Commit", o, Commit(o))
    BY <1>1, CommitHandlerScripted DEF Sanctioned
  <1>6. ASSUME Rollback(o) # Reject PROVE Sanctioned("Rollback", o, Rollback(o))
    <2>1. mem # None
      BY <1>6 DEF Rollback
    <2> QED BY <1>1, <1>6, <2>1, RollbackScripted DEF Sanctioned
  <1>7. RenewLease(o) # Reject => Sanctioned("LeaseRenew", o, RenewLease(o))
    BY <1>1, RenewScripted DEF Sanctioned
  <1>8. \A m \in Nat : UpdateMtu(o, m) # Reject =>
            Sanctioned("MtuUpdate", o, UpdateMtu(o, m))
    BY <1>1, MtuScripted DEF Sanctioned
  <1>9. ASSUME Suspend(o) # Reject PROVE Sanctioned("Suspend", o, Suspend(o))
    <2>1. mem # None
      BY <1>9 DEF Suspend
    <2>2. Scripted(Suspend(o), mem, mem) /\ OwnedBy(Suspend(o), mem.owner.proc)
      <3>1. CASE Suspend(o) = <<>>
        BY <3>1, EmptyScripted
      <3>2. CASE Suspend(o) # <<>>
        BY <1>1, <1>9, <2>1, <3>2, SuspendScripted
      <3> QED BY <3>1, <3>2
    <2> QED BY <2>1, <2>2 DEF Sanctioned
  <1>10. ASSUME Resume(o) # Reject PROVE Sanctioned("Resume", o, Resume(o))
    <2>1. mem # None
      BY <1>10 DEF Resume
    <2>2. Scripted(Resume(o), mem, mem) /\ OwnedBy(Resume(o), mem.owner.proc)
      <3>1. CASE Resume(o) = <<>>
        BY <3>1, EmptyScripted
      <3>2. CASE Resume(o) # <<>>
        BY <1>1, <1>10, <2>1, <3>2, ResumeScripted
      <3> QED BY <3>1, <3>2
    <2> QED BY <2>1, <2>2 DEF Sanctioned
  <1>11. DrainOld(o) # Reject => Sanctioned("Drain", o, DrainOld(o))
    BY <1>1, DrainScripted DEF Sanctioned
  <1>12. \A x \in SUBSET Prefixes : SetFailedPrefixes(o, x) # Reject =>
             Sanctioned("WithdrawPrefixes", o, SetFailedPrefixes(o, x))
    BY <1>1, WithdrawScripted DEF Sanctioned
  <1> QED BY <1>2, <1>3, <1>4, <1>5, <1>6, <1>7, <1>8, <1>9, <1>10, <1>11, <1>12

\* Every request keeps the agreement.
LEMMA RequestsAgree ==
    ASSUME ServiceInv, AgreeInv, Requests
    PROVE  ServiceInv' /\ AgreeInv'
  <1>1. PICK o \in Requesters :
            \/ CommitRequest(o) \/ RollbackRequest(o) \/ RenewRequest(o)
            \/ MtuRequest(o) \/ SuspendRequest(o) \/ ResumeRequest(o)
            \/ DrainRequest(o)
            \/ \E failed \in SUBSET Prefixes : WithdrawRequest(o, failed)
            \/ \E d \in FirstDecls : PrepareRequest(o, d)
            \/ \E d \in Decls : PolicyRequest(o, d) \/ ReconfigureRequest(o, d)
    BY DEF Requests
  <1>2. o \in LeaseOwners
    <2>1. alive \in SUBSET Procs /\ now \in Nat
      BY DEF ServiceInv
    <2>2. now + LeaseLen \in Nat
      BY <2>1, BoundAssumption
    <2> QED BY <2>1, <2>2 DEF Requesters, LeaseOwners
  <1>3. FirstDecls \subseteq Declarations /\ Decls \subseteq Declarations /\ LowMtu \in Nat
    BY DeclAssumption, BoundAssumption
  <1>4. \A k \in {"Prepare", "Commit", "Rollback", "LeaseRenew", "MtuUpdate", "Suspend",
                  "Reconfigure", "Resume", "Drain", "WithdrawPrefixes", "PolicyUpdate"} :
            k \in Kinds \ {"Idle", "Recover", "Shutdown"}
    BY DEF Kinds
  <1>5. CASE CommitRequest(o)
    <2>1. Serve("Commit", o, None, Commit(o))
      BY <1>5 DEF CommitRequest
    <2> QED BY <1>2, <1>4, <2>1, HandlersSanctioned, ServeAgrees
  <1>6. CASE RollbackRequest(o)
    <2>1. Serve("Rollback", o, None, Rollback(o))
      BY <1>6 DEF RollbackRequest
    <2> QED BY <1>2, <1>4, <2>1, HandlersSanctioned, ServeAgrees
  <1>7. CASE RenewRequest(o)
    <2>1. Serve("LeaseRenew", o, None, RenewLease(o))
      BY <1>7 DEF RenewRequest
    <2> QED BY <1>2, <1>4, <2>1, HandlersSanctioned, ServeAgrees
  <1>8. CASE MtuRequest(o)
    <2>1. Serve("MtuUpdate", o, LowMtu, UpdateMtu(o, LowMtu))
      BY <1>8 DEF MtuRequest
    <2> QED BY <1>2, <1>3, <1>4, <2>1, HandlersSanctioned, ServeAgrees
  <1>9. CASE SuspendRequest(o)
    <2>1. Serve("Suspend", o, None, Suspend(o))
      BY <1>9 DEF SuspendRequest
    <2> QED BY <1>2, <1>4, <2>1, HandlersSanctioned, ServeAgrees
  <1>10. CASE ResumeRequest(o)
    <2>1. Serve("Resume", o, None, Resume(o))
      BY <1>10 DEF ResumeRequest
    <2> QED BY <1>2, <1>4, <2>1, HandlersSanctioned, ServeAgrees
  <1>11. CASE DrainRequest(o)
    <2>1. Serve("Drain", o, None, DrainOld(o))
      BY <1>11 DEF DrainRequest
    <2> QED BY <1>2, <1>4, <2>1, HandlersSanctioned, ServeAgrees
  <1>12. ASSUME NEW failed \in SUBSET Prefixes, WithdrawRequest(o, failed)
         PROVE  ServiceInv' /\ AgreeInv'
    <2>1. Serve("WithdrawPrefixes", o, None, SetFailedPrefixes(o, failed))
      BY <1>12 DEF WithdrawRequest
    <2> QED BY <1>2, <1>4, <2>1, HandlersSanctioned, ServeAgrees
  <1>13. ASSUME NEW d \in FirstDecls, PrepareRequest(o, d)
         PROVE  ServiceInv' /\ AgreeInv'
    <2>1. Serve("Prepare", o, d, Prepare(o, d)) /\ d \in Declarations
      BY <1>3, <1>13 DEF PrepareRequest
    <2> QED BY <1>2, <1>4, <2>1, HandlersSanctioned, ServeAgrees
  <1>14. ASSUME NEW d \in Decls, PolicyRequest(o, d)
         PROVE  ServiceInv' /\ AgreeInv'
    <2>1. Serve("PolicyUpdate", o, d, UpdatePolicy(o, d)) /\ d \in Declarations
      BY <1>3, <1>14 DEF PolicyRequest
    <2> QED BY <1>2, <1>4, <2>1, HandlersSanctioned, ServeAgrees
  <1>15. ASSUME NEW d \in Decls, ReconfigureRequest(o, d)
         PROVE  ServiceInv' /\ AgreeInv'
    <2>1. Serve("Reconfigure", o, d, Reconfigure(o, d)) /\ d \in Declarations
      BY <1>3, <1>15 DEF ReconfigureRequest
    <2> QED BY <1>2, <1>4, <2>1, HandlersSanctioned, ServeAgrees
  <1> QED BY <1>1, <1>5, <1>6, <1>7, <1>8, <1>9, <1>10, <1>11, <1>12, <1>13, <1>14, <1>15

\* The other actions of the main loop.
LEMMA RecoverAgrees ==
    ASSUME ServiceInv, AgreeInv, RecoverOrphan
    PROVE  ServiceInv' /\ AgreeInv'
  <1>1. /\ job = Idle /\ OptRecord(mem) /\ Sess(session) /\ Sess(job.sess)
        /\ Owned(session, job.todo, mem, job.prev)
        /\ UNCHANGED <<disk, mem, session, fd, up, alive, now, torn>>
    BY DEF RecoverOrphan, ServiceInv, AgreeInv
  <1>2. CASE mem = None \/ (Retained(mem) /\ ~(PolicyIntent(mem) /\ mem.candOwner = mem.owner))
    <2>1. turn' = "serve" /\ UNCHANGED job
      BY <1>2 DEF RecoverOrphan
    <2>2. mem = None \/ mem.phase # "RollingBack"
      BY <1>2 DEF Retained
    <2>3. ServiceInv'
      BY <1>1, <2>1 DEF ServiceInv
    <2> QED BY <1>1, <2>1, <2>2, <2>3 DEF AgreeInv, Rejecting
  <1>3. CASE ~(mem = None \/ (Retained(mem) /\ ~(PolicyIntent(mem) /\ mem.candOwner = mem.owner)))
    <2> DEFINE s == RecoverScript(mem)
    <2>1. /\ UNCHANGED turn /\ mem # None
          /\ job' = [kind |-> "Recover", todo |-> s, prev |-> mem, sess |-> NewSession,
                     err |-> FALSE, failed |-> FALSE]
      BY <1>3 DEF RecoverOrphan, Start
    <2>2. SoundRecord(mem)
      BY <1>1, <2>1 DEF OptRecord
    <2>3. Scripted(s, mem, mem) /\ OwnedBy(s, mem.owner.proc) /\ Recovers(s, mem, FALSE)
      BY <2>2, RecoverScripted
    <2> HIDE DEF s
    <2>4. /\ job'.kind = "Recover" /\ job'.todo = s /\ job'.prev = mem
          /\ job'.sess = NewSession /\ job'.err = FALSE /\ job'.failed = FALSE
      BY <2>1
    <2>5. NewSession \in Sessions /\ NewSession.phase = "Stopped"
      BY DEF NewSession, Sessions, SessionPhases
    <2>6. job' \in Jobs
      <3>1. s \in Seq(Elements) /\ mem \in Records
        BY <2>2, <2>3 DEF Scripted, Shape, SoundRecord
      <3> QED BY <2>1, <2>5, <3>1 DEF Jobs, Kinds
    <2>7. ServiceInv'
      BY <1>1, <2>1, <2>3, <2>4, <2>6 DEF ServiceInv
    <2>8. Owned(session, s, mem, mem) /\ Owned(NewSession, s, mem, mem) /\ Sess(NewSession)
      BY <1>1, <2>1, <2>3, <2>5 DEF Owned, Sess
    <2>9. job' # Idle
      BY <2>4 DEF Idle
    <2> QED BY <1>1, <2>1, <2>3, <2>4, <2>7, <2>8, <2>9 DEF AgreeInv
  <1> QED BY <1>2, <1>3

\* A shutdown, of a transaction or of none.
LEMMA ShutdownAgrees ==
    ASSUME ServiceInv, AgreeInv,
           Start("Shutdown", When(mem # None, Rollback(mem.owner)), NewSession),
           UNCHANGED <<disk, mem, session, fd, turn, up, alive, now, torn>>
    PROVE  ServiceInv' /\ AgreeInv'
  <1> DEFINE s == When(mem # None, Rollback(mem.owner))
  <1>1. OptRecord(mem) /\ Sess(session) /\ Owned(session, job.todo, mem, job.prev)
    BY DEF ServiceInv, AgreeInv
  <1>2. job' = [kind |-> "Shutdown", todo |-> s, prev |-> mem, sess |-> NewSession,
                err |-> FALSE, failed |-> FALSE]
    BY DEF Start
  <1>3. Scripted(s, mem, mem) /\ (mem # None => OwnedBy(s, mem.owner.proc))
    <2>1. CASE mem = None
      BY <2>1, EmptyScripted DEF When
    <2>2. CASE mem # None
      <3>1. s = Rollback(mem.owner)
        BY <2>2 DEF When
      <3>2. mem.owner \in LeaseOwners
        BY <1>1, <2>2 DEF OptRecord, SoundRecord, Records
      <3>3. /\ Scripted(Rollback(mem.owner), mem, mem)
            /\ Rollback(mem.owner) # Reject => OwnedBy(Rollback(mem.owner), mem.owner.proc)
        BY <1>1, <2>2, <3>2, RollbackScripted
      <3> QED BY <2>2, <3>1, <3>3, RejectScripted
    <2> QED BY <2>1, <2>2
  <1>4. mem = None => s = <<>>
    BY DEF When
  <1> HIDE DEF s
  <1>5. /\ job'.kind = "Shutdown" /\ job'.todo = s /\ job'.prev = mem
        /\ job'.sess = NewSession /\ job'.err = FALSE /\ job'.failed = FALSE
    BY <1>2
  <1>6. NewSession \in Sessions /\ NewSession.phase = "Stopped"
    BY DEF NewSession, Sessions, SessionPhases
  <1>7. job' \in Jobs
    <2>1. s \in Seq(Elements) /\ mem \in Records \cup {None}
      BY <1>1, <1>3 DEF Scripted, Shape, OptRecord, SoundRecord
    <2> QED BY <1>2, <1>6, <2>1 DEF Jobs, Kinds
  <1>8. ServiceInv'
    BY <1>1, <1>3, <1>5, <1>7 DEF ServiceInv
  <1>9. Owned(session, s, mem, mem) /\ Owned(NewSession, s, mem, mem) /\ Sess(NewSession)
    <2>1. CASE mem = None
      BY <1>4, <1>6, <2>1, EmptyScripted DEF Owned, Sess
    <2>2. CASE mem # None
      BY <1>1, <1>3, <1>6, <2>2 DEF Owned, Sess
    <2> QED BY <2>1, <2>2
  <1>10. job' # Idle
    BY <1>5 DEF Idle
  <1> QED BY <1>1, <1>5, <1>8, <1>9, <1>10 DEF AgreeInv

\* A record read back from the journal.
LEMMA DecodedSound ==
    ASSUME NEW r, SoundRecord(r)
    PROVE  SoundRecord(Decoded(r))
  <1> DEFINE x == Decoded(r)
  <1>1. r \in Records
    BY DEF SoundRecord
  <1>2. /\ x \in Records /\ x.owner = r.owner /\ x.decl = r.decl /\ x.cand = r.cand
        /\ x.candOwner \in {r.candOwner, None} /\ x.phase = r.phase /\ x.steps = r.steps
    BY <1>1 DEF Decoded, Records
  <1>3. x # None /\ r # None
    BY <1>1, <1>2, NoneAssumption
  <1> HIDE DEF x
  <1>4. SoundRecord(x)
    BY <1>2, <1>3 DEF SoundRecord, Staged
  <1> QED BY <1>4 DEF x

\* The idle job.
LEMMA IdleAgrees ==
    /\ Idle \in Jobs /\ Idle.todo = <<>> /\ Idle.prev = None /\ Idle.kind = "Idle"
    /\ Idle.sess = NewSession /\ Idle.failed = FALSE /\ Idle.err = FALSE
    /\ Sess(NewSession) /\ NewSession.phase = "Stopped"
    /\ \A m : Scripted(<<>>, m, None) /\ Owned(NewSession, <<>>, m, None)
  <1>1. NewSession \in Sessions /\ NewSession.phase = "Stopped"
    BY DEF NewSession, Sessions, SessionPhases
  <1>2. <<>> \in Seq(Elements)
    BY EmptySeq
  <1> QED BY <1>1, <1>2, EmptyScripted DEF Idle, Jobs, Kinds, Sess, Owned

\* A restarted service has a new session and the decoded journal.
LEMMA RestartAgrees ==
    ASSUME ServiceInv, AgreeInv, Restart
    PROVE  ServiceInv' /\ AgreeInv'
  <1>1. OptRecord(mem')
    BY DecodedSound DEF Restart, ServiceInv, OptRecord
  <1>2. /\ session' = NewSession /\ job' = Idle /\ turn' = "start"
        /\ UNCHANGED <<disk, fd, alive, now, torn>>
    BY DEF Restart
  <1>3. ServiceInv'
    BY <1>1, <1>2, IdleAgrees DEF ServiceInv, OptRecord
  <1> QED BY <1>2, <1>3, IdleAgrees DEF AgreeInv

\* The answer: the session of the request replaces the old one.
LEMMA FinishAgrees ==
    ASSUME ServiceInv, AgreeInv, Finish
    PROVE  ServiceInv' /\ AgreeInv'
  <1> DEFINE ok == ~job.failed /\ ~job.err
             ends == job.kind = "Shutdown" \/ (job.kind = "Recover" /\ ~ok /\ turn = "start")
             fails == job.kind = "Recover" /\ ~ok
  <1>1. up /\ job # Idle /\ job.todo = <<>>
    BY DEF Finish
  <1>2. CASE ends
    BY <1>2, RestartAgrees DEF Finish
  <1>3. CASE ~ends /\ fails
    BY <1>3, ShutdownAgrees DEF Finish
  <1>4. CASE ~ends /\ ~fails
    <2>1. /\ job' = Idle /\ session' = IF ok THEN job.sess ELSE session
          /\ turn' = IF job.kind = "Recover" THEN "serve" ELSE "recover"
          /\ fd' = IF ok /\ job.kind = "Prepare" THEN session'.owner.proc ELSE fd
          /\ UNCHANGED <<disk, mem, up, alive, now, torn>>
      BY <1>4 DEF Finish
    <2>2. Sess(session')
      BY <2>1 DEF AgreeInv
    <2>3. fd' \in Procs \cup {None}
      <3>1. CASE ok /\ job.kind = "Prepare"
        <4>1. Sess(job.sess) /\ job.sess.phase # "Stopped"
          BY <3>1 DEF AgreeInv
        <4>2. job.sess.owner \in LeaseOwners
          BY <4>1 DEF Sess, Sessions
        <4> QED BY <2>1, <3>1, <4>2 DEF LeaseOwners
      <3>2. CASE ~(ok /\ job.kind = "Prepare")
        BY <2>1, <3>2 DEF ServiceInv
      <3> QED BY <3>1, <3>2
    <2>4. turn' \in {"start", "serve", "recover"}
      BY <2>1
    <2>5. ServiceInv'
      BY <2>1, <2>3, <2>4, IdleAgrees DEF ServiceInv, OptRecord
    <2>6. Owned(session', <<>>, mem, None)
      <3>1. CASE ok
        <4>1. ~Rejecting(job)
          BY <1>1, <3>1 DEF Rejecting
        <4>2. Owned(job.sess, <<>>, mem, job.prev)
          BY <1>1, <4>1 DEF AgreeInv
        <4> QED BY <2>1, <3>1, <4>2 DEF Owned
      <3>2. CASE ~ok
        <4>1. Owned(session, <<>>, mem, job.prev)
          BY <1>1 DEF AgreeInv
        <4> QED BY <2>1, <3>2, <4>1 DEF Owned
      <3> QED BY <3>1, <3>2
    <2>7. turn' = "serve" => mem = None \/ mem.phase # "RollingBack"
      <3> SUFFICES ASSUME job.kind = "Recover"
                   PROVE  mem = None \/ mem.phase # "RollingBack"
        BY <2>1
      <3>1. ok
        BY <1>4
      <3>2. Recovers(<<>>, mem, job.err)
        BY <1>1, <3>1 DEF AgreeInv
      <3> QED BY <3>1, <3>2 DEF Recovers, InCleanup
    <2> QED BY <2>1, <2>2, <2>5, <2>6, <2>7, IdleAgrees DEF AgreeInv
  <1> QED BY <1>2, <1>3, <1>4

\* The services' part of every step.
LEMMA NextAgrees ==
    ASSUME ServiceInv, AgreeInv, [Next]_vars
    PROVE  ServiceInv' /\ AgreeInv'
  <1>1. CASE Stop
    <2>1. mem # None /\ Start("Shutdown", Rollback(mem.owner), NewSession)
      BY <1>1 DEF Stop
    <2>2. Start("Shutdown", When(mem # None, Rollback(mem.owner)), NewSession)
      BY <2>1 DEF When
    <2>3. UNCHANGED <<disk, mem, session, fd, turn, up, alive, now, torn>>
      BY <1>1 DEF Stop
    <2> QED BY <2>2, <2>3, ShutdownAgrees
  <1>2. CASE Crash
    BY <1>2, RestartAgrees DEF Crash
  <1>3. CASE Tick
    <2>1. now' \in Nat
      BY <1>3 DEF Tick, ServiceInv
    <2>2. UNCHANGED <<disk, mem, session, fd, job, turn, up, alive, torn>>
      BY <1>3 DEF Tick
    <2> QED BY <2>1, <2>2 DEF ServiceInv, AgreeInv, Rejecting
  <1>4. CASE \E p \in Procs : OwnerExit(p)
    <2>1. /\ alive' \in SUBSET Procs /\ fd' \in Procs \cup {None}
          /\ UNCHANGED <<disk, mem, session, job, turn, up, now, torn>>
      BY <1>4 DEF OwnerExit, ServiceInv
    <2> QED BY <2>1 DEF ServiceInv, AgreeInv, Rejecting
  <1>5. CASE UNCHANGED vars
    BY <1>5 DEF vars, ServiceInv, AgreeInv, Rejecting
  <1> QED BY <1>1, <1>2, <1>3, <1>4, <1>5, RequestsAgree, RecoverAgrees, StepAgrees,
             FinishAgrees DEF Next

\* Between two requests the session and the journaled transaction belong to
\* the same process, and no client ever meets a RollingBack transaction: the
\* requests, the recovery of the main loop, the shutdown and the restart
\* change them separately (NetdService::process, NetworkTransaction, main).
THEOREM SessionSafety == Spec => []SessionSound
  <1>1. Init => ServiceInv /\ AgreeInv
    <2> SUFFICES ASSUME Init PROVE ServiceInv /\ AgreeInv
      OBVIOUS
    <2>1. ServiceInv
      BY IdleAgrees DEF Init, ServiceInv, OptRecord
    <2> QED BY <2>1, IdleAgrees DEF Init, AgreeInv
  <1>2. ServiceInv /\ AgreeInv /\ [Next]_vars => (ServiceInv /\ AgreeInv)'
    BY NextAgrees
  <1>3. ServiceInv /\ AgreeInv => SessionSound
    <2> SUFFICES ASSUME ServiceInv, AgreeInv PROVE SessionSound
      OBVIOUS
    <2>1. TypeOK
      BY DEF ServiceInv, AgreeInv, Sess, Sessions, OptRecord, SoundRecord, TypeOK
    <2>2. SessionOwnsTransaction
      BY DEF AgreeInv, Owned, SessionOwnsTransaction, SameProcess
    <2> QED BY <2>1, <2>2 DEF SessionSound
  <1> QED BY <1>1, <1>2, <1>3, PTL DEF Spec

-----------------------------------------------------------------------------
(* The live declaration                                                    *)

IsKernel(k) ==
    /\ k = [link |-> k.link, mtu |-> k.mtu, sysctl |-> k.sysctl, docker |-> k.docker,
            routes |-> k.routes, rules |-> k.rules, fw |-> k.fw]
    /\ k.sysctl \in BOOLEAN
    /\ k.rules = [t \in Tables |-> k.rules[t]] /\ k.fw = [t \in Tables |-> k.fw[t]]

FirewallCalls == {"prepare_firewall", "replace_firewall", "remove_firewall"}

RuleCalls == {"install_rule", "remove_rule"}

\* What call e may have done to the firewalls, rules and sysctls of k.
Effect(e, k, n) ==
    /\ IsKernel(n)
    /\ \A t \in Tables :
           /\ n.fw[t] # k.fw[t] => e.op \in FirewallCalls /\ e.d.table = t
           /\ n.rules[t] # k.rules[t] => e.op \in RuleCalls /\ e.d.table = t
           /\ e.op = "remove_firewall" /\ n.fw[t] # None => k.fw[t] # None
    /\ n.sysctl /\ ~k.sysctl => e.op = "prepare_sysctls" /\ e.r

\* A call that touches neither firewalls, rules nor sysctls.
LEMMA OtherEffect ==
    ASSUME NEW e, NEW k, NEW n, IsKernel(k), IsKernel(n),
           n.fw = k.fw, n.rules = k.rules, n.sysctl = k.sysctl
    PROVE  Effect(e, k, n)
  BY DEF Effect

\* An interface that disappears takes neither firewall nor rules with it.
LEMMA UnlinkedEffect ==
    ASSUME NEW k, NEW x, IsKernel(k)
    PROVE  LET n == Unlinked(k, x)
           IN IsKernel(n) /\ n.fw = k.fw /\ n.rules = k.rules /\ n.sysctl = k.sysctl
  <1> DEFINE n == Unlinked(k, x)
             z == [t \in Tables |-> [p \in Prefixes |->
                      IF k.routes[t][p] = "link" THEN "none" ELSE k.routes[t][p]]]
  <1>1. n = [k EXCEPT !.link = x, !.routes = z]
    BY DEF Unlinked, IsKernel
  <1> HIDE DEF n, z
  <1>2. IsKernel(n) /\ n.fw = k.fw /\ n.rules = k.rules /\ n.sysctl = k.sysctl
    BY <1>1 DEF IsKernel
  <1> QED BY <1>2 DEF n

\* A completed or partial call changes only the table it names, and only the
\* kind of object it is about.
LEMMA AppliedEffect ==
    ASSUME NEW e, NEW k, NEW S, IsKernel(k), WellFormed(e), e.op \in KernelCalls
    PROVE  /\ Effect(e, k, Applied(e, k, S))
           /\ S = Prefixes /\ e.op = "remove_firewall" =>
                  Applied(e, k, S).fw[e.d.table] = None
           /\ S = Prefixes /\ e.op = "restore_sysctls" /\ e.r => ~Applied(e, k, S).sysctl
  <1> DEFINE n == Applied(e, k, S)
             d == e.d
  <1>1. d \in Declarations /\ d.table \in Tables
    BY DEF WellFormed, Declarations
  <1>2. Prefixes # {}
    BY DeclAssumption
  <1>3. CASE e.op = "preflight"
    <2>1. n = k
      BY <1>3 DEF Applied
    <2> HIDE DEF n
    <2> QED BY <1>3, <2>1, OtherEffect DEF n
  <1>4. CASE e.op = "prepare_sysctls"
    <2>1. n = [k EXCEPT !.sysctl = @ \/ (S = Prefixes /\ e.r)] /\ e.r \in BOOLEAN
      BY <1>4 DEF Applied, WellFormed
    <2> HIDE DEF n
    <2>2. IsKernel(n) /\ n.fw = k.fw /\ n.rules = k.rules /\ (n.sysctl => k.sysctl \/ e.r)
      BY <2>1 DEF IsKernel
    <2>3. Effect(e, k, n)
      BY <1>4, <2>2 DEF Effect
    <2> QED BY <1>4, <2>3 DEF n
  <1>5. CASE e.op = "restore_sysctls"
    <2>1. n = [k EXCEPT !.sysctl = @ /\ ~(S = Prefixes /\ e.r)] /\ e.r \in BOOLEAN
      BY <1>5 DEF Applied, WellFormed
    <2> HIDE DEF n
    <2>2. /\ IsKernel(n) /\ n.fw = k.fw /\ n.rules = k.rules /\ (n.sysctl => k.sysctl)
          /\ S = Prefixes /\ e.r => ~n.sysctl
      BY <2>1 DEF IsKernel
    <2>3. Effect(e, k, n)
      BY <1>5, <2>2 DEF Effect
    <2> QED BY <1>5, <2>2, <2>3 DEF n
  <1>6. CASE e.op \in {"prepare_link", "update_mtu"}
    <2>1. \E x : n = [k EXCEPT !.mtu = x]
      <3>1. CASE e.op = "prepare_link"
        BY <3>1 DEF Applied
      <3>2. CASE e.op = "update_mtu"
        BY <3>2 DEF Applied
      <3> QED BY <1>6, <3>1, <3>2
    <2> HIDE DEF n
    <2>2. IsKernel(n) /\ n.fw = k.fw /\ n.rules = k.rules /\ n.sysctl = k.sysctl
      BY <2>1 DEF IsKernel
    <2> QED BY <1>6, <2>2, OtherEffect DEF n
  <1>7. CASE e.op \in {"activate_link", "deactivate_link", "remove_link"}
    <2>1. \/ n = k
          \/ \E x : n = [k EXCEPT !.link = x]
          \/ \E x : n = Unlinked(k, x)
      <3>1. CASE e.op = "activate_link"
        BY <3>1 DEF Applied
      <3>2. CASE e.op = "deactivate_link"
        BY <3>2 DEF Applied
      <3>3. CASE e.op = "remove_link"
        BY <3>3 DEF Applied
      <3> QED BY <1>7, <3>1, <3>2, <3>3
    <2> HIDE DEF n
    <2>2. IsKernel(n) /\ n.fw = k.fw /\ n.rules = k.rules /\ n.sysctl = k.sysctl
      <3>1. CASE n = k
        BY <3>1
      <3>2. CASE \E x : n = [k EXCEPT !.link = x]
        BY <3>2 DEF IsKernel
      <3>3. CASE \E x : n = Unlinked(k, x)
        BY <3>3, UnlinkedEffect
      <3> QED BY <2>1, <3>1, <3>2, <3>3
    <2> QED BY <1>7, <2>2, OtherEffect DEF n
  <1>8. CASE e.op \in {"prepare_routes", "reconcile_routes", "remove_routes"}
    <2>1. \E x : n = [k EXCEPT !.routes[d.table] = x]
      <3>1. CASE e.op = "prepare_routes"
        BY <3>1 DEF Applied, AddRoutes
      <3>2. CASE e.op = "reconcile_routes"
        BY <3>2 DEF Applied, ReconcileRoutes
      <3>3. CASE e.op = "remove_routes"
        BY <3>3 DEF Applied, DeleteRoutes
      <3> QED BY <1>8, <3>1, <3>2, <3>3
    <2> HIDE DEF n
    <2>2. IsKernel(n) /\ n.fw = k.fw /\ n.rules = k.rules /\ n.sysctl = k.sysctl
      BY <2>1 DEF IsKernel
    <2> QED BY <1>8, <2>2, OtherEffect DEF n
  <1>9. CASE e.op \in RuleCalls
    <2>1. \E x : n = [k EXCEPT !.rules[d.table] = x]
      <3>1. CASE e.op = "install_rule"
        BY <3>1 DEF Applied, ReconcileRules
      <3>2. CASE e.op = "remove_rule"
        BY <3>2 DEF Applied, RemoveRules
      <3> QED BY <1>9, <3>1, <3>2 DEF RuleCalls
    <2> HIDE DEF n
    <2>2. PICK x : n = [k EXCEPT !.rules[d.table] = x]
      BY <2>1
    <2>3. IsKernel(n) /\ n.fw = k.fw /\ n.sysctl = k.sysctl
      BY <2>2 DEF IsKernel
    <2>4. \A t \in Tables : t # d.table => n.rules[t] = k.rules[t]
      BY <2>2 DEF IsKernel
    <2>5. e.op \notin {"remove_firewall", "restore_sysctls"}
      BY <1>9 DEF RuleCalls
    <2>6. Effect(e, k, n)
      BY <1>9, <2>3, <2>4, <2>5 DEF Effect
    <2> QED BY <2>5, <2>6 DEF n
  <1>10. CASE e.op \in {"prepare_firewall", "replace_firewall"}
    <2>1. \/ n = k
          \/ n = [k EXCEPT !.fw[d.table] = FirewallOf(d), !.docker = @ \/ (S = Prefixes)]
      <3>1. CASE e.op = "prepare_firewall"
        BY <3>1 DEF Applied
      <3>2. CASE e.op = "replace_firewall"
        BY <3>2 DEF Applied
      <3> QED BY <1>10, <3>1, <3>2
    <2> HIDE DEF n
    <2>2. IsKernel(n) /\ n.rules = k.rules /\ n.sysctl = k.sysctl
      BY <2>1 DEF IsKernel
    <2>3. \A t \in Tables : t # d.table => n.fw[t] = k.fw[t]
      BY <2>1 DEF IsKernel
    <2>4. Effect(e, k, n)
      BY <1>10, <2>2, <2>3 DEF Effect, FirewallCalls
    <2> QED BY <1>10, <2>4 DEF n
  <1>11. CASE e.op = "remove_firewall"
    <2>1. /\ n = k \/ n = [k EXCEPT !.fw[d.table] = IF S = Prefixes THEN None ELSE @,
                                     !.docker = FALSE]
          /\ S = Prefixes => n = [k EXCEPT !.fw[d.table] = None, !.docker = FALSE]
      <3>1. CASE S # {}
        BY <1>11, <3>1 DEF Applied
      <3>2. CASE S = {}
        BY <1>2, <1>11, <3>2 DEF Applied
      <3> QED BY <3>1, <3>2
    <2> HIDE DEF n
    <2>2. IsKernel(n) /\ n.rules = k.rules /\ n.sysctl = k.sysctl
      BY <2>1 DEF IsKernel
    <2>3. /\ \A t \in Tables : /\ t # d.table => n.fw[t] = k.fw[t]
                               /\ n.fw[t] \in {None, k.fw[t]}
          /\ S = Prefixes => n.fw[d.table] = None
      <3>1. CASE n = k /\ S # Prefixes
        BY <3>1
      <3>2. CASE n = [k EXCEPT !.fw[d.table] = None, !.docker = FALSE]
        BY <1>1, <3>2 DEF IsKernel
      <3>3. CASE n = [k EXCEPT !.fw[d.table] = @, !.docker = FALSE] /\ S # Prefixes
        BY <1>1, <3>3 DEF IsKernel
      <3> QED BY <2>1, <3>1, <3>2, <3>3
    <2>4. Effect(e, k, n)
      BY <1>11, <2>2, <2>3 DEF Effect, FirewallCalls
    <2> QED BY <1>11, <2>3, <2>4 DEF n
  <1> QED BY <1>3, <1>4, <1>5, <1>6, <1>7, <1>8, <1>9, <1>10, <1>11
      DEF KernelCalls, RuleCalls

\* A call that fails part of the way has some of the same effect.
LEMMA PartlyEffect ==
    ASSUME NEW e, NEW k, NEW n, IsKernel(k), WellFormed(e), e.op \in KernelCalls,
           n \in PartlyApplied(e, k)
    PROVE  Effect(e, k, n)
  <1>1. CASE \E S : n = Applied(e, k, S)
    BY <1>1, AppliedEffect
  <1>2. CASE n = [Applied(e, k, Prefixes) EXCEPT !.docker = k.docker]
    <2> DEFINE a == Applied(e, k, Prefixes)
    <2>1. Effect(e, k, a)
      BY AppliedEffect
    <2>2. n = [a EXCEPT !.docker = k.docker]
      BY <1>2
    <2> HIDE DEF a
    <2>3. IsKernel(a)
      BY <2>1 DEF Effect
    <2>4. IsKernel(n) /\ n.fw = a.fw /\ n.rules = a.rules /\ n.sysctl = a.sysctl
      BY <2>2, <2>3 DEF IsKernel
    <2> QED BY <2>1, <2>4 DEF Effect
  <1> QED BY <1>1, <1>2 DEF PartlyApplied

Touching == FirewallCalls \cup RuleCalls

\* Script s leaves the live declaration of a staged record r alone.
Spares(s, r) ==
    Staged(r) => \A i \in 1..Len(s) :
                     s[i].op \in Touching => s[i].d.table # r.decl.table

\* It spares whatever record it can find or write.
Sparing(s, m) ==
    /\ Spares(s, m)
    /\ \A j \in 1..Len(s) : IsWrite(s[j]) => Spares(s, s[j].r)

LiveInv == Sparing(job.todo, mem) /\ IsKernel(kern)

\* Scripts that neither find nor write a staged record.
LEMMA TailedSparing ==
    ASSUME NEW C, NEW s, NEW w, Tailed(s, Calls(C), w), ~Staged(w.r), NEW m, ~Staged(m)
    PROVE  Sparing(s, m)
  <1>1. \A i \in 1..Len(s) : s[i] = w \/ ~IsWrite(s[i])
    BY CallsAreElements DEF Tailed, IsWrite
  <1> QED BY <1>1 DEF Sparing, Spares

\* The same for a script with a write on either side.
LEMMA EnclosedSparing ==
    ASSUME NEW C, NEW s, NEW v, NEW w, Enclosed(s, v, Calls(C), w), ~Staged(v.r),
           ~Staged(w.r), NEW m, ~Staged(m)
    PROVE  Sparing(s, m)
  <1>1. \A i \in 1..Len(s) : s[i] = v \/ s[i] = w \/ ~IsWrite(s[i])
    BY CallsAreElements DEF Enclosed, IsWrite
  <1> QED BY <1>1 DEF Sparing, Spares

\* Scripts that touch the candidate only, and drop or activate it.
LEMMA CandidateSparing ==
    ASSUME NEW m, SoundRecord(m), m.cand # None, NEW s, NEW x, ~Staged(x),
           \A i \in 1..Len(s) :
               /\ s[i].op \in Touching => s[i].d = m.cand
               /\ IsWrite(s[i]) => s[i].r = x
    PROVE  Sparing(s, m)
  <1>1. Staged(m) => m.cand.table # m.decl.table
    BY DEF SoundRecord
  <1> QED BY <1>1 DEF Sparing, Spares

\* Removing a staged candidate works in the candidate's table.
LEMMA DiscardSparing ==
    ASSUME NEW m, SoundRecord(m), m.cand # None
    PROVE  /\ Sparing(DiscardCandidate(m), m) /\ Sparing(DropCandidate(m), m)
           /\ Sparing(DropActivation(m), m)
  <1> DEFINE x == WithoutCandidate(m, "Active")
  <1>1. ~Staged(x)
    BY DEF WithoutCandidate, SoundRecord, Records, Staged
  <1> HIDE DEF x
  <1>2. ASSUME NEW c
        PROVE  LET a == Call("remove_firewall", m.cand, None, c)
                   b == Call("remove_routes", m.cand, {}, c)
                   w == Store(x, c)
               IN Sparing(<<a, b, w>>, m)
    <2> DEFINE a == Call("remove_firewall", m.cand, None, c)
               b == Call("remove_routes", m.cand, {}, c)
               w == Store(x, c)
               s == <<a, b, w>>
    <2>1. /\ ~IsWrite(a) /\ a.d = m.cand /\ ~IsWrite(b) /\ b.d = m.cand
          /\ w.op \notin Touching /\ w.r = x
      BY DEF Call, Store, IsWrite, RecordWrites, Touching, FirewallCalls, RuleCalls
    <2> HIDE DEF a, b, w
    <2>2. \A i \in 1..Len(s) : /\ s[i].op \in Touching => s[i].d = m.cand
                               /\ IsWrite(s[i]) => s[i].r = x
      BY <2>1
    <2> HIDE DEF s
    <2>3. Sparing(s, m)
      BY <1>1, <2>2, CandidateSparing
    <2> QED BY <2>3 DEF s, a, b, w
  <1>3. Sparing(DiscardCandidate(m), m) /\ Sparing(DropCandidate(m), m)
    BY <1>2 DEF DiscardCandidate, DropCandidate, x
  <1>4. Sparing(DropActivation(m), m)
    <2> DEFINE f == Call("remove_rule", m.cand, None, "ignore")
               a == Call("remove_firewall", m.cand, None, "ignore")
               b == Call("remove_routes", m.cand, {}, "ignore")
               w == Store(x, "ignore")
               s == <<f, a, b, w>>
    <2>1. /\ ~IsWrite(a) /\ a.d = m.cand /\ ~IsWrite(b) /\ b.d = m.cand
          /\ ~IsWrite(f) /\ f.d = m.cand /\ w.op \notin Touching /\ w.r = x
      BY DEF Call, Store, IsWrite, RecordWrites, Touching, FirewallCalls, RuleCalls
    <2>2. DropActivation(m) = s
      BY DEF DropActivation, x
    <2> HIDE DEF f, a, b, w
    <2>3. \A i \in 1..Len(s) : /\ s[i].op \in Touching => s[i].d = m.cand
                               /\ IsWrite(s[i]) => s[i].r = x
      BY <2>1
    <2> HIDE DEF s
    <2> QED BY <1>1, <2>2, <2>3, CandidateSparing
  <1> QED BY <1>3, <1>4

\* A refusal touches nothing.
LEMMA RejectSparing ==
    ASSUME NEW m
    PROVE  Sparing(Reject, m) /\ Sparing(<<>>, m)
  <1>1. /\ Len(Reject) = 1 /\ Reject[1].op = "reject"
    BY DEF Reject, Call
  <1>2. \A i \in 1..Len(Reject) : Reject[i].op \notin Touching /\ ~IsWrite(Reject[i])
    BY <1>1 DEF Touching, FirewallCalls, RuleCalls, IsWrite, RecordWrites
  <1> QED BY <1>2 DEF Sparing, Spares

\* cleanup_record first leaves the phase in which a candidate is staged.
LEMMA CleanupSparing ==
    ASSUME NEW m, SoundRecord(m), NEW n, ~Staged(n)
    PROVE  Sparing(Cleanup(m), n)
  <1> DEFINE r == [m EXCEPT !.phase = "RollingBack"]
             s == Cleanup(m)
             v == Store(r, "return")
             w == Call("clear", None, None, "soft")
  <1>1. SoundRecord(r) /\ r.phase = "RollingBack" /\ Enclosed(s, v, Cleaning(r), w)
    BY CleanupForm
  <1>2. ~Staged(r) /\ v.r = r /\ ~IsWrite(w)
    BY <1>1 DEF Staged, Store, Call, IsWrite, RecordWrites
  <1> HIDE DEF r, s, v, w
  <1>3. \A i \in 1..Len(s) : s[i] = v \/ ~IsWrite(s[i])
    BY <1>1, <1>2 DEF Enclosed, Cleaning, IsWrite
  <1>4. Sparing(s, n)
    BY <1>2, <1>3 DEF Sparing, Spares
  <1> QED BY <1>4 DEF s

\* The error branches spare the record they find.
LEMMA CaughtSparing ==
    ASSUME NEW s, NEW m, NEW prev, OptRecord(m), OptRecord(prev), Scripted(s, m, prev),
           s # <<>>
    PROVE  Sparing(Caught(s[1].catch, Remaining(s, m), prev), Remaining(s, m))
  <1> DEFINE n == Remaining(s, m)
             c == Caught(s[1].catch, n, prev)
  <1>1. 1 \in 1..Len(s) /\ Len(s) \in Nat
    BY EmptySeq DEF Scripted, Shape
  <1>2. WellFormed(s[1]) /\ s[1].catch \in Catches
    BY <1>1 DEF Scripted, Shape, WellFormed
  <1>3. OptRecord(n)
    BY <1>2 DEF Remaining, OptRecord, WellFormed, RecordWrites
  <1>4. CASE s[1].catch = "cleanup"
    <2>1. m # None
      BY <1>4 DEF Scripted, Shape
    <2>2. SoundRecord(n)
      BY <1>2, <2>1 DEF Remaining, OptRecord, WellFormed, RecordWrites
    <2>3. n.cand = None
      BY <1>1, <1>4, <2>1 DEF Scripted, Catchable, Remaining, IsWrite, RecordWrites
    <2>4. ~Staged(n)
      BY <2>3 DEF Staged
    <2>5. c = Cleanup(n)
      BY <1>4 DEF Caught
    <2> HIDE DEF n, c
    <2>6. Sparing(c, n)
      BY <2>2, <2>4, <2>5, CleanupSparing
    <2> QED BY <2>6 DEF n, c
  <1>5. CASE s[1].catch \in Drops
    <2>1. HasCandidate(n)
      BY <1>1, <1>5 DEF Scripted, Catchable, Remaining
    <2>2. SoundRecord(n) /\ n.cand # None
      BY <1>3, <2>1 DEF OptRecord, HasCandidate
    <2>3. c = DropActivation(n) \/ c = DropCandidate(n)
      BY <1>5 DEF Caught, Drops
    <2> HIDE DEF n, c
    <2>4. Sparing(c, n)
      BY <2>2, <2>3, DiscardSparing
    <2> QED BY <2>4 DEF n, c
  <1>6. CASE s[1].catch \in Restores
    <2>1. Intent(n, prev) /\ prev # None /\ prev.phase \in {"Active", "Suspended"}
      BY <1>1, <1>6 DEF Scripted, Catchable, Remaining
    <2>2. /\ SoundRecord(n) /\ SoundRecord(prev) /\ n.cand # None /\ ~Staged(n)
          /\ ~Staged(prev)
      BY <1>3, <2>1 DEF OptRecord, Intent, Staged
    <2>3. c = RestoreSuspended(n, prev) \/ c = RestorePolicy(n, prev)
      BY <1>6 DEF Caught, Restores
    <2> HIDE DEF n, c
    <2> DEFINE w == Adopt(prev, "return")
    <2>4. Tailed(c, Calls(Quiet), w)
      <3> DEFINE C == {e \in Calls(Quiet) : e.op # "prepare_firewall"}
      <3>1. /\ Tailed(RestoreSuspended(n, prev), Calls(Quiet), w)
            /\ Tailed(RestorePolicy(n, prev), C, w)
        BY <2>2, RestoreForm
      <3>2. C \subseteq Calls(Quiet)
        OBVIOUS
      <3> HIDE DEF C, w
      <3>3. Tailed(RestorePolicy(n, prev), Calls(Quiet), w)
        BY <3>1, <3>2, FormMonotonic
      <3> QED BY <2>3, <3>1, <3>3
    <2>5. w.r = prev
      BY <2>2, AdoptOrdinary
    <2> HIDE DEF w
    <2>6. Sparing(c, n)
      BY <2>2, <2>4, <2>5, TailedSparing
    <2> QED BY <2>6 DEF n, c
  <1>7. CASE s[1].catch \in Quiet
    <2>1. c = <<>>
      BY <1>7 DEF Caught, Quiet
    <2> QED BY <2>1, RejectSparing
  <1> QED BY <1>2, <1>4, <1>5, <1>6, <1>7 DEF Catches

\* What is left of a sparing script is sparing.
LEMMA TailSparing ==
    ASSUME NEW s, NEW m, NEW prev, NEW n, Scripted(s, m, prev), s # <<>>, OptRecord(m),
           Passes(s, m, n), Sparing(s, m)
    PROVE  Sparing(Tail(s), n)
  <1> DEFINE t == Tail(s)
  <1>1. s \in Seq(Elements)
    BY DEF Scripted, Shape
  <1>2. /\ Len(s) \in Nat \ {0} /\ Len(t) = Len(s) - 1
        /\ \A i \in 1..(Len(s) - 1) : t[i] = s[i + 1]
    BY <1>1, TailScript
  <1> HIDE DEF t
  <1>3. \A i \in 1..Len(t) : i + 1 \in 1..Len(s) /\ t[i] = s[i + 1]
    BY <1>2
  <1>4. \A r : Spares(s, r) => Spares(t, r)
    BY <1>3 DEF Spares
  <1>5. \A j \in 1..Len(t) : IsWrite(t[j]) => Spares(t, t[j].r)
    BY <1>3, <1>4 DEF Sparing
  <1>6. Spares(t, n)
    <2>1. CASE n = m
      BY <1>4, <2>1 DEF Sparing
    <2>2. CASE n = s[1].r /\ IsWrite(s[1])
      <3>1. 1 \in 1..Len(s)
        BY <1>2
      <3> QED BY <1>4, <2>2, <3>1 DEF Sparing
    <2>3. CASE s[1].op \in Cleaners /\ n # m
      <3>1. 1 \in 1..Len(s)
        BY <1>2
      <3>2. InCleanup(s) /\ Ambient(s, m) = m
        BY <2>3, <3>1 DEF Scripted, CleanupShape, Ambient, Cleaners
      <3>3. m # None /\ m.phase = "RollingBack"
        BY <3>2 DEF Scripted, CleanupShape
      <3>4. n # None => n.phase = m.phase
        BY <2>3, <3>3, PassesSound DEF IsWrite, RecordWrites, Cleaners
      <3>5. ~Staged(n)
        BY <3>3, <3>4 DEF Staged
      <3> QED BY <3>5 DEF Spares
    <2> QED BY <2>1, <2>2, <2>3 DEF Passes, Cleaners
  <1> QED BY <1>5, <1>6 DEF Sparing, t

\* The same for the element that clears a bit.
LEMMA ThenSparing ==
    ASSUME NEW s, NEW m, NEW prev, Scripted(s, m, prev), s # <<>>,
           NEW b \in StepBits, s[1].then = Undoing(b)
    PROVE  Sparing(Undoing(b) \o Tail(s), m)
  <1> DEFINE t == Undoing(b) \o Tail(s)
             c == Call("clear_step", None, b, "soft")
  <1>1. /\ Scripted(t, m, prev) /\ t[1] = c /\ c.op = "clear_step" /\ InCleanup(t)
        /\ Ambient(t, m) = m
    BY ThenScripted
  <1> HIDE DEF t, c
  <1>2. m # None /\ m.phase = "RollingBack"
    BY <1>1 DEF Scripted, CleanupShape
  <1>3. \A i \in 1..Len(t) : ~IsWrite(t[i])
    BY <1>1 DEF Scripted, CleanupShape, IsWrite, RecordWrites
  <1>4. ~Staged(m)
    BY <1>2 DEF Staged
  <1>5. Sparing(t, m)
    BY <1>3, <1>4 DEF Sparing, Spares
  <1> QED BY <1>5 DEF t

\* Whatever a step leaves spares the live declaration.
LEMMA OutcomeSparing ==
    ASSUME NEW j \in Jobs, NEW m, NEW k, NEW n, OptRecord(m), OptRecord(j.prev),
           Scripted(j.todo, m, j.prev), j.todo # <<>>, Outcome(j, m, k, n),
           Sparing(j.todo, m)
    PROVE  Sparing(k.todo, n)
  <1>1. CASE k.todo = Tail(j.todo) /\ Passes(j.todo, m, n)
    BY <1>1, TailSparing
  <1>2. CASE /\ n = m
             /\ \E b \in StepBits : /\ j.todo[1].then = Undoing(b)
                                    /\ k.todo = Undoing(b) \o Tail(j.todo)
    BY <1>2, ThenSparing
  <1>3. CASE n = Remaining(j.todo, m) /\ k.todo = Caught(j.todo[1].catch, n, j.prev)
    BY <1>3, CaughtSparing
  <1> QED BY <1>1, <1>2, <1>3 DEF Outcome

\* Every handler spares the live declaration.
LEMMA ReplacementSparing ==
    ASSUME SoundRecord(mem), mem.phase = "Active", NEW o \in LeaseOwners,
           SameProcess(mem.owner, o), NEW d \in Declarations,
           PrepareReplacement(o, d) # Reject
    PROVE  Sparing(PrepareReplacement(o, d), mem)
  <1>1. ~Staged(mem)
    BY DEF Staged
  <1>2. CASE d = mem.decl
    <2> DEFINE x == [mem EXCEPT !.owner = o]
    <2>1. PrepareReplacement(o, d) = <<Adopt(x, "return")>>
      BY <1>2 DEF PrepareReplacement
    <2>2. /\ SoundRecord(x)
          /\ Tailed(<<Adopt(x, "return")>>, Calls(Quiet), Adopt(x, "return"))
      BY ReownForm
    <2>3. ~Staged(x)
      BY DEF Staged, SoundRecord, Records
    <2> HIDE DEF x
    <2>4. Adopt(x, "return").r = x
      BY <2>2, AdoptOrdinary
    <2> QED BY <1>1, <2>1, <2>2, <2>3, <2>4, TailedSparing
  <1>3. CASE d # mem.decl
    <2> DEFINE x == [mem EXCEPT !.cand = d, !.candOwner = o,
                                !.phase = "Preparing", !.deadline = 0]
               y == [x EXCEPT !.phase = "Prepared"]
               a == Call("preflight", d, None, "drop_candidate")
               b == Call("prepare_link", d, None, "drop_candidate")
               c == Call("prepare_routes", d, None, "drop_candidate")
               f == Call("prepare_firewall", d, None, "drop_candidate")
               v == Store(x, "return")
               w == Store(y, "return")
               s == <<v, a, b, c, f, w>>
    <2>1. PrepareReplacement(o, d) = s /\ d.table # mem.decl.table
      BY <1>3 DEF PrepareReplacement
    <2>2. x.decl = mem.decl /\ y.decl = mem.decl
      BY DEF SoundRecord, Records
    <2>3. /\ v.r = x /\ w.r = y /\ v.op = "store" /\ w.op = "store"
          /\ a.d = d /\ b.d = d /\ c.d = d /\ f.d = d
          /\ ~IsWrite(a) /\ ~IsWrite(b) /\ ~IsWrite(c) /\ ~IsWrite(f)
      BY DEF Store, Call, IsWrite, RecordWrites
    <2> HIDE DEF x, y, a, b, c, f, v, w
    <2>4. \A i \in 1..Len(s) : /\ s[i].op = "store" \/ s[i].d = d
                               /\ IsWrite(s[i]) => s[i].r = x \/ s[i].r = y
      BY <2>3
    <2> HIDE DEF s
    <2>5. Spares(s, x) /\ Spares(s, y)
      BY <2>1, <2>2, <2>4 DEF Spares, Touching, FirewallCalls, RuleCalls
    <2> QED BY <1>1, <2>1, <2>4, <2>5 DEF Sparing, Spares
  <1> QED BY <1>2, <1>3

\* The other handlers, in turn.
LEMMA ReconfigureSparing ==
    ASSUME SoundRecord(mem), NEW o \in LeaseOwners, NEW d \in Declarations,
           Reconfigure(o, d) # Reject
    PROVE  Sparing(Reconfigure(o, d), mem)
  <1>1. /\ mem # None /\ SameProcess(mem.owner, o) /\ mem.phase \in {"Active", "Suspended"}
    BY DEF Reconfigure
  <1>2. ~Staged(mem)
    BY <1>1 DEF Staged
  <1>3. CASE mem.phase = "Active"
    <2>1. Reconfigure(o, d) = PrepareReplacement(o, d)
      BY <1>1, <1>3 DEF Reconfigure
    <2> QED BY <1>1, <1>3, <2>1, ReplacementSparing
  <1>4. CASE mem.phase = "Suspended" /\ d = mem.decl
    <2> DEFINE x == [mem EXCEPT !.owner = o]
    <2>1. Reconfigure(o, d) = <<Adopt(x, "return")>>
      BY <1>1, <1>4 DEF Reconfigure
    <2>2. /\ SoundRecord(x)
          /\ Tailed(<<Adopt(x, "return")>>, Calls(Quiet), Adopt(x, "return"))
      BY <1>1, ReownForm
    <2>3. ~Staged(x)
      BY <1>4 DEF Staged, SoundRecord, Records
    <2> HIDE DEF x
    <2>4. Adopt(x, "return").r = x
      BY <2>2, AdoptOrdinary
    <2> QED BY <1>2, <2>1, <2>2, <2>3, <2>4, TailedSparing
  <1>5. CASE mem.phase = "Suspended" /\ d # mem.decl
    <2> DEFINE x == [mem EXCEPT !.phase = "RollingBack", !.cand = d, !.candOwner = o]
               y == [mem EXCEPT !.owner = o, !.decl = d, !.failed = {}, !.deadline = 0]
               do(op, a) == Call(op, a, {}, "restore_suspended")
               s == <<Store(x, "return"), do("remove_firewall", mem.decl),
                      do("remove_routes", mem.decl), do("prepare_link", d),
                      do("prepare_routes", d), do("prepare_firewall", d),
                      Adopt(y, "restore_suspended")>>
    <2>1. Reconfigure(o, d) = s /\ d.table = mem.decl.table
      BY <1>1, <1>5 DEF Reconfigure
    <2>2. /\ SoundRecord(x) /\ SoundRecord(y) /\ Intent(x, mem)
          /\ x.owner.proc = mem.owner.proc /\ y.owner.proc = mem.owner.proc
          /\ Enclosed(s, Store(x, "return"), Calls({"restore_suspended"}),
                      Adopt(y, "restore_suspended"))
      <3>1. /\ mem.phase = "Suspended" /\ SameProcess(mem.owner, o)
            /\ d.table = mem.decl.table
        BY <1>1, <1>5, <2>1
      <3> QED BY <3>1, ReconfigureForm, ZenonT(60)
    <2>3. ~Staged(x) /\ ~Staged(y)
      <3>1. y.phase = "Suspended"
        BY <1>5 DEF SoundRecord, Records
      <3> HIDE DEF x, y, s
      <3> QED BY <2>2, <3>1 DEF Staged, Intent
    <2> HIDE DEF x, y, s
    <2>4. Store(x, "return").r = x /\ Adopt(y, "restore_suspended").r = y
      BY DEF Store, Adopt, Call
    <2> QED BY <1>2, <2>1, <2>2, <2>3, <2>4, EnclosedSparing
  <1> QED BY <1>1, <1>3, <1>4, <1>5

LEMMA PolicySparing ==
    ASSUME SoundRecord(mem), NEW o \in LeaseOwners, NEW d \in Declarations,
           UpdatePolicy(o, d) # Reject
    PROVE  Sparing(UpdatePolicy(o, d), mem)
  <1>1. /\ mem # None /\ SameOwner(mem.owner, o) /\ mem.phase \in {"Active", "Suspended"}
        /\ SameTunnel(mem.decl, d)
    BY DEF UpdatePolicy
  <1>2. ~Staged(mem) /\ mem.cand = None
    BY <1>1 DEF Staged, SoundRecord
  <1>3. CASE d = mem.decl
    <2> DEFINE a == Call("install_rule", d, None, "return")
    <2>1. UpdatePolicy(o, d) = When(mem.phase = "Active", <<a>>)
      BY <1>1, <1>2, <1>3 DEF UpdatePolicy
    <2>2. ~IsWrite(a)
      BY DEF Call, IsWrite, RecordWrites
    <2> HIDE DEF a
    <2>3. UpdatePolicy(o, d) \in {<<>>, <<a>>}
      BY <2>1 DEF When
    <2>4. Sparing(<<a>>, mem)
      BY <1>2, <2>2 DEF Sparing, Spares
    <2> QED BY <2>3, <2>4, RejectSparing
  <1>4. CASE d # mem.decl
    <2> DEFINE retained == mem.failed \cap d.remote
               x == [mem EXCEPT !.phase = "RollingBack", !.cand = d, !.candOwner = o]
               y == [mem EXCEPT !.decl = d, !.failed = retained, !.candOwner = None]
               C == {e \in Calls({"restore_policy"}) : e.op # "prepare_firewall"}
               do(op, a) == Call(op, d, a, "restore_policy")
               s == <<Store(x, "return")>>
                    \o When(RoutesChanged(mem.decl, d), <<do("reconcile_routes", retained)>>)
                    \o When(FirewallChanged(mem.decl, d), <<do("replace_firewall", None)>>)
                    \o When(mem.phase = "Active", <<do("install_rule", None)>>)
                    \o <<Adopt(y, "restore_policy")>>
    <2>1. UpdatePolicy(o, d) = s /\ d.table = mem.decl.table
      BY <1>1, <1>2, <1>4 DEF UpdatePolicy, SameTunnel
    <2>2. SameProcess(mem.owner, o)
      BY <1>1 DEF SameOwner
    <2>3. /\ SoundRecord(x) /\ SoundRecord(y) /\ Intent(x, mem)
          /\ x.owner.proc = mem.owner.proc /\ y.owner.proc = mem.owner.proc
          /\ Enclosed(s, Store(x, "return"), C, Adopt(y, "restore_policy"))
      <3>1. /\ mem.phase \in {"Active", "Suspended"} /\ SameProcess(mem.owner, o)
            /\ d.table = mem.decl.table
        BY <1>1, <2>1, <2>2
      <3> QED BY <3>1, PolicyForm, ZenonT(60)
    <2>4. ~Staged(x) /\ ~Staged(y)
      <3>1. y.phase = mem.phase
        BY DEF SoundRecord, Records
      <3> HIDE DEF x, y, s
      <3> QED BY <1>1, <2>3, <3>1 DEF Staged, Intent
    <2>5. C \subseteq Calls({"restore_policy"})
      OBVIOUS
    <2> HIDE DEF x, y, s, C
    <2>6. Store(x, "return").r = x /\ Adopt(y, "restore_policy").r = y
      BY DEF Store, Adopt, Call
    <2>7. Enclosed(s, Store(x, "return"), Calls({"restore_policy"}),
                   Adopt(y, "restore_policy"))
      BY <2>3, <2>5 DEF Enclosed
    <2> QED BY <1>2, <2>1, <2>4, <2>6, <2>7, EnclosedSparing
  <1> QED BY <1>3, <1>4

LEMMA CommitSparing ==
    ASSUME OptRecord(mem), NEW o \in LeaseOwners, Commit(o) # Reject
    PROVE  Sparing(Commit(o), mem)
  <1>1. mem # None /\ SoundRecord(mem)
    BY DEF Commit, OptRecord
  <1>2. CASE mem.phase # "Prepared"
    <2>1. Commit(o) = <<>>
      BY <1>1, <1>2 DEF Commit
    <2> QED BY <2>1, RejectSparing
  <1>3. CASE mem.phase = "Prepared" /\ mem.cand # None
    <2> DEFINE c == mem.cand
               y == [mem EXCEPT !.phase = "Draining", !.deadline = now + DrainLen]
               w == Store(y, "drop_activation")
               a == Call("activate_link", c, None, "drop_activation")
               b == Call("install_rule", c, None, "drop_activation")
               s == <<a, b, w>>
    <2>1. Commit(o) = s
      BY <1>1, <1>3 DEF Commit
    <2>2. ~Staged(y)
      BY <1>1 DEF Staged, SoundRecord, Records
    <2>3. /\ ~IsWrite(a) /\ a.d = c /\ ~IsWrite(b) /\ b.d = c
          /\ w.op \notin Touching /\ w.r = y
      BY DEF Store, Call, IsWrite, RecordWrites, Touching, FirewallCalls, RuleCalls
    <2> HIDE DEF a, b, w, y
    <2>4. \A i \in 1..Len(s) : /\ s[i].op \in Touching => s[i].d = c
                               /\ IsWrite(s[i]) => s[i].r = y
      BY <2>3
    <2> HIDE DEF s
    <2> QED BY <1>1, <1>3, <2>1, <2>2, <2>4, CandidateSparing
  <1>4. CASE mem.phase = "Prepared" /\ mem.cand = None
    <2> DEFINE x == WithSteps(mem, {"rule"})
               y == [x EXCEPT !.phase = "Active"]
               v == Store(x, "cleanup")
               w == Store(y, "cleanup")
               a == Call("install_rule", mem.decl, None, "cleanup")
               s == <<v, a, w>>
    <2>1. Commit(o) = s
      BY <1>1, <1>4 DEF Commit
    <2>2. ~Staged(x) /\ ~Staged(y) /\ ~Staged(mem)
      BY <1>1, <1>4 DEF WithSteps, Staged, SoundRecord, Records
    <2>3. v.r = x /\ w.r = y /\ ~IsWrite(a)
      BY DEF Store, Call, IsWrite, RecordWrites
    <2> HIDE DEF x, y, v, w, a
    <2>4. \A i \in 1..Len(s) : IsWrite(s[i]) => s[i].r = x \/ s[i].r = y
      BY <2>3
    <2> HIDE DEF s
    <2> QED BY <2>1, <2>2, <2>4 DEF Sparing, Spares
  <1> QED BY <1>2, <1>3, <1>4

LEMMA PrepareSparing ==
    ASSUME OptRecord(mem), NEW o \in LeaseOwners, NEW d \in Declarations,
           Prepare(o, d) # Reject
    PROVE  Sparing(Prepare(o, d), mem)
  <1>1. CASE mem # None
    <2>1. Prepare(o, d) = <<>>
      BY <1>1 DEF Prepare
    <2> QED BY <2>1, RejectSparing
  <1>2. CASE mem = None
    <2> DEFINE r0 == [owner |-> o, decl |-> d, cand |-> None, candOwner |-> None,
                      phase |-> "Preparing", steps |-> {}, sysctls |-> FALSE,
                      deadline |-> 0, failed |-> {}]
               v == Adopt(r0, "return")
               s == Prepare(o, d)
    <2>1. Headed(s, v, Building(o)) /\ r0.cand = None
      BY <1>2, PrepareForm
    <2> HIDE DEF r0, s
    <2>2. v.r = r0
      BY DEF Adopt, Call
    <2> HIDE DEF v
    <2>3. \A i \in 1..Len(s) : IsWrite(s[i]) => s[i].r.cand = None
      BY <2>1, <2>2 DEF Headed, Building
    <2>4. Sparing(s, mem)
      BY <1>2, <2>3 DEF Sparing, Spares, Staged
    <2> QED BY <2>4 DEF s
  <1> QED BY <1>1, <1>2

LEMMA DrainSparing ==
    ASSUME OptRecord(mem), NEW o \in LeaseOwners, DrainOld(o) # Reject
    PROVE  Sparing(DrainOld(o), mem)
  <1>1. mem # None /\ SoundRecord(mem)
    BY DEF DrainOld, OptRecord
  <1>2. CASE mem.phase = "Active" /\ mem.cand = None
    <2>1. DrainOld(o) = <<>>
      BY <1>1, <1>2 DEF DrainOld
    <2> QED BY <2>1, RejectSparing
  <1>3. CASE ~(mem.phase = "Active" /\ mem.cand = None)
    <2> DEFINE x == [WithoutCandidate(mem, "Active") EXCEPT
                         !.owner = IF mem.candOwner = None THEN o ELSE mem.candOwner,
                         !.decl = mem.cand]
               a == Call("remove_rule", mem.decl, None, "return")
               b == Call("remove_firewall", mem.decl, None, "return")
               c == Call("remove_routes", mem.decl, {}, "return")
               w == Store(x, "return")
               s == <<a, b, c, w>>
    <2>1. mem.phase = "Draining" /\ DrainOld(o) = s
      BY <1>1, <1>3 DEF DrainOld
    <2>2. ~Staged(x) /\ ~Staged(mem)
      BY <1>1, <2>1 DEF WithoutCandidate, Staged, SoundRecord, Records
    <2>3. ~IsWrite(a) /\ ~IsWrite(b) /\ ~IsWrite(c) /\ w.r = x
      BY DEF Store, Call, IsWrite, RecordWrites
    <2> HIDE DEF x, a, b, c, w
    <2>4. \A i \in 1..Len(s) : IsWrite(s[i]) => s[i].r = x
      BY <2>3
    <2> HIDE DEF s
    <2> QED BY <2>1, <2>2, <2>4 DEF Sparing, Spares
  <1> QED BY <1>2, <1>3

\* Suspend, Resume, WithdrawPrefixes and MtuUpdate: nothing is staged.
LEMMA SettledSparing ==
    ASSUME SoundRecord(mem), mem.phase \in {"Active", "Suspended"}, NEW o \in LeaseOwners
    PROVE  /\ Suspend(o) # Reject => Sparing(Suspend(o), mem)
           /\ Resume(o) # Reject => Sparing(Resume(o), mem)
           /\ \A m \in Nat : UpdateMtu(o, m) # Reject => Sparing(UpdateMtu(o, m), mem)
           /\ \A f \in SUBSET Prefixes :
                  SetFailedPrefixes(o, f) # Reject => Sparing(SetFailedPrefixes(o, f), mem)
  <1>1. mem # None /\ mem.cand = None /\ ~Staged(mem) /\ mem \in Records
    BY NoneAssumption DEF SoundRecord, Staged
  <1>2. ASSUME NEW a, ~IsWrite(a), NEW x, NEW y, ~Staged(x), ~Staged(y)
        PROVE  Sparing(<<a, Store(x, "return"), Store(y, "return")>>, mem)
    <2> DEFINE v == Store(x, "return")
               w == Store(y, "return")
               s == <<a, v, w>>
    <2>1. v.r = x /\ w.r = y
      BY DEF Store, Call
    <2> HIDE DEF v, w
    <2>2. \A i \in 1..Len(s) : IsWrite(s[i]) => s[i].r = x \/ s[i].r = y
      BY <1>2, <2>1
    <2> HIDE DEF s
    <2>3. Sparing(s, mem)
      BY <1>1, <1>2, <2>2 DEF Sparing, Spares
    <2> QED BY <2>3 DEF s, v, w
  <1>3. ASSUME Suspend(o) # Reject PROVE Sparing(Suspend(o), mem)
    <2> DEFINE x == [mem EXCEPT !.steps = @ \ {"rule"}]
               y == [x EXCEPT !.phase = "Suspended"]
               a == Call("remove_rule", mem.decl, None, "return")
    <2>1. Suspend(o) = <<>> \/ Suspend(o) = <<a, Store(x, "return"), Store(y, "return")>>
      BY <1>3 DEF Suspend
    <2>2. ~Staged(x) /\ ~Staged(y) /\ ~IsWrite(a)
      BY <1>1 DEF Staged, Records, Call, IsWrite, RecordWrites
    <2> HIDE DEF x, y, a
    <2> QED BY <1>2, <2>1, <2>2, RejectSparing
  <1>4. ASSUME Resume(o) # Reject PROVE Sparing(Resume(o), mem)
    <2> DEFINE x == WithSteps(mem, {"rule"})
               y == [x EXCEPT !.phase = "Active"]
               a == Call("install_rule", mem.decl, None, "return")
    <2>1. Resume(o) = <<>> \/ Resume(o) = <<a, Store(x, "return"), Store(y, "return")>>
      BY <1>4 DEF Resume
    <2>2. ~Staged(x) /\ ~Staged(y) /\ ~IsWrite(a)
      BY <1>1 DEF WithSteps, Staged, Records, Call, IsWrite, RecordWrites
    <2> HIDE DEF x, y, a
    <2> QED BY <1>2, <2>1, <2>2, RejectSparing
  <1>5. ASSUME NEW m \in Nat, UpdateMtu(o, m) # Reject PROVE Sparing(UpdateMtu(o, m), mem)
    <2> DEFINE x == [mem EXCEPT !.decl.mtu = m]
               s == <<Call("update_mtu", mem.decl, m, "return"), Store(x, "return")>>
    <2>1. mem.phase = "Active" /\ UpdateMtu(o, m) = s
      BY <1>5 DEF UpdateMtu
    <2>2. SoundRecord(x) /\ Tailed(s, Calls(Quiet), Store(x, "return"))
      BY <2>1, MtuForm
    <2>3. ~Staged(x) /\ Store(x, "return").r = x
      BY <1>1 DEF Staged, Records, Store, Call
    <2> HIDE DEF x, s
    <2> QED BY <1>1, <2>1, <2>2, <2>3, TailedSparing
  <1>6. ASSUME NEW f \in SUBSET Prefixes, SetFailedPrefixes(o, f) # Reject
        PROVE  Sparing(SetFailedPrefixes(o, f), mem)
    <2> DEFINE x == [mem EXCEPT !.failed = f]
               s == SetFailedPrefixes(o, f)
    <2>1. s = <<Call("reconcile_routes", mem.decl, f, "return")>>
              \o When(mem.phase = "Active",
                      <<Call("install_rule", mem.decl, None, "return")>>)
              \o <<Store(x, "return")>>
      BY <1>6 DEF SetFailedPrefixes
    <2>2. /\ SoundRecord(x) /\ x.owner = mem.owner
          /\ Tailed(s, Calls(Quiet), Store(x, "return"))
      BY <2>1, WithdrawForm
    <2>3. ~Staged(x) /\ Store(x, "return").r = x
      BY <1>1 DEF Staged, Records, Store, Call
    <2> HIDE DEF x, s
    <2>4. Sparing(s, mem)
      BY <1>1, <2>2, <2>3, TailedSparing
    <2> QED BY <2>4 DEF s
  <1> QED BY <1>3, <1>4, <1>5, <1>6

\* Renewal and rollback of a staged transaction.
LEMMA RenewSparing ==
    ASSUME OptRecord(mem), NEW o \in LeaseOwners, RenewLease(o) # Reject
    PROVE  Sparing(RenewLease(o), mem)
  <1> DEFINE w == Store([mem EXCEPT !.owner.lease = o.lease], "return")
             s == <<w>>
  <1>1. RenewLease(o) = s
    BY DEF RenewLease
  <1>2. w.op \notin Touching
    BY DEF Store, Call, Touching, FirewallCalls, RuleCalls
  <1> HIDE DEF w
  <1>3. \A i \in 1..Len(s) : s[i].op \notin Touching
    BY <1>2
  <1> HIDE DEF s
  <1> QED BY <1>1, <1>3 DEF Sparing, Spares

LEMMA RollbackSparing ==
    ASSUME OptRecord(mem), NEW o \in LeaseOwners
    PROVE  Sparing(Rollback(o), mem)
  <1>1. CASE Rollback(o) = Reject
    BY <1>1, RejectSparing
  <1>2. CASE Rollback(o) # Reject /\ Staged(mem)
    <2>1. Rollback(o) = DiscardCandidate(mem) /\ SoundRecord(mem) /\ mem.cand # None
      BY <1>2 DEF Rollback, OptRecord, Staged
    <2> QED BY <2>1, DiscardSparing
  <1>3. CASE Rollback(o) # Reject /\ ~Staged(mem)
    <2>1. Rollback(o) = Cleanup(mem) /\ SoundRecord(mem)
      BY <1>3 DEF Rollback, OptRecord
    <2> QED BY <1>3, <2>1, CleanupSparing
  <1> QED BY <1>1, <1>2, <1>3

\* The recovery of an orphan.
LEMMA RecoverSparing ==
    ASSUME SoundRecord(mem)
    PROVE  Sparing(RecoverScript(mem), mem)
  <1>1. mem # None /\ mem \in Records
    BY NoneAssumption DEF SoundRecord
  <1>2. CASE PolicyIntent(mem) /\ mem.candOwner = mem.owner
    <2> DEFINE x == [mem EXCEPT !.cand = None, !.candOwner = None,
                         !.phase = IF "rule" \in mem.steps THEN "Active" ELSE "Suspended"]
               C == {e \in Calls(Quiet) : e.op # "prepare_firewall"}
               w == Adopt(x, "return")
               s == RecoverPolicyUpdate(mem)
    <2>1. RecoverScript(mem) = s /\ ~Staged(mem)
      <3>1. ~Staged(mem) /\ mem.phase # "Draining"
        BY <1>2 DEF PolicyIntent, Staged
      <3> QED BY <1>2, <3>1 DEF RecoverScript
    <2>2. SoundRecord(x) /\ x.owner = mem.owner /\ Tailed(s, C, w)
      BY <1>2, RecoverPolicyForm, ZenonT(60)
    <2>3. ~Staged(x) /\ w.r = x
      BY <1>1 DEF Records, Staged, Adopt, Call
    <2>4. C \subseteq Calls(Quiet)
      OBVIOUS
    <2> HIDE DEF x, s, w, C
    <2>5. Tailed(s, Calls(Quiet), w)
      BY <2>2, <2>4, FormMonotonic
    <2> QED BY <2>1, <2>3, <2>5, TailedSparing
  <1>3. CASE ~(PolicyIntent(mem) /\ mem.candOwner = mem.owner) /\ Staged(mem)
    <2>1. RecoverScript(mem) = DiscardCandidate(mem) /\ mem.cand # None
      BY <1>3 DEF RecoverScript, Staged
    <2> QED BY <2>1, DiscardSparing
  <1>4. CASE /\ ~(PolicyIntent(mem) /\ mem.candOwner = mem.owner) /\ ~Staged(mem)
             /\ mem.phase = "Draining"
    <2> DEFINE o == IF mem.candOwner = None THEN mem.owner ELSE mem.candOwner
    <2>1. RecoverScript(mem) = DrainOld(o)
      BY <1>4 DEF RecoverScript
    <2>2. o \in LeaseOwners
      BY <1>1 DEF Records
    <2> HIDE DEF o
    <2> QED BY <2>1, <2>2, DrainSparing, RejectSparing DEF OptRecord
  <1>5. CASE /\ ~(PolicyIntent(mem) /\ mem.candOwner = mem.owner) /\ ~Staged(mem)
             /\ mem.phase # "Draining"
    <2>1. RecoverScript(mem) = Cleanup(mem)
      BY <1>5 DEF RecoverScript
    <2> QED BY <1>5, <2>1, CleanupSparing
  <1> QED BY <1>2, <1>3, <1>4, <1>5

\* What a step of a script does to the kernel.
LEMMA StepEffect ==
    ASSUME ServiceInv, IsKernel(kern), Step
    PROVE  LET e == job.todo[1]
           IN /\ IsKernel(kern')
              /\ \/ UNCHANGED kern
                 \/ e.op \in KernelCalls /\ Effect(e, kern, kern')
  <1> DEFINE e == job.todo[1]
  <1>1. job.todo # <<>>
    BY DEF Step
  <1>2. Head(job.todo) = e /\ WellFormed(e) /\ e.op \in Operations
    BY <1>1, FirstElement
  <1>3. \/ StepKernel(e) \/ RefuseKernel(e) \/ FailKernel(e) \/ StepSkip(e)
        \/ StopRestore(e) \/ StepWrite(e) \/ FailWrite(e) \/ StepClear(e)
    BY <1>2 DEF Step
  <1> HIDE DEF e
  <1>4. e.op \notin Writes \cup {"clear", "unless_failed", "reject"} => e.op \in KernelCalls
    BY <1>2 DEF Operations, Writes, RecordWrites, Cleaners
  <1>5. CASE StepKernel(e)
    <2>1. e.op \in KernelCalls /\ kern' = Applied(e, kern, Prefixes)
      <3>1. e.op # "reject"
        BY <1>5 DEF StepKernel, Feasible
      <3> QED BY <1>4, <1>5, <3>1 DEF StepKernel
    <2>2. Effect(e, kern, kern')
      BY <1>2, <2>1, AppliedEffect
    <2> QED BY <2>1, <2>2 DEF Effect, e
  <1>6. CASE FailKernel(e)
    <2>1. e.op \in KernelCalls /\ kern' \in PartlyApplied(e, kern)
      BY <1>4, <1>6 DEF FailKernel
    <2>2. Effect(e, kern, kern')
      BY <1>2, <2>1, PartlyEffect
    <2> QED BY <2>1, <2>2 DEF Effect, e
  <1>7. CASE ~StepKernel(e) /\ ~FailKernel(e)
    <2>1. UNCHANGED kern
      BY <1>3, <1>7 DEF RefuseKernel, StepSkip, StopRestore, StepWrite, FailWrite, StepClear
    <2> QED BY <2>1
  <1> QED BY <1>5, <1>6, <1>7

\* Outside the scripts, only the interface comes and goes.
Untouched ==
    /\ IsKernel(kern') /\ kern'.fw = kern.fw /\ kern'.rules = kern.rules
    /\ kern'.sysctl = kern.sysctl

\* Closing the TUN descriptor takes the link and its routes, nothing else.
LEMMA ClosedUntouched ==
    ASSUME IsKernel(kern)
    PROVE  LET n == ClosedTun
           IN /\ IsKernel(n) /\ n.fw = kern.fw /\ n.rules = kern.rules
              /\ n.sysctl = kern.sysctl
  BY UnlinkedEffect DEF ClosedTun

\* A step of a script acts through its first element; no other step touches
\* firewalls or rules.
LEMMA NextEffect ==
    ASSUME ServiceInv, IsKernel(kern), [Next]_vars
    PROVE  Untouched \/ Step
  <1>1. CASE UNCHANGED kern
    BY <1>1 DEF Untouched
  <1>2. CASE Requests
    <2>1. ASSUME NEW o, NEW d, PrepareRequest(o, d)
          PROVE  Untouched
      <3>1. kern' = [kern EXCEPT !.link = IF tun THEN @ ELSE "down"]
        BY <2>1 DEF PrepareRequest
      <3> QED BY <3>1 DEF Untouched, IsKernel
    <2>2. (\E o, d : PrepareRequest(o, d)) \/ UNCHANGED kern
      BY <1>2 DEF Requests, CommitRequest, RollbackRequest, RenewRequest, MtuRequest,
                  SuspendRequest, ResumeRequest, DrainRequest, WithdrawRequest,
                  PolicyRequest, ReconfigureRequest, Keep
    <2> QED BY <1>1, <2>1, <2>2
  <1>3. CASE RecoverOrphan \/ Stop \/ Tick \/ UNCHANGED vars
    BY <1>1, <1>3 DEF RecoverOrphan, Stop, Tick, vars
  <1>4. CASE Restart
    BY <1>4, ClosedUntouched DEF Restart, Untouched
  <1>5. CASE Finish
    <2>1. Restart \/ UNCHANGED kern \/ kern' = ClosedTun
      BY <1>5 DEF Finish
    <2> QED BY <1>1, <1>4, <2>1, ClosedUntouched DEF Untouched
  <1>6. CASE \E p \in Procs : OwnerExit(p)
    <2>1. UNCHANGED kern \/ kern' = Unlinked(kern, "absent")
      BY <1>6 DEF OwnerExit
    <2> QED BY <1>1, <2>1, UnlinkedEffect DEF Untouched
  <1> QED BY <1>2, <1>3, <1>4, <1>5, <1>6 DEF Next, Crash

\* Every handler spares the live declaration.
LEMMA HandlersSparing ==
    ASSUME ServiceInv, NEW o \in LeaseOwners
    PROVE  /\ \A d \in Declarations : /\ Sparing(Prepare(o, d), mem)
                                      /\ Sparing(Reconfigure(o, d), mem)
                                      /\ Sparing(UpdatePolicy(o, d), mem)
           /\ Sparing(Commit(o), mem) /\ Sparing(Rollback(o), mem)
           /\ Sparing(RenewLease(o), mem) /\ Sparing(Suspend(o), mem)
           /\ Sparing(Resume(o), mem) /\ Sparing(DrainOld(o), mem)
           /\ \A m \in Nat : Sparing(UpdateMtu(o, m), mem)
           /\ \A f \in SUBSET Prefixes : Sparing(SetFailedPrefixes(o, f), mem)
  <1>1. OptRecord(mem)
    BY DEF ServiceInv
  <1>2. Sparing(Reject, mem)
    BY RejectSparing
  <1>3. ASSUME NEW d \in Declarations
        PROVE  Sparing(Prepare(o, d), mem) /\ Sparing(Reconfigure(o, d), mem)
               /\ Sparing(UpdatePolicy(o, d), mem)
    <2>1. Sparing(Prepare(o, d), mem)
      BY <1>1, <1>2, PrepareSparing
    <2>2. Sparing(Reconfigure(o, d), mem)
      <3>1. CASE Reconfigure(o, d) # Reject
        <4>1. mem # None
          BY <3>1 DEF Reconfigure
        <4> QED BY <1>1, <3>1, <4>1, ReconfigureSparing DEF OptRecord
      <3> QED BY <1>2, <3>1
    <2>3. Sparing(UpdatePolicy(o, d), mem)
      <3>1. CASE UpdatePolicy(o, d) # Reject
        <4>1. mem # None
          BY <3>1 DEF UpdatePolicy
        <4> QED BY <1>1, <3>1, <4>1, PolicySparing DEF OptRecord
      <3> QED BY <1>2, <3>1
    <2> QED BY <2>1, <2>2, <2>3
  <1>4. /\ Sparing(Commit(o), mem) /\ Sparing(Rollback(o), mem)
        /\ Sparing(RenewLease(o), mem) /\ Sparing(DrainOld(o), mem)
    BY <1>1, <1>2, CommitSparing, RollbackSparing, RenewSparing, DrainSparing
  <1>5. CASE mem # None /\ mem.phase \in {"Active", "Suspended"}
    <2>1. SoundRecord(mem)
      BY <1>1, <1>5 DEF OptRecord
    <2>2. /\ Sparing(Suspend(o), mem) /\ Sparing(Resume(o), mem)
          /\ \A m \in Nat : Sparing(UpdateMtu(o, m), mem)
          /\ \A f \in SUBSET Prefixes : Sparing(SetFailedPrefixes(o, f), mem)
      BY <1>2, <1>5, <2>1, SettledSparing
    <2> QED BY <1>3, <1>4, <2>2
  <1>6. CASE ~(mem # None /\ mem.phase \in {"Active", "Suspended"})
    <2>1. /\ Suspend(o) = Reject /\ Resume(o) = Reject
          /\ \A m : UpdateMtu(o, m) = Reject
          /\ \A f : SetFailedPrefixes(o, f) = Reject
      BY <1>6 DEF Suspend, Resume, UpdateMtu, SetFailedPrefixes
    <2> QED BY <1>2, <1>3, <1>4, <2>1
  <1> QED BY <1>5, <1>6

\* The scripts that requests, recovery and shutdown start.
Begins(s) ==
    \/ \E o \in LeaseOwners :
           \/ \E d \in Declarations : s \in {Prepare(o, d), Reconfigure(o, d),
                                             UpdatePolicy(o, d)}
           \/ s \in {Commit(o), Rollback(o), RenewLease(o), Suspend(o), Resume(o),
                     DrainOld(o)}
           \/ \E m \in Nat : s = UpdateMtu(o, m)
           \/ \E f \in SUBSET Prefixes : s = SetFailedPrefixes(o, f)
    \/ mem # None /\ s = RecoverScript(mem)
    \/ s = <<>>

Reloaded == mem' = IF disk = None THEN None ELSE Decoded(disk)

\* Which scripts start, and when.
LEMMA ServeBegins ==
    ASSUME ServiceInv, Requests
    PROVE  /\ UNCHANGED <<mem, disk, torn>> /\ Begins(job'.todo)
           /\ job'.prev = mem /\ job'.err = FALSE
  <1>1. \A op, o, d, s : Serve(op, o, d, s) =>
            /\ UNCHANGED <<mem, disk, torn>> /\ job'.todo = s /\ job'.prev = mem
            /\ job'.err = FALSE
    BY DEF Serve, Start
  <1>2. PICK o \in Requesters :
            \/ CommitRequest(o) \/ RollbackRequest(o) \/ RenewRequest(o)
            \/ MtuRequest(o) \/ SuspendRequest(o) \/ ResumeRequest(o)
            \/ DrainRequest(o)
            \/ \E failed \in SUBSET Prefixes : WithdrawRequest(o, failed)
            \/ \E d \in FirstDecls : PrepareRequest(o, d)
            \/ \E d \in Decls : PolicyRequest(o, d) \/ ReconfigureRequest(o, d)
    BY DEF Requests
  <1>3. o \in LeaseOwners
    <2>1. alive \in SUBSET Procs /\ now \in Nat
      BY DEF ServiceInv
    <2>2. now + LeaseLen \in Nat
      BY <2>1, BoundAssumption
    <2> QED BY <2>1, <2>2 DEF Requesters, LeaseOwners
  <1>4. FirstDecls \subseteq Declarations /\ Decls \subseteq Declarations /\ LowMtu \in Nat
    BY DeclAssumption, BoundAssumption
  <1>5. ASSUME NEW s, NEW op, NEW d, Serve(op, o, d, s), Begins(s)
        PROVE  /\ UNCHANGED <<mem, disk, torn>> /\ Begins(job'.todo)
               /\ job'.prev = mem /\ job'.err = FALSE
    BY <1>1, <1>5
  <1>6. CASE CommitRequest(o)
    BY <1>3, <1>5, <1>6 DEF CommitRequest, Begins
  <1>7. CASE RollbackRequest(o)
    BY <1>3, <1>5, <1>7 DEF RollbackRequest, Begins
  <1>8. CASE RenewRequest(o)
    BY <1>3, <1>5, <1>8 DEF RenewRequest, Begins
  <1>9. CASE MtuRequest(o)
    BY <1>3, <1>4, <1>5, <1>9 DEF MtuRequest, Begins
  <1>10. CASE SuspendRequest(o)
    BY <1>3, <1>5, <1>10 DEF SuspendRequest, Begins
  <1>11. CASE ResumeRequest(o)
    BY <1>3, <1>5, <1>11 DEF ResumeRequest, Begins
  <1>12. CASE DrainRequest(o)
    BY <1>3, <1>5, <1>12 DEF DrainRequest, Begins
  <1>13. CASE \E failed \in SUBSET Prefixes : WithdrawRequest(o, failed)
    BY <1>3, <1>5, <1>13 DEF WithdrawRequest, Begins
  <1>14. CASE \E d \in FirstDecls : PrepareRequest(o, d)
    BY <1>3, <1>4, <1>5, <1>14 DEF PrepareRequest, Begins
  <1>15. CASE \E d \in Decls : PolicyRequest(o, d) \/ ReconfigureRequest(o, d)
    BY <1>3, <1>4, <1>5, <1>15 DEF PolicyRequest, ReconfigureRequest, Begins
  <1> QED BY <1>2, <1>6, <1>7, <1>8, <1>9, <1>10, <1>11, <1>12, <1>13, <1>14, <1>15

\* Every step runs a script, starts one, or restarts the service.
LEMMA NextBegins ==
    ASSUME ServiceInv, [Next]_vars
    PROVE  \/ Step
           \/ UNCHANGED <<mem, disk, torn, job>>
           \/ /\ UNCHANGED <<disk, torn>> /\ (UNCHANGED mem \/ Reloaded)
              /\ job'.todo = <<>>
           \/ /\ UNCHANGED <<mem, disk, torn>> /\ Begins(job'.todo)
              /\ job'.prev = mem /\ job'.err = FALSE
  <1>1. CASE Requests
    BY <1>1, ServeBegins
  <1>2. CASE RecoverOrphan
    BY <1>2 DEF RecoverOrphan, Start, Begins
  <1>3. ASSUME mem # None => mem.owner \in LeaseOwners,
               Start("Shutdown", When(mem # None, Rollback(mem.owner)), NewSession)
        PROVE  Begins(job'.todo) /\ job'.prev = mem /\ job'.err = FALSE
    <2>1. job'.todo = When(mem # None, Rollback(mem.owner)) /\ job'.prev = mem
          /\ job'.err = FALSE
      BY <1>3 DEF Start
    <2>2. CASE mem = None
      BY <2>1, <2>2 DEF When, Begins
    <2>3. CASE mem # None
      <3>1. job'.todo = Rollback(mem.owner)
        BY <2>1, <2>3 DEF When
      <3> QED BY <1>3, <2>1, <2>3, <3>1 DEF Begins
    <2> QED BY <2>2, <2>3
  <1>4. mem # None => mem.owner \in LeaseOwners
    BY DEF ServiceInv, OptRecord, SoundRecord, Records
  <1>5. CASE Stop
    <2>1. Start("Shutdown", When(mem # None, Rollback(mem.owner)), NewSession)
      BY <1>5 DEF Stop, When
    <2>2. UNCHANGED <<mem, disk, torn>>
      BY <1>5 DEF Stop
    <2> QED BY <1>3, <1>4, <2>1, <2>2
  <1>6. CASE Restart
    BY <1>6, IdleAgrees DEF Restart, Reloaded
  <1>7. CASE Finish
    <2>1. \/ Restart
          \/ /\ Start("Shutdown", When(mem # None, Rollback(mem.owner)), NewSession)
             /\ UNCHANGED <<mem, disk, torn>>
          \/ job' = Idle /\ UNCHANGED <<mem, disk, torn>>
      BY <1>7 DEF Finish
    <2> QED BY <1>3, <1>4, <1>6, <2>1, IdleAgrees
  <1>8. CASE Tick \/ UNCHANGED vars \/ \E p \in Procs : OwnerExit(p)
    BY <1>8 DEF Tick, vars, OwnerExit
  <1> QED BY <1>1, <1>2, <1>5, <1>6, <1>7, <1>8 DEF Next, Crash

\* Sparing is kept by every step.
LEMMA NextSparing ==
    ASSUME ServiceInv, LiveInv, [Next]_vars
    PROVE  LiveInv'
  <1>1. IsKernel(kern')
    BY NextEffect, StepEffect DEF Untouched, LiveInv
  <1>2. Sparing(job'.todo, mem')
    <2>1. CASE Step
      BY <2>1, StepOutcome, OutcomeSparing DEF ServiceInv, LiveInv
    <2>2. CASE UNCHANGED <<mem, disk, torn, job>>
      BY <2>2 DEF LiveInv
    <2>3. CASE job'.todo = <<>>
      BY <2>3, RejectSparing
    <2>4. CASE UNCHANGED <<mem, disk, torn>> /\ Begins(job'.todo)
      <3>1. CASE mem # None /\ job'.todo = RecoverScript(mem)
        <4>1. SoundRecord(mem)
          BY <3>1 DEF ServiceInv, OptRecord
        <4> QED BY <2>4, <3>1, <4>1, RecoverSparing
      <3>2. CASE ~(mem # None /\ job'.todo = RecoverScript(mem)) /\ job'.todo # <<>>
        <4>1. PICK o \in LeaseOwners :
                  LET s == job'.todo
                  IN \/ \E d \in Declarations : s \in {Prepare(o, d), Reconfigure(o, d),
                                                       UpdatePolicy(o, d)}
                     \/ s \in {Commit(o), Rollback(o), RenewLease(o), Suspend(o),
                               Resume(o), DrainOld(o)}
                     \/ \E m \in Nat : s = UpdateMtu(o, m)
                     \/ \E f \in SUBSET Prefixes : s = SetFailedPrefixes(o, f)
          BY <2>4, <3>2 DEF Begins
        <4>2. Sparing(job'.todo, mem)
          BY <4>1, HandlersSparing
        <4> QED BY <2>4, <4>2
      <3> QED BY <2>3, <3>1, <3>2
    <2> QED BY <2>1, <2>2, <2>3, <2>4, NextBegins
  <1> QED BY <1>1, <1>2 DEF LiveInv

\* While a candidate is staged beside the live declaration, no step takes
\* the firewall or the rules of the live one away: not the preparation of the
\* candidate (prepare_replacement), not its failure, its roll-back or its
\* recovery as an orphan.
THEOREM LivePathSafety == Spec => LivePathKept
  <1>1. Init => ServiceInv /\ AgreeInv /\ LiveInv
    <2> SUFFICES ASSUME Init PROVE ServiceInv /\ AgreeInv /\ LiveInv
      OBVIOUS
    <2>1. ServiceInv
      BY IdleAgrees DEF Init, ServiceInv, OptRecord
    <2>2. AgreeInv
      BY IdleAgrees DEF Init, AgreeInv
    <2>3. IsKernel(kern)
      BY DEF Init, CleanKernel, IsKernel
    <2>4. Sparing(job.todo, mem)
      BY IdleAgrees, RejectSparing DEF Init
    <2> QED BY <2>1, <2>2, <2>3, <2>4 DEF LiveInv
  <1>2. ServiceInv /\ AgreeInv /\ LiveInv /\ [Next]_vars
            => (ServiceInv /\ AgreeInv /\ LiveInv)'
    BY NextAgrees, NextSparing
  <1>3. ServiceInv /\ LiveInv /\ [Next]_vars
            => [Staged(mem) /\ mem' # None =>
                    LET t == mem.decl.table
                    IN kern'.fw[t] = kern.fw[t] /\ kern'.rules[t] = kern.rules[t]]_vars
    <2> SUFFICES ASSUME ServiceInv, LiveInv, [Next]_vars, Staged(mem)
                 PROVE  /\ kern'.fw[mem.decl.table] = kern.fw[mem.decl.table]
                        /\ kern'.rules[mem.decl.table] = kern.rules[mem.decl.table]
      OBVIOUS
    <2> DEFINE t == mem.decl.table
               e == job.todo[1]
    <2>1. IsKernel(kern) /\ Spares(job.todo, mem)
      BY DEF LiveInv, Sparing
    <2>2. t \in Tables
      BY DEF Staged, ServiceInv, OptRecord, SoundRecord, Records, Declarations
    <2>3. CASE Untouched
      BY <2>3 DEF Untouched
    <2>4. CASE Step
      <3>1. UNCHANGED kern \/ Effect(e, kern, kern')
        BY <2>1, <2>4, StepEffect
      <3>2. 1 \in 1..Len(job.todo)
        BY <2>4, EmptySeq DEF Step, ServiceInv, Scripted, Shape
      <3>3. e.op \in Touching => e.d.table # t
        BY <2>1, <3>2 DEF Spares
      <3> HIDE DEF t, e
      <3>4. kern'.fw[t] = kern.fw[t] /\ kern'.rules[t] = kern.rules[t]
        BY <2>2, <3>1, <3>3 DEF Effect, Touching
      <3> QED BY <3>4 DEF t
    <2> QED BY <2>1, <2>3, <2>4, NextEffect
  <1> QED BY <1>1, <1>2, <1>3, PTL DEF Spec, LivePathKept

-----------------------------------------------------------------------------
(* What is in the kernel is in the journal                                 *)

\* The objects that must not be left behind: the firewall of each table, and
\* the changed sysctls.
Objects ==
    [what : {"firewall"}, table : Tables] \cup {[what |-> "sysctls", table |-> None]}

\* Clean-up of record r finds object x.
Accounts(r, x) ==
    /\ r # None
    /\ \/ x.what = "sysctls" /\ "sysctls" \in r.steps /\ r.sysctls
       \/ x.what = "firewall" /\ r.decl.table = x.table /\ "fw" \in r.steps
       \/ x.what = "firewall" /\ r.cand # None /\ r.cand.table = x.table

\* It is in kernel k, and its table is none of T.
Present(k, T, x) ==
    \/ x.what = "sysctls" /\ k.sysctl
    \/ x.what = "firewall" /\ x.table \notin T /\ k.fw[x.table] # None

\* Element e may create x, itself or in its error branch.
Creates(e, prev, x) ==
    \/ x.what = "sysctls" /\ e.op = "prepare_sysctls"
    \/ x.what = "firewall" /\ e.op = "prepare_firewall" /\ e.d.table = x.table
    \/ /\ x.what = "firewall" /\ e.catch = "restore_suspended"
       /\ prev # None /\ prev.decl.table = x.table

\* It removes x; so it does, or the table is torn.
Erases(e, x) ==
    \/ x.what = "sysctls" /\ e.op = "restore_sysctls" /\ e.r
    \/ x.what = "firewall" /\ e.op = "remove_firewall" /\ e.d.table = x.table

Settles(e, x) ==
    x.what = "firewall" /\ Erases(e, x) /\ e.catch \in {"ignore", "return"}

\* Without bit b, record r may no longer account for x.
Strips(b, r, x) ==
    \/ x.what = "sysctls" /\ b = "sysctls" /\ r.sysctls
    \/ x.what = "firewall" /\ b = "fw" /\ r.decl.table = x.table

\* The records found, and every record written, account for x.
Kept(s, m, dk, x) ==
    /\ Accounts(m, x) /\ Accounts(dk, x)
    /\ \A i \in 1..Len(s) : IsWrite(s[i]) => Accounts(s[i].r, x)

\* x is absent, and journaled before it is created.
Raised(s, prev, h, x) ==
    /\ ~h
    /\ \E j \in 1..Len(s) :
           /\ IsWrite(s[j])
           /\ \A i \in 1..j : ~Creates(s[i], prev, x)
           /\ \A i \in j..Len(s) : IsWrite(s[i]) => Accounts(s[i].r, x)

\* x is not created, and removed before it is forgotten.
Released(s, prev, h, x) ==
    \A i \in 1..Len(s) :
        /\ ~Creates(s[i], prev, x)
        /\ IsWrite(s[i]) /\ ~Accounts(s[i].r, x) =>
               ~h \/ \E k \in 1..(i - 1) : Settles(s[k], x)

\* cleanup_record: a candidate is dropped if its firewall was removed without
\* an error, a bit is cleared after the removal of what it stands for.
Cleaned(s, m, h, err, x) ==
    LET r == Ambient(s, m)
    IN /\ h => Accounts(r, x)
       /\ \A i \in 1..Len(s) :
              /\ /\ s[i].op = "drop_candidate" /\ h /\ ~err
                 /\ x.what = "firewall" /\ r.cand # None /\ r.cand.table = x.table
                 => \E k \in 1..(i - 1) : Erases(s[k], x)
              /\ \A b \in StepBits :
                     s[i].then = Undoing(b) /\ Strips(b, r, x) => Erases(s[i], x)
       /\ s[1].op = "clear_step" /\ Strips(s[1].r, r, x) => ~h

\* What script s, with m in memory and dk in the journal, does about object x,
\* which is there if h.
Plan(s, m, dk, prev, h, err, x) ==
    /\ h => Accounts(m, x) /\ Accounts(dk, x)
    /\ IF InCleanup(s) THEN Cleaned(s, m, h, err, x)
       ELSE Kept(s, m, dk, x) \/ Raised(s, prev, h, x) \/ Released(s, prev, h, x)

ResidueInv ==
    \A x \in Objects :
        Plan(job.todo, mem, disk, job.prev, Present(kern, torn, x), job.err, x)

\* A script that ends has nothing left to do about any object.
LEMMA EmptyPlan ==
    ASSUME NEW m, NEW dk, NEW prev, NEW h, NEW err, NEW x,
           h => Accounts(m, x) /\ Accounts(dk, x)
    PROVE  Plan(<<>>, m, dk, prev, h, err, x) /\ Plan(Reject, m, dk, prev, h, err, x)
  <1>1. Len(Reject) = 1 /\ Reject[1].op = "reject" /\ Reject[1].catch = "return"
    BY DEF Reject, Call
  <1>2. \A i \in 1..Len(Reject) : ~IsWrite(Reject[i]) /\ ~Creates(Reject[i], prev, x)
    BY <1>1 DEF IsWrite, RecordWrites, Creates
  <1>3. ~InCleanup(Reject)
    BY <1>1 DEF InCleanup
  <1> QED BY <1>2, <1>3 DEF Plan, Released, InCleanup

\* Outside clean-up: a call.
LEMMA CallPlan ==
    ASSUME NEW s \in Seq(Elements), NEW m, NEW dk, NEW prev, NEW h, NEW err, NEW x,
           Plan(s, m, dk, prev, h, err, x), s # <<>>, ~InCleanup(s), ~InCleanup(Tail(s)),
           ~IsWrite(s[1]), NEW g, NEW f,
           g => h \/ Creates(s[1], prev, x), Settles(s[1], x) => ~g
    PROVE  /\ Plan(Tail(s), m, dk, prev, g, f, x)
           /\ g => Accounts(m, x) /\ Accounts(dk, x)
           /\ Creates(s[1], prev, x) => Accounts(m, x) /\ Accounts(dk, x)
  <1> DEFINE t == Tail(s)
  <1>1. /\ Len(s) \in Nat \ {0} /\ Len(t) = Len(s) - 1
        /\ \A i \in 1..(Len(s) - 1) : t[i] = s[i + 1]
    BY TailScript
  <1>2. ~InCleanup(t)
    OBVIOUS
  <1> HIDE DEF t
  <1>3. \A i \in 1..Len(t) : i + 1 \in 1..Len(s) /\ t[i] = s[i + 1]
    BY <1>1
  <1>4. 1 \in 1..Len(s)
    BY <1>1
  <1>5. CASE Kept(s, m, dk, x)
    <2>1. Kept(t, m, dk, x)
      BY <1>3, <1>5 DEF Kept
    <2> QED BY <1>2, <1>5, <2>1 DEF Plan, Kept, t
  <1>6. CASE Raised(s, prev, h, x)
    <2>1. PICK j \in 1..Len(s) :
              /\ IsWrite(s[j])
              /\ \A i \in 1..j : ~Creates(s[i], prev, x)
              /\ \A i \in j..Len(s) : IsWrite(s[i]) => Accounts(s[i].r, x)
      BY <1>6 DEF Raised
    <2>2. j # 1 /\ j - 1 \in 1..Len(t) /\ j \in Nat /\ 1 \in 1..j
      BY <1>1, <2>1
    <2>3. ~g /\ ~Creates(s[1], prev, x)
      BY <1>6, <2>1, <2>2 DEF Raised
    <2>4. t[j - 1] = s[j]
      BY <1>3, <2>2
    <2>5. \A i \in 1..(j - 1) : i + 1 \in 1..j /\ i \in 1..Len(t)
      BY <1>1, <2>2
    <2>6. \A i \in (j - 1)..Len(t) : i + 1 \in j..Len(s) /\ i \in 1..Len(t)
      BY <1>1, <2>2
    <2>7. Raised(t, prev, g, x)
      BY <1>3, <2>1, <2>2, <2>3, <2>4, <2>5, <2>6 DEF Raised
    <2> QED BY <1>2, <2>3, <2>7 DEF Plan, t
  <1>7. CASE Released(s, prev, h, x)
    <2>1. ~Creates(s[1], prev, x)
      BY <1>4, <1>7 DEF Released
    <2>2. ASSUME NEW i \in 1..Len(t)
          PROVE  /\ ~Creates(t[i], prev, x)
                 /\ IsWrite(t[i]) /\ ~Accounts(t[i].r, x) =>
                        ~g \/ \E k \in 1..(i - 1) : Settles(t[k], x)
      <3>1. i + 1 \in 1..Len(s) /\ t[i] = s[i + 1]
        BY <1>3
      <3>2. /\ ~Creates(s[i + 1], prev, x)
            /\ IsWrite(s[i + 1]) /\ ~Accounts(s[i + 1].r, x) =>
                   ~h \/ \E k \in 1..(i + 1 - 1) : Settles(s[k], x)
        BY <1>7, <3>1 DEF Released
      <3>3. ASSUME NEW k \in 1..(i + 1 - 1), Settles(s[k], x)
            PROVE  ~g \/ \E l \in 1..(i - 1) : Settles(t[l], x)
        <4>1. CASE k = 1
          BY <3>3, <4>1
        <4>2. CASE k # 1
          <5>1. k - 1 \in 1..(i - 1) /\ k - 1 \in 1..Len(t) /\ (k - 1) + 1 = k
            BY <1>1, <4>2
          <5> QED BY <1>3, <3>3, <5>1
        <4> QED BY <4>1, <4>2
      <3> QED BY <2>1, <3>1, <3>2, <3>3
    <2>3. Released(t, prev, g, x)
      BY <2>2 DEF Released
    <2> QED BY <1>2, <2>1, <2>3 DEF Plan, t
  <1> QED BY <1>5, <1>6, <1>7 DEF Plan

\* Outside clean-up: a write, which may fail after it has replaced the file.
LEMMA WritePlan ==
    ASSUME NEW s \in Seq(Elements), NEW m, NEW dk, NEW prev, NEW h, NEW err, NEW x,
           Plan(s, m, dk, prev, h, err, x), s # <<>>, ~InCleanup(s), ~InCleanup(Tail(s)),
           IsWrite(s[1]), NEW n \in {m, s[1].r}, NEW dn \in {dk, s[1].r}, NEW f,
           ~Settles(s[1], x)
    PROVE  /\ h => Accounts(n, x) /\ Accounts(dn, x)
           /\ Creates(s[1], prev, x) => Accounts(n, x) /\ Accounts(dn, x)
           /\ (n = s[1].r /\ dn = s[1].r) \/ Tail(s) = <<>> =>
                  Plan(Tail(s), n, dn, prev, h, f, x)
  <1> DEFINE t == Tail(s)
  <1>1. /\ Len(s) \in Nat \ {0} /\ Len(t) = Len(s) - 1
        /\ \A i \in 1..(Len(s) - 1) : t[i] = s[i + 1]
    BY TailScript
  <1>2. ~InCleanup(t)
    OBVIOUS
  <1> HIDE DEF t
  <1>3. \A i \in 1..Len(t) : i + 1 \in 1..Len(s) /\ t[i] = s[i + 1]
    BY <1>1
  <1>4. 1 \in 1..Len(s)
    BY <1>1
  <1> SUFFICES /\ h => Accounts(n, x) /\ Accounts(dn, x)
               /\ Creates(s[1], prev, x) => Accounts(n, x) /\ Accounts(dn, x)
               /\ (n = s[1].r /\ dn = s[1].r) \/ t = <<>> =>
                      Plan(t, n, dn, prev, h, f, x)
    BY DEF t
  <1>5. ASSUME h => Accounts(n, x) /\ Accounts(dn, x), t = <<>>
        PROVE  Plan(t, n, dn, prev, h, f, x)
    BY <1>5, EmptyPlan
  <1>6. CASE Kept(s, m, dk, x)
    <2>1. Accounts(n, x) /\ Accounts(dn, x)
      BY <1>4, <1>6 DEF Kept
    <2>2. Kept(t, n, dn, x)
      BY <1>3, <1>6, <2>1 DEF Kept
    <2> QED BY <1>2, <2>1, <2>2 DEF Plan
  <1>7. CASE Raised(s, prev, h, x)
    <2>1. PICK j \in 1..Len(s) :
              /\ IsWrite(s[j])
              /\ \A i \in 1..j : ~Creates(s[i], prev, x)
              /\ \A i \in j..Len(s) : IsWrite(s[i]) => Accounts(s[i].r, x)
      BY <1>7 DEF Raised
    <2>2. ~h /\ ~Creates(s[1], prev, x)
      BY <1>1, <1>7, <2>1 DEF Raised
    <2>3. CASE j = 1
      <3>1. Accounts(s[1].r, x) /\ \A i \in 1..Len(t) : IsWrite(t[i]) => Accounts(t[i].r, x)
        BY <1>3, <1>4, <2>1, <2>3
      <3>2. n = s[1].r /\ dn = s[1].r => Kept(t, n, dn, x)
        BY <3>1 DEF Kept
      <3> QED BY <1>2, <1>5, <2>2, <3>2 DEF Plan
    <2>4. CASE j # 1
      <3>1. j - 1 \in 1..Len(t) /\ j \in Nat /\ t[j - 1] = s[j]
        BY <1>1, <1>3, <2>1, <2>4
      <3>2. \A i \in 1..(j - 1) : i + 1 \in 1..j /\ i \in 1..Len(t)
        BY <1>1, <2>1
      <3>3. \A i \in (j - 1)..Len(t) : i + 1 \in j..Len(s) /\ i \in 1..Len(t)
        BY <1>1, <3>1
      <3>4. Raised(t, prev, h, x)
        BY <1>3, <2>1, <2>2, <3>1, <3>2, <3>3 DEF Raised
      <3> QED BY <1>2, <2>2, <3>4 DEF Plan
    <2> QED BY <2>3, <2>4
  <1>8. CASE Released(s, prev, h, x)
    <2>1. ~Creates(s[1], prev, x) /\ (h => Accounts(s[1].r, x))
      BY <1>4, <1>8 DEF Released
    <2>2. h => Accounts(n, x) /\ Accounts(dn, x)
      BY <2>1 DEF Plan
    <2>3. ASSUME NEW i \in 1..Len(t)
          PROVE  /\ ~Creates(t[i], prev, x)
                 /\ IsWrite(t[i]) /\ ~Accounts(t[i].r, x) =>
                        ~h \/ \E k \in 1..(i - 1) : Settles(t[k], x)
      <3>1. i + 1 \in 1..Len(s) /\ t[i] = s[i + 1]
        BY <1>3
      <3>2. /\ ~Creates(s[i + 1], prev, x)
            /\ IsWrite(s[i + 1]) /\ ~Accounts(s[i + 1].r, x) =>
                   ~h \/ \E k \in 1..(i + 1 - 1) : Settles(s[k], x)
        BY <1>8, <3>1 DEF Released
      <3>3. ASSUME NEW k \in 1..(i + 1 - 1), Settles(s[k], x)
            PROVE  \E l \in 1..(i - 1) : Settles(t[l], x)
        <4>1. k # 1
          BY <3>3
        <4>2. k - 1 \in 1..(i - 1) /\ k - 1 \in 1..Len(t) /\ (k - 1) + 1 = k
          BY <1>1, <4>1
        <4> QED BY <1>3, <3>3, <4>2
      <3> QED BY <3>1, <3>2, <3>3
    <2>4. Released(t, prev, h, x)
      BY <2>3 DEF Released
    <2> QED BY <1>2, <2>1, <2>2, <2>4 DEF Plan
  <1> QED BY <1>6, <1>7, <1>8 DEF Plan

\* What is left of a clean-up after its first element, with n in memory.
LEMMA TailCleaned ==
    ASSUME NEW s, NEW m, NEW prev, NEW h, NEW err, NEW x, NEW n, NEW g, NEW f,
           Scripted(s, m, prev), s # <<>>, InCleanup(s), Cleaned(s, m, h, err, x),
           s[1].op # "clear", n.decl = Ambient(s, m).decl,
           n.sysctls = Ambient(s, m).sysctls, n.cand \in {Ambient(s, m).cand, None},
           g => h, err => f, g => Accounts(n, x), Erases(s[1], x) /\ ~f => ~g
    PROVE  InCleanup(Tail(s)) /\ Cleaned(Tail(s), n, g, f, x)
  <1> DEFINE t == Tail(s)
             r == Ambient(s, m)
  <1>1. s \in Seq(Elements)
    BY DEF Scripted, Shape
  <1>2. /\ Len(s) \in Nat \ {0} /\ Len(t) = Len(s) - 1 /\ t \in Seq(Elements)
        /\ \A i \in 1..(Len(s) - 1) : t[i] = s[i + 1]
    BY <1>1, TailScript
  <1>3. /\ s[Len(s)].op = "clear"
        /\ \A i \in 1..Len(s) : s[i].op \in {"store", "clear_step"} => i = 1
    BY <1>2 DEF Scripted, CleanupShape, InCleanup
  <1>4. Len(t) \in Nat \ {0} /\ t # <<>>
    <2>1. Len(s) # 1
      BY <1>3
    <2> HIDE DEF t
    <2> QED BY <1>2, <2>1, EmptySeq
  <1> HIDE DEF t, r
  <1>5. \A i \in 1..Len(t) : i + 1 \in 1..Len(s) /\ t[i] = s[i + 1] /\ i + 1 # 1
    BY <1>2
  <1>6. InCleanup(t) /\ t[1].op \notin {"store", "clear_step"}
    BY <1>2, <1>3, <1>4, <1>5 DEF InCleanup
  <1>7. Ambient(t, n) = n
    BY <1>6 DEF Ambient
  <1>8. ASSUME NEW i \in 1..Len(t)
        PROVE  /\ /\ t[i].op = "drop_candidate" /\ g /\ ~f
                  /\ x.what = "firewall" /\ n.cand # None /\ n.cand.table = x.table
                  => \E k \in 1..(i - 1) : Erases(t[k], x)
               /\ \A b \in StepBits :
                      t[i].then = Undoing(b) /\ Strips(b, n, x) => Erases(t[i], x)
    <2>1. i + 1 \in 1..Len(s) /\ t[i] = s[i + 1]
      BY <1>5
    <2>2. /\ /\ s[i + 1].op = "drop_candidate" /\ h /\ ~err
             /\ x.what = "firewall" /\ r.cand # None /\ r.cand.table = x.table
             => \E k \in 1..(i + 1 - 1) : Erases(s[k], x)
          /\ \A b \in StepBits :
                 s[i + 1].then = Undoing(b) /\ Strips(b, r, x) => Erases(s[i + 1], x)
      BY <2>1 DEF Cleaned, r
    <2>3. ASSUME NEW k \in 1..(i + 1 - 1), Erases(s[k], x), g, ~f
          PROVE  \E l \in 1..(i - 1) : Erases(t[l], x)
      <3>1. k # 1
        BY <2>3
      <3>2. k - 1 \in 1..(i - 1) /\ k - 1 \in 1..Len(t) /\ (k - 1) + 1 = k
        BY <1>4, <3>1
      <3> QED BY <1>5, <2>3, <3>2
    <2>4. \A b : Strips(b, n, x) => Strips(b, r, x)
      BY DEF Strips, r
    <2>5. n.cand # None => n.cand = r.cand
      BY DEF r
    <2> QED BY <2>1, <2>2, <2>3, <2>4, <2>5
  <1>9. Cleaned(t, n, g, f, x)
    BY <1>6, <1>7, <1>8 DEF Cleaned
  <1> QED BY <1>6, <1>9 DEF t

\* Inside clean-up: the first write.
LEMMA IntentPlan ==
    ASSUME NEW s, NEW m, NEW dk, NEW prev, NEW h, NEW err, NEW x,
           Scripted(s, m, prev), Plan(s, m, dk, prev, h, err, x), s # <<>>, InCleanup(s),
           IsWrite(s[1]), NEW n \in {m, s[1].r}, NEW dn \in {dk, s[1].r}
    PROVE  /\ h => Accounts(n, x) /\ Accounts(dn, x)
           /\ ~Creates(s[1], prev, x)
           /\ n = s[1].r /\ dn = s[1].r => Plan(Tail(s), n, dn, prev, h, err, x)
  <1> DEFINE r == s[1].r
  <1>1. s \in Seq(Elements)
    BY DEF Scripted, Shape
  <1>2. Len(s) \in Nat \ {0}
    BY <1>1, TailScript
  <1>3. s[1].op = "store" /\ s[1].catch = "return" /\ Ambient(s, m) = r
    BY <1>2 DEF Scripted, CleanupShape, InCleanup, Ambient, IsWrite, RecordWrites
  <1>4. (h => Accounts(r, x)) /\ Cleaned(s, m, h, err, x)
    BY <1>3 DEF Plan, Cleaned
  <1>5. ~Creates(s[1], prev, x) /\ ~Erases(s[1], x)
    BY <1>3 DEF Creates, Erases
  <1>6. InCleanup(Tail(s)) /\ Cleaned(Tail(s), r, h, err, x)
    <2> HIDE DEF r
    <2> QED BY <1>3, <1>4, <1>5, TailCleaned
  <1> QED BY <1>4, <1>5, <1>6 DEF Plan

\* Inside clean-up: a call that is not followed by the clearing of a bit.
LEMMA CleanCallPlan ==
    ASSUME NEW s, NEW m, NEW dk, NEW prev, NEW h, NEW err, NEW x, NEW g, NEW f,
           Scripted(s, m, prev), Plan(s, m, dk, prev, h, err, x), s # <<>>, InCleanup(s),
           ~IsWrite(s[1]), s[1].op # "clear",
           g => h \/ Creates(s[1], prev, x), err => f, Erases(s[1], x) /\ ~f => ~g
    PROVE  /\ ~Creates(s[1], prev, x) /\ (g => Accounts(m, x) /\ Accounts(dk, x))
           /\ Plan(Tail(s), m, dk, prev, g, f, x)
  <1>1. s \in Seq(Elements)
    BY DEF Scripted, Shape
  <1>2. Len(s) \in Nat \ {0}
    BY <1>1, TailScript
  <1>3. ~Creates(s[1], prev, x)
    BY <1>2 DEF Scripted, CleanupShape, Creates
  <1>4. Ambient(s, m) = m /\ Cleaned(s, m, h, err, x)
    BY DEF Ambient, IsWrite, RecordWrites, Plan
  <1>5. g => h /\ Accounts(m, x) /\ Accounts(dk, x)
    BY <1>3 DEF Plan
  <1>6. InCleanup(Tail(s)) /\ Cleaned(Tail(s), m, g, f, x)
    BY <1>4, <1>5, TailCleaned
  <1> QED BY <1>3, <1>5, <1>6 DEF Plan

\* Inside clean-up: a removal that succeeded, and will clear its bit.
LEMMA UndonePlan ==
    ASSUME NEW s, NEW m, NEW dk, NEW prev, NEW h, NEW err, NEW x, NEW g,
           Scripted(s, m, prev), Plan(s, m, dk, prev, h, err, x), s # <<>>,
           NEW b \in StepBits, s[1].then = Undoing(b),
           g => h \/ Creates(s[1], prev, x), Erases(s[1], x) => ~g
    PROVE  /\ g => Accounts(m, x) /\ Accounts(dk, x)
           /\ Plan(Undoing(b) \o Tail(s), m, dk, prev, g, err, x)
  <1> DEFINE t == Tail(s)
             u == Undoing(b) \o t
             c == Call("clear_step", None, b, "soft")
  <1>1. /\ Scripted(u, m, prev) /\ u[1] = c /\ c.op = "clear_step" /\ InCleanup(u)
        /\ Ambient(u, m) = m
    BY ThenScripted
  <1>2. s \in Seq(Elements)
    BY DEF Scripted, Shape
  <1>3. /\ Len(s) \in Nat \ {0} /\ Len(t) = Len(s) - 1 /\ t \in Seq(Elements)
        /\ \A i \in 1..(Len(s) - 1) : t[i] = s[i + 1]
    BY <1>2, TailScript
  <1>4. Undoing(b) = <<c>> /\ c.r = b /\ c.then = <<>>
    BY DEF Undoing, Call
  <1> HIDE DEF t, c
  <1>5. /\ Len(u) = Len(s)
        /\ \A i \in 2..Len(s) : u[i] = s[i]
    <2>1. Len(<<c>>) = 1 /\ Len(u) = 1 + Len(t)
      BY <1>1, <1>3, <1>4 DEF Scripted, Shape
    <2>2. ASSUME NEW i \in 2..Len(s)
          PROVE  u[i] = s[i]
      <3>1. i \in 1..(1 + Len(t)) /\ ~(i <= 1) /\ i - 1 \in 1..(Len(s) - 1) /\ (i - 1) + 1 = i
        BY <1>3
      <3>2. u[i] = t[i - 1]
        BY <1>3, <1>4, <2>1, <3>1
      <3> QED BY <1>3, <3>1, <3>2
    <2> QED BY <1>3, <2>1, <2>2
  <1>6. s[1].then # <<>> /\ 1 \in 1..Len(s)
    BY <1>3, <1>4
  <1>7. InCleanup(s) /\ WellFormed(s[1])
    BY <1>6 DEF Scripted, Shape, CleanupShape
  <1>8. s[1].op \in KernelCalls
    BY <1>6, <1>7 DEF WellFormed
  <1>9. ~Creates(s[1], prev, x)
    BY <1>6, <1>7 DEF Scripted, CleanupShape, Creates
  <1>10. Ambient(s, m) = m /\ Cleaned(s, m, h, err, x)
    BY <1>7, <1>8 DEF Ambient, KernelCalls, Plan
  <1>11. g => h /\ Accounts(m, x) /\ Accounts(dk, x)
    BY <1>9 DEF Plan
  <1>12. Strips(b, m, x) => ~g
    BY <1>6, <1>10 DEF Cleaned
  <1> HIDE DEF u
  <1>13. ASSUME NEW i \in 1..Len(u)
         PROVE  /\ /\ u[i].op = "drop_candidate" /\ g /\ ~err
                   /\ x.what = "firewall" /\ m.cand # None /\ m.cand.table = x.table
                   => \E k \in 1..(i - 1) : Erases(u[k], x)
                /\ \A q \in StepBits :
                       u[i].then = Undoing(q) /\ Strips(q, m, x) => Erases(u[i], x)
    <2>1. CASE i = 1
      <3>1. \A q : Undoing(q) # <<>>
        BY DEF Undoing
      <3> QED BY <1>1, <1>4, <2>1, <3>1
    <2>2. CASE i # 1
      <3>1. i \in 2..Len(s) /\ i \in 1..Len(s) /\ u[i] = s[i]
        BY <1>3, <1>5, <2>2
      <3>2. /\ /\ s[i].op = "drop_candidate" /\ h /\ ~err
               /\ x.what = "firewall" /\ m.cand # None /\ m.cand.table = x.table
               => \E k \in 1..(i - 1) : Erases(s[k], x)
            /\ \A q \in StepBits :
                   s[i].then = Undoing(q) /\ Strips(q, m, x) => Erases(s[i], x)
        BY <1>10, <3>1 DEF Cleaned
      <3>3. ASSUME NEW k \in 1..(i - 1), Erases(s[k], x), g
            PROVE  Erases(u[k], x)
        <4>1. k # 1 /\ k \in 2..Len(s)
          BY <1>3, <3>1, <3>3
        <4> QED BY <1>5, <3>3, <4>1
      <3> QED BY <1>11, <3>1, <3>2, <3>3
    <2> QED BY <2>1, <2>2
  <1>14. Cleaned(u, m, g, err, x)
    BY <1>1, <1>4, <1>11, <1>12, <1>13 DEF Cleaned
  <1> QED BY <1>1, <1>11, <1>14 DEF Plan, u, t

\* The end of a clean-up: a record without steps and candidate stands for nothing.
LEMMA ClearPlan ==
    ASSUME NEW s, NEW m, NEW dk, NEW prev, NEW h, NEW err, NEW x, Scripted(s, m, prev),
           Plan(s, m, dk, prev, h, err, x), s # <<>>, s[1].op = "clear"
    PROVE  /\ Tail(s) = <<>> /\ (h => Accounts(m, x) /\ Accounts(dk, x))
           /\ m.steps = {} /\ m.cand = None => ~h
  <1>1. s \in Seq(Elements)
    BY DEF Scripted, Shape
  <1>2. Len(s) \in Nat \ {0} /\ Len(Tail(s)) = Len(s) - 1 /\ Tail(s) \in Seq(Elements)
    BY <1>1, TailScript
  <1>3. Len(s) = 1
    <2>1. 1 \in 1..Len(s)
      BY <1>2
    <2>2. \A i \in 1..Len(s) : s[i].op = "clear" => i = Len(s)
      BY DEF Scripted, Shape
    <2> QED BY <2>1, <2>2
  <1>4. Tail(s) = <<>>
    <2> DEFINE t == Tail(s)
    <2>1. t \in Seq(Elements) /\ Len(t) = 0
      BY <1>2, <1>3
    <2> HIDE DEF t
    <2>2. t = <<>>
      BY <2>1, EmptySeq
    <2> QED BY <2>2 DEF t
  <1>5. h => Accounts(m, x) /\ Accounts(dk, x)
    BY DEF Plan
  <1> QED BY <1>4, <1>5 DEF Accounts

\* Scripts that create nothing of the kind of x, and forget it only after they
\* have removed it.
LEMMA ReleasePlan ==
    ASSUME NEW s, NEW m, NEW dk, NEW prev, NEW h, NEW err, NEW x, ~InCleanup(s),
           h => Accounts(m, x) /\ Accounts(dk, x),
           \A i \in 1..Len(s) :
               /\ ~Creates(s[i], prev, x)
               /\ IsWrite(s[i]) /\ Accounts(m, x) =>
                      \/ Accounts(s[i].r, x)
                      \/ \E k \in 1..(i - 1) : Settles(s[k], x)
    PROVE  Plan(s, m, dk, prev, h, err, x)
  <1>1. Released(s, prev, h, x)
    BY DEF Released
  <1> QED BY <1>1 DEF Plan

\* Scripts whose every record accounts for x, and which begin by writing one.
LEMMA BuildPlan ==
    ASSUME NEW s, NEW m, NEW dk, NEW prev, NEW h, NEW err, NEW x, ~InCleanup(s),
           h => Accounts(m, x) /\ Accounts(dk, x), Len(s) \in Nat \ {0},
           IsWrite(s[1]), ~Creates(s[1], prev, x),
           \A i \in 1..Len(s) : IsWrite(s[i]) => Accounts(s[i].r, x)
    PROVE  Plan(s, m, dk, prev, h, err, x)
  <1>1. CASE h
    <2>1. Kept(s, m, dk, x)
      BY <1>1 DEF Kept
    <2> QED BY <2>1 DEF Plan
  <1>2. CASE ~h
    <2>1. 1 \in 1..Len(s) /\ \A i \in 1..1 : i = 1
      OBVIOUS
    <2>2. Raised(s, prev, h, x)
      BY <1>2, <2>1 DEF Raised
    <2> QED BY <2>2 DEF Plan
  <1> QED BY <1>1, <1>2

\* Calls and one write, in scripts that create no firewall.
LEMMA TailedPlan ==
    ASSUME NEW C, NEW s, NEW w, "restore_suspended" \notin C,
           Tailed(s, {e \in Calls(C) : e.op # "prepare_firewall"}, w),
           IsWrite(w), w.catch # "restore_suspended",
           NEW m, NEW dk, NEW prev, NEW h, NEW err, NEW x,
           h => Accounts(m, x) /\ Accounts(dk, x), Accounts(m, x) => Accounts(w.r, x)
    PROVE  Plan(s, m, dk, prev, h, err, x)
  <1>1. /\ Len(s) \in Nat \ {0} /\ s[Len(s)] = w
        /\ \A i \in 1..(Len(s) - 1) : /\ s[i] \in Calls(C) /\ s[i].op # "prepare_firewall"
    BY DEF Tailed
  <1>2. ~InCleanup(s)
    BY <1>1 DEF InCleanup, IsWrite, RecordWrites
  <1>3. ASSUME NEW i \in 1..Len(s)
        PROVE  /\ ~Creates(s[i], prev, x)
               /\ IsWrite(s[i]) /\ Accounts(m, x) => Accounts(s[i].r, x)
    <2>1. CASE i = Len(s)
      BY <1>1, <2>1 DEF Creates, IsWrite, RecordWrites
    <2>2. CASE i # Len(s)
      <3>1. i \in 1..(Len(s) - 1)
        BY <1>1, <2>2
      <3>2. s[i] \in Calls(C) /\ s[i].op # "prepare_firewall"
        BY <1>1, <3>1
      <3>3. s[i].op # "prepare_sysctls" /\ s[i].catch \in C
        BY <3>2 DEF Calls
      <3>4. ~IsWrite(s[i])
        BY <3>2, CallsAreOrdinary
      <3> QED BY <3>2, <3>3, <3>4 DEF Creates
    <2> QED BY <2>1, <2>2
  <1> QED BY <1>2, <1>3, ReleasePlan

\* The same between two writes.
LEMMA EnclosedPlan ==
    ASSUME NEW C, NEW s, NEW v, NEW w, "restore_suspended" \notin C,
           Enclosed(s, v, {e \in Calls(C) : e.op # "prepare_firewall"}, w),
           IsWrite(v), IsWrite(w), v.catch # "restore_suspended",
           w.catch # "restore_suspended",
           NEW m, NEW dk, NEW prev, NEW h, NEW err, NEW x,
           h => Accounts(m, x) /\ Accounts(dk, x),
           Accounts(m, x) => Accounts(v.r, x) /\ Accounts(w.r, x)
    PROVE  Plan(s, m, dk, prev, h, err, x)
  <1>1. /\ Len(s) \in Nat \ {0, 1} /\ s[1] = v /\ s[Len(s)] = w
        /\ \A i \in 2..(Len(s) - 1) : /\ s[i] \in Calls(C) /\ s[i].op # "prepare_firewall"
    BY DEF Enclosed
  <1>2. ~InCleanup(s)
    BY <1>1 DEF InCleanup, IsWrite, RecordWrites
  <1>3. ASSUME NEW i \in 1..Len(s)
        PROVE  /\ ~Creates(s[i], prev, x)
               /\ IsWrite(s[i]) /\ Accounts(m, x) => Accounts(s[i].r, x)
    <2>1. CASE i = Len(s) \/ i = 1
      BY <1>1, <2>1 DEF Creates, IsWrite, RecordWrites
    <2>2. CASE ~(i = Len(s) \/ i = 1)
      <3>1. i \in 2..(Len(s) - 1)
        BY <1>1, <2>2
      <3>2. s[i] \in Calls(C) /\ s[i].op # "prepare_firewall"
        BY <1>1, <3>1
      <3>3. s[i].op # "prepare_sysctls" /\ s[i].catch \in C
        BY <3>2 DEF Calls
      <3>4. ~IsWrite(s[i])
        BY <3>2, CallsAreOrdinary
      <3> QED BY <3>2, <3>3, <3>4 DEF Creates
    <2> QED BY <2>1, <2>2
  <1> QED BY <1>2, <1>3, ReleasePlan

\* cleanup_record removes what the record it works on stands for.
LEMMA CleanupPlan ==
    ASSUME NEW m, SoundRecord(m), NEW n, NEW dk, NEW prev, NEW h, NEW err, NEW x,
           h => Accounts(m, x) /\ Accounts(n, x) /\ Accounts(dk, x)
    PROVE  Plan(Cleanup(m), n, dk, prev, h, err, x)
  <1> DEFINE r == [m EXCEPT !.phase = "RollingBack"]
             s == Cleanup(m)
             v == Store(r, "return")
             w == Call("clear", None, None, "soft")
  <1>1. /\ SoundRecord(r)
        /\ Enclosed(s, v, Cleaning(r), w)
        /\ r.cand # None => 2 \in 1..Len(s) /\ Removing(s[2], r.cand.table)
    BY CleanupForm
  <1>2. /\ r.decl = m.decl /\ r.cand = m.cand /\ r.steps = m.steps
        /\ r.sysctls = m.sysctls /\ r # None /\ m # None
    <2>1. m \in Records /\ r \in Records
      BY <1>1 DEF SoundRecord
    <2>2. m # None /\ r # None
      <3> HIDE DEF r
      <3> QED BY <2>1, NoneAssumption
    <2> QED BY <2>1, <2>2 DEF Records
  <1>3. v.op = "store" /\ v.r = r /\ v.then = <<>> /\ w.op = "clear" /\ w.then = <<>>
    BY DEF Store, Call
  <1> HIDE DEF r, s, v, w
  <1>4. /\ Len(s) \in Nat \ {0, 1} /\ s[1] = v /\ s[Len(s)] = w
        /\ \A i \in 2..(Len(s) - 1) : s[i] \in Cleaning(r)
    BY <1>1 DEF Enclosed
  <1>5. s # <<>>
    BY <1>4
  <1>6. InCleanup(s) /\ Ambient(s, n) = r
    BY <1>3, <1>4, <1>5 DEF InCleanup, Ambient
  <1>7. h => Accounts(r, x)
    BY <1>2 DEF Accounts
  <1>8. \A b : Undoing(b) # <<>>
    BY DEF Undoing
  <1>9. ASSUME NEW i \in 1..Len(s)
        PROVE  /\ /\ s[i].op = "drop_candidate" /\ h /\ ~err
                  /\ x.what = "firewall" /\ r.cand # None /\ r.cand.table = x.table
                  => \E k \in 1..(i - 1) : Erases(s[k], x)
               /\ \A b \in StepBits :
                      s[i].then = Undoing(b) /\ Strips(b, r, x) => Erases(s[i], x)
    <2>1. CASE i = 1 \/ i = Len(s)
      BY <1>3, <1>4, <1>8, <2>1
    <2>2. CASE ~(i = 1 \/ i = Len(s))
      <3>1. i \in 2..(Len(s) - 1) /\ s[i] \in Cleaning(r)
        BY <1>4, <2>2
      <3>2. ASSUME s[i].op = "drop_candidate", x.what = "firewall", r.cand # None,
                   r.cand.table = x.table
            PROVE  \E k \in 1..(i - 1) : Erases(s[k], x)
        <4>1. s[2].op = "remove_firewall" /\ Erases(s[2], x)
          BY <1>1, <3>2 DEF Removing, Erases
        <4>2. i # 2 /\ 2 \in 1..(i - 1)
          BY <3>1, <3>2, <4>1
        <4> QED BY <4>1, <4>2
      <3>3. ASSUME NEW b \in StepBits, s[i].then = Undoing(b), Strips(b, r, x)
            PROVE  Erases(s[i], x)
        BY <3>1, <3>3 DEF Cleaning, Strips, Erases, Removing
      <3> QED BY <3>2, <3>3
    <2> QED BY <2>1, <2>2
  <1>10. Cleaned(s, n, h, err, x)
    BY <1>3, <1>4, <1>6, <1>7, <1>9 DEF Cleaned
  <1> QED BY <1>6, <1>10 DEF Plan, s

\* discard_candidate_record and the branches that drop a candidate: its firewall
\* is removed first.
LEMMA DiscardPlan ==
    ASSUME NEW m, SoundRecord(m), HasCandidate(m), NEW dk, NEW prev, NEW h, NEW err,
           NEW x, h => Accounts(m, x) /\ Accounts(dk, x)
    PROVE  /\ Plan(DiscardCandidate(m), m, dk, prev, h, err, x)
           /\ Plan(DropCandidate(m), m, dk, prev, h, err, x)
           /\ Plan(DropActivation(m), m, dk, prev, h, err, x)
  <1> DEFINE y == WithoutCandidate(m, "Active")
  <1>1. /\ y.decl = m.decl /\ y.steps = m.steps /\ y.sysctls = m.sysctls
        /\ m.cand # None /\ y # None
    <2>1. m \in Records /\ y \in Records
      BY DEF SoundRecord, Records, WithoutCandidate, Phases
    <2> QED BY <2>1, NoneAssumption DEF HasCandidate, WithoutCandidate, Records
  <1>2. Accounts(m, x) =>
            Accounts(y, x) \/ (x.what = "firewall" /\ m.cand.table = x.table)
    <2> HIDE DEF y
    <2> QED BY <1>1 DEF Accounts
  <1>3. ASSUME NEW c \in {"return", "ignore"}
        PROVE  LET a == Call("remove_rule", m.cand, None, c)
                   f == Call("remove_firewall", m.cand, None, c)
                   g == Call("remove_routes", m.cand, {}, c)
                   w == Store(y, c)
               IN /\ Plan(<<f, g, w>>, m, dk, prev, h, err, x)
                  /\ Plan(<<a, f, g, w>>, m, dk, prev, h, err, x)
    <2> DEFINE a == Call("remove_rule", m.cand, None, c)
               f == Call("remove_firewall", m.cand, None, c)
               g == Call("remove_routes", m.cand, {}, c)
               w == Store(y, c)
    <2>1. /\ ~Creates(a, prev, x) /\ ~Creates(f, prev, x) /\ ~Creates(g, prev, x)
          /\ ~Creates(w, prev, x) /\ ~IsWrite(a) /\ ~IsWrite(f) /\ ~IsWrite(g)
          /\ w.r = y /\ w.op # "clear"
      BY DEF Creates, Call, Store, IsWrite, RecordWrites
    <2>2. x.what = "firewall" /\ m.cand.table = x.table => Settles(f, x)
      BY DEF Settles, Erases, Call
    <2> HIDE DEF a, f, g, w, y
    <2>3. Plan(<<f, g, w>>, m, dk, prev, h, err, x)
      <3> DEFINE s == <<f, g, w>>
      <3>1. Len(s) = 3 /\ s[1] = f /\ s[2] = g /\ s[3] = w /\ 1..Len(s) = {1, 2, 3}
        OBVIOUS
      <3>2. 1 \in 1..(3 - 1)
        OBVIOUS
      <3> HIDE DEF s
      <3>3. ~InCleanup(s)
        BY <2>1, <3>1 DEF InCleanup
      <3>4. \A i \in 1..Len(s) :
               /\ ~Creates(s[i], prev, x)
               /\ IsWrite(s[i]) /\ Accounts(m, x) =>
                      \/ Accounts(s[i].r, x)
                      \/ \E k \in 1..(i - 1) : Settles(s[k], x)
        BY <1>2, <2>1, <2>2, <3>1, <3>2
      <3>5. Plan(s, m, dk, prev, h, err, x)
        BY <3>3, <3>4, ReleasePlan
      <3> QED BY <3>5 DEF s
    <2>4. Plan(<<a, f, g, w>>, m, dk, prev, h, err, x)
      <3> DEFINE s == <<a, f, g, w>>
      <3>1. /\ Len(s) = 4 /\ s[1] = a /\ s[2] = f /\ s[3] = g /\ s[4] = w
            /\ 1..Len(s) = {1, 2, 3, 4}
        OBVIOUS
      <3>2. 2 \in 1..(4 - 1)
        OBVIOUS
      <3> HIDE DEF s
      <3>3. ~InCleanup(s)
        BY <2>1, <3>1 DEF InCleanup
      <3>4. \A i \in 1..Len(s) :
               /\ ~Creates(s[i], prev, x)
               /\ IsWrite(s[i]) /\ Accounts(m, x) =>
                      \/ Accounts(s[i].r, x)
                      \/ \E k \in 1..(i - 1) : Settles(s[k], x)
        BY <1>2, <2>1, <2>2, <3>1, <3>2
      <3>5. Plan(s, m, dk, prev, h, err, x)
        BY <3>3, <3>4, ReleasePlan
      <3> QED BY <3>5 DEF s
    <2> QED BY <2>3, <2>4 DEF a, f, g, w
  <1>4. /\ Plan(DiscardCandidate(m), m, dk, prev, h, err, x)
    BY <1>3 DEF DiscardCandidate
  <1>5. /\ Plan(DropCandidate(m), m, dk, prev, h, err, x)
        /\ Plan(DropActivation(m), m, dk, prev, h, err, x)
    BY <1>3 DEF DropCandidate, DropActivation
  <1> QED BY <1>4, <1>5

\* A record with the same tables, steps and sysctls, but for the rules, stands for
\* the same objects.
LEMMA SameAccounts ==
    ASSUME NEW r, NEW y, y # None, y.decl.table = r.decl.table,
           r.steps \ {"rule"} \subseteq y.steps, y.sysctls = r.sysctls,
           y.cand = r.cand \/ r.cand = None, NEW x, Accounts(r, x)
    PROVE  Accounts(y, x)
  BY DEF Accounts

\* An element that creates nothing, and after which the record in memory still
\* stands for x.
Inert(e, m, x) ==
    /\ e.op \notin {"clear", "prepare_sysctls", "prepare_firewall"}
    /\ e.catch # "restore_suspended"
    /\ IsWrite(e) /\ Accounts(m, x) => Accounts(e.r, x)

\* Scripts of such elements.
LEMMA InertPlan ==
    ASSUME NEW a, NEW b, NEW c, NEW m, NEW dk, NEW prev, NEW h, NEW err, NEW x,
           h => Accounts(m, x) /\ Accounts(dk, x),
           Inert(a, m, x), Inert(b, m, x), Inert(c, m, x)
    PROVE  /\ Plan(<<a>>, m, dk, prev, h, err, x)
           /\ Plan(<<a, b>>, m, dk, prev, h, err, x)
           /\ Plan(<<a, b, c>>, m, dk, prev, h, err, x)
  <1>1. \A e \in {a, b, c} :
            /\ ~Creates(e, prev, x) /\ e.op # "clear"
            /\ IsWrite(e) /\ Accounts(m, x) => Accounts(e.r, x)
    BY DEF Inert, Creates
  <1>2. ASSUME NEW s, Len(s) \in 1..3, \A i \in 1..Len(s) : s[i] \in {a, b, c}
        PROVE  Plan(s, m, dk, prev, h, err, x)
    <2>1. Len(s) \in 1..Len(s)
      BY <1>2
    <2>2. ~InCleanup(s)
      BY <1>1, <1>2, <2>1 DEF InCleanup
    <2>3. \A i \in 1..Len(s) : /\ ~Creates(s[i], prev, x)
                               /\ IsWrite(s[i]) /\ Accounts(m, x) => Accounts(s[i].r, x)
      BY <1>1, <1>2
    <2> QED BY <2>2, <2>3, ReleasePlan
  <1> QED BY <1>2

\* suspend takes nothing that the journal stands for away.
LEMMA SuspendPlan ==
    ASSUME SoundRecord(mem), NEW o \in LeaseOwners, NEW dk, NEW prev, NEW h, NEW err,
           NEW x, h => Accounts(mem, x) /\ Accounts(dk, x)
    PROVE  Plan(Suspend(o), mem, dk, prev, h, err, x)
  <1> DEFINE s == Suspend(o)
             r == [mem EXCEPT !.steps = @ \ {"rule"}]
             y == [r EXCEPT !.phase = "Suspended"]
             a == Call("remove_rule", mem.decl, None, "return")
             b == Store(r, "return")
             c == Store(y, "return")
  <1>1. s \in {Reject, <<>>} \/ s = <<a, b, c>>
    BY DEF Suspend
  <1>2. CASE s \in {Reject, <<>>}
    BY <1>2, EmptyPlan
  <1>3. CASE s = <<a, b, c>>
    <2>1. mem \in Records /\ r \in Records /\ y \in Records
      BY DEF SoundRecord, Records, Phases
    <2>2. /\ r.decl = mem.decl /\ r.steps = mem.steps \ {"rule"} /\ r.sysctls = mem.sysctls
          /\ r.cand = mem.cand
      BY <2>1 DEF Records
    <2>3. /\ y.decl = mem.decl /\ y.steps = mem.steps \ {"rule"} /\ y.sysctls = mem.sysctls
          /\ y.cand = mem.cand
      BY <2>1, <2>2 DEF Records
    <2>4. /\ a.op = "remove_rule" /\ b.op = "store" /\ c.op = "store" /\ b.r = r /\ c.r = y
          /\ a.catch = "return" /\ b.catch = "return" /\ c.catch = "return"
      BY DEF Call, Store
    <2> HIDE DEF r, y
    <2>5. Accounts(mem, x) => Accounts(r, x) /\ Accounts(y, x)
      <3>1. r # None /\ y # None
        BY <2>1, NoneAssumption
      <3> QED BY <2>2, <2>3, <3>1, SameAccounts
    <2>6. Inert(a, mem, x) /\ Inert(b, mem, x) /\ Inert(c, mem, x)
      BY <2>4, <2>5 DEF Inert, IsWrite, RecordWrites
    <2> HIDE DEF a, b, c, s
    <2>7. Plan(<<a, b, c>>, mem, dk, prev, h, err, x)
      BY <2>6, InertPlan
    <2> QED BY <1>3, <2>7 DEF s
  <1> QED BY <1>1, <1>2, <1>3

\* Neither does resume.
LEMMA ResumePlan ==
    ASSUME SoundRecord(mem), NEW o \in LeaseOwners, NEW dk, NEW prev, NEW h, NEW err,
           NEW x, h => Accounts(mem, x) /\ Accounts(dk, x)
    PROVE  Plan(Resume(o), mem, dk, prev, h, err, x)
  <1> DEFINE s == Resume(o)
             r == WithSteps(mem, {"rule"})
             y == [r EXCEPT !.phase = "Active"]
             a == Call("install_rule", mem.decl, None, "return")
             b == Store(r, "return")
             c == Store(y, "return")
  <1>1. s \in {Reject, <<>>} \/ s = <<a, b, c>>
    BY DEF Resume
  <1>2. CASE s \in {Reject, <<>>}
    BY <1>2, EmptyPlan
  <1>3. CASE s = <<a, b, c>>
    <2>1. mem \in Records /\ r \in Records /\ y \in Records
      BY DEF SoundRecord, Records, Phases, WithSteps, StepBits
    <2>2. /\ r.decl = mem.decl /\ r.steps = mem.steps \cup {"rule"} /\ r.sysctls = mem.sysctls
          /\ r.cand = mem.cand
      BY <2>1 DEF Records, WithSteps
    <2>3. /\ y.decl = mem.decl /\ y.steps = mem.steps \cup {"rule"} /\ y.sysctls = mem.sysctls
          /\ y.cand = mem.cand
      BY <2>1, <2>2 DEF Records
    <2>4. /\ a.op = "install_rule" /\ b.op = "store" /\ c.op = "store" /\ b.r = r /\ c.r = y
          /\ a.catch = "return" /\ b.catch = "return" /\ c.catch = "return"
      BY DEF Call, Store
    <2> HIDE DEF r, y
    <2>5. Accounts(mem, x) => Accounts(r, x) /\ Accounts(y, x)
      <3>1. r # None /\ y # None
        BY <2>1, NoneAssumption
      <3> QED BY <2>2, <2>3, <3>1, SameAccounts
    <2>6. Inert(a, mem, x) /\ Inert(b, mem, x) /\ Inert(c, mem, x)
      BY <2>4, <2>5 DEF Inert, IsWrite, RecordWrites
    <2> HIDE DEF a, b, c, s
    <2>7. Plan(<<a, b, c>>, mem, dk, prev, h, err, x)
      BY <2>6, InertPlan
    <2> QED BY <1>3, <2>7 DEF s
  <1> QED BY <1>1, <1>2, <1>3

\* renew_lease.
LEMMA RenewPlan ==
    ASSUME OptRecord(mem), NEW o \in LeaseOwners, NEW dk, NEW prev, NEW h, NEW err,
           NEW x, h => Accounts(mem, x) /\ Accounts(dk, x)
    PROVE  Plan(RenewLease(o), mem, dk, prev, h, err, x)
  <1> DEFINE s == RenewLease(o)
             y == [mem EXCEPT !.owner.lease = o.lease]
             w == Store(y, "return")
  <1>1. s = Reject \/ (mem # None /\ s = <<w>>)
    BY DEF RenewLease
  <1>2. CASE s = Reject
    BY <1>2, EmptyPlan
  <1>3. CASE mem # None /\ s = <<w>>
    <2>1. mem \in Records /\ mem.owner \in LeaseOwners
      BY <1>3 DEF OptRecord, SoundRecord, Records
    <2>2. /\ y.decl = mem.decl /\ y.steps = mem.steps /\ y.sysctls = mem.sysctls
          /\ y.cand = mem.cand /\ y \in Records
      BY <2>1 DEF Records, LeaseOwners
    <2>3. w.op = "store" /\ w.r = y /\ w.catch = "return"
      BY DEF Call, Store
    <2> HIDE DEF y
    <2>4. Accounts(mem, x) => Accounts(y, x)
      BY <2>2, NoneAssumption, SameAccounts
    <2>5. Inert(w, mem, x)
      BY <2>3, <2>4 DEF Inert
    <2> HIDE DEF w, s
    <2>6. Plan(<<w>>, mem, dk, prev, h, err, x)
      BY <2>5, InertPlan
    <2> QED BY <1>3, <2>6 DEF s
  <1> QED BY <1>1, <1>2, <1>3

\* update_mtu.
LEMMA MtuPlan ==
    ASSUME OptRecord(mem), NEW o \in LeaseOwners, NEW mtu \in Nat, NEW dk, NEW prev,
           NEW h, NEW err, NEW x, h => Accounts(mem, x) /\ Accounts(dk, x)
    PROVE  Plan(UpdateMtu(o, mtu), mem, dk, prev, h, err, x)
  <1> DEFINE s == UpdateMtu(o, mtu)
             y == [mem EXCEPT !.decl.mtu = mtu]
             a == Call("update_mtu", mem.decl, mtu, "return")
             w == Store(y, "return")
  <1>1. s = Reject \/ (mem # None /\ s = <<a, w>>)
    BY DEF UpdateMtu
  <1>2. CASE s = Reject
    BY <1>2, EmptyPlan
  <1>3. CASE mem # None /\ s = <<a, w>>
    <2>1. mem \in Records /\ mem.decl \in Declarations
      BY <1>3 DEF OptRecord, SoundRecord, Records
    <2>2. /\ y.decl.table = mem.decl.table /\ y.steps = mem.steps
          /\ y.sysctls = mem.sysctls /\ y.cand = mem.cand /\ y \in Records
      BY <2>1 DEF Records, Declarations
    <2>3. /\ w.op = "store" /\ w.r = y /\ w.catch = "return" /\ a.op = "update_mtu"
          /\ a.catch = "return"
      BY DEF Call, Store
    <2> HIDE DEF y
    <2>4. Accounts(mem, x) => Accounts(y, x)
      BY <2>2, NoneAssumption, SameAccounts
    <2>5. Inert(a, mem, x) /\ Inert(w, mem, x)
      BY <2>3, <2>4 DEF Inert, IsWrite, RecordWrites
    <2> HIDE DEF a, w, s
    <2>6. Plan(<<a, w>>, mem, dk, prev, h, err, x)
      BY <2>5, InertPlan
    <2> QED BY <1>3, <2>6 DEF s
  <1> QED BY <1>1, <1>2, <1>3

\* set_failed_prefixes.
LEMMA WithdrawPlan ==
    ASSUME OptRecord(mem), NEW o \in LeaseOwners, NEW failed \in SUBSET Prefixes, NEW dk,
           NEW prev, NEW h, NEW err, NEW x, h => Accounts(mem, x) /\ Accounts(dk, x)
    PROVE  Plan(SetFailedPrefixes(o, failed), mem, dk, prev, h, err, x)
  <1> DEFINE s == SetFailedPrefixes(o, failed)
             y == [mem EXCEPT !.failed = failed]
             w == Store(y, "return")
             C == {e \in Calls(Quiet) : e.op # "prepare_firewall"}
  <1>1. CASE s = Reject
    BY <1>1, EmptyPlan
  <1>2. CASE s # Reject
    <2>1. /\ mem # None /\ SoundRecord(mem) /\ mem.phase \in {"Active", "Suspended"}
          /\ s = <<Call("reconcile_routes", mem.decl, failed, "return")>>
                 \o When(mem.phase = "Active",
                         <<Call("install_rule", mem.decl, None, "return")>>)
                 \o <<w>>
      BY <1>2 DEF SetFailedPrefixes, OptRecord
    <2>2. SoundRecord(y) /\ Tailed(s, C, w)
      BY <2>1, WithdrawForm
    <2>3. /\ y.decl = mem.decl /\ y.steps = mem.steps
          /\ y.sysctls = mem.sysctls /\ y.cand = mem.cand /\ y \in Records
      BY <2>1, <2>2 DEF SoundRecord, Records
    <2>4. IsWrite(w) /\ w.r = y /\ w.catch = "return"
      BY DEF Call, Store, IsWrite, RecordWrites
    <2> HIDE DEF y, w, s
    <2>5. Accounts(mem, x) => Accounts(y, x)
      BY <2>3, NoneAssumption, SameAccounts
    <2>6. "restore_suspended" \notin Quiet
      BY DEF Quiet
    <2>7. Plan(s, mem, dk, prev, h, err, x)
      BY <2>2, <2>4, <2>5, <2>6, TailedPlan
    <2> QED BY <2>7 DEF s
  <1> QED BY <1>1, <1>2

\* drain_old: the previous firewall is removed, the candidate becomes current.
LEMMA DrainPlan ==
    ASSUME OptRecord(mem), NEW o \in LeaseOwners, NEW dk, NEW prev, NEW h, NEW err,
           NEW x, h => Accounts(mem, x) /\ Accounts(dk, x)
    PROVE  Plan(DrainOld(o), mem, dk, prev, h, err, x)
  <1> DEFINE s == DrainOld(o)
             y == [WithoutCandidate(mem, "Active") EXCEPT
                       !.owner = IF mem.candOwner = None THEN o ELSE mem.candOwner,
                       !.decl = mem.cand]
             a == Call("remove_rule", mem.decl, None, "return")
             f == Call("remove_firewall", mem.decl, None, "return")
             g == Call("remove_routes", mem.decl, {}, "return")
             w == Store(y, "return")
  <1>1. \/ s \in {Reject, <<>>}
        \/ mem # None /\ mem.phase = "Draining" /\ s = <<a, f, g, w>>
    BY DEF DrainOld
  <1>2. CASE s \in {Reject, <<>>}
    BY <1>2, EmptyPlan
  <1>3. CASE mem # None /\ mem.phase = "Draining" /\ s = <<a, f, g, w>>
    <2>1. SoundRecord(mem) /\ mem \in Records
      BY <1>3 DEF OptRecord, SoundRecord
    <2>2. mem.cand # None /\ mem.cand \in Declarations /\ "fw" \in mem.steps
      BY <1>3, <2>1 DEF SoundRecord, Records
    <2>3. /\ WithoutCandidate(mem, "Active") \in Records
          /\ WithoutCandidate(mem, "Active").steps = mem.steps
          /\ WithoutCandidate(mem, "Active").sysctls = mem.sysctls
          /\ mem.candOwner \in LeaseOwners \cup {None}
      BY <2>1 DEF WithoutCandidate, Records, Phases
    <2>4. /\ y.decl = mem.cand /\ y.steps = mem.steps /\ y.sysctls = mem.sysctls
          /\ y \in Records
      BY <2>2, <2>3 DEF Records
    <2>5. /\ ~Creates(a, prev, x) /\ ~Creates(f, prev, x) /\ ~Creates(g, prev, x)
          /\ ~Creates(w, prev, x) /\ ~IsWrite(a) /\ ~IsWrite(f) /\ ~IsWrite(g)
          /\ w.r = y /\ w.op # "clear"
      BY DEF Creates, Call, Store, IsWrite, RecordWrites
    <2>6. x.what = "firewall" /\ mem.decl.table = x.table => Settles(f, x)
      BY DEF Settles, Erases, Call
    <2> HIDE DEF y
    <2>7. Accounts(mem, x) =>
              Accounts(y, x) \/ (x.what = "firewall" /\ mem.decl.table = x.table)
      BY <2>2, <2>4, NoneAssumption DEF Accounts
    <2> HIDE DEF a, f, g, w, s
    <2>8. /\ Len(s) = 4 /\ s[1] = a /\ s[2] = f /\ s[3] = g /\ s[4] = w
          /\ 1..Len(s) = {1, 2, 3, 4}
      BY <1>3
    <2>9. 2 \in 1..(4 - 1)
      OBVIOUS
    <2>10. ~InCleanup(s)
      BY <2>5, <2>8 DEF InCleanup
    <2>11. \A i \in 1..Len(s) :
               /\ ~Creates(s[i], prev, x)
               /\ IsWrite(s[i]) /\ Accounts(mem, x) =>
                      \/ Accounts(s[i].r, x)
                      \/ \E k \in 1..(i - 1) : Settles(s[k], x)
      BY <2>5, <2>6, <2>7, <2>8, <2>9
    <2>12. Plan(s, mem, dk, prev, h, err, x)
      BY <2>10, <2>11, ReleasePlan
    <2> QED BY <2>12 DEF s
  <1> QED BY <1>1, <1>2, <1>3

\* commit_with_drain.
LEMMA CommitPlan ==
    ASSUME OptRecord(mem), NEW o \in LeaseOwners, NEW dk, NEW prev, NEW h, NEW err,
           NEW x, h => Accounts(mem, x) /\ Accounts(dk, x), now \in Nat
    PROVE  Plan(Commit(o), mem, dk, prev, h, err, x)
  <1> DEFINE s == Commit(o)
             r == WithSteps(mem, {"rule"})
             y == [r EXCEPT !.phase = "Active"]
             z == [mem EXCEPT !.phase = "Draining", !.deadline = now + DrainLen]
             a == Call("activate_link", mem.cand, None, "drop_activation")
             b == Call("install_rule", mem.cand, None, "drop_activation")
             c == Store(z, "drop_activation")
             p == Store(r, "cleanup")
             q == Call("install_rule", mem.decl, None, "cleanup")
             w == Store(y, "cleanup")
  <1>1. \/ s \in {Reject, <<>>}
        \/ mem # None /\ (s = <<a, b, c>> \/ s = <<p, q, w>>)
    BY DEF Commit
  <1>2. CASE s \in {Reject, <<>>}
    BY <1>2, EmptyPlan
  <1>3. CASE mem # None /\ (s = <<a, b, c>> \/ s = <<p, q, w>>)
    <2>1. mem \in Records
      BY <1>3 DEF OptRecord, SoundRecord
    <2>2. /\ z.decl = mem.decl /\ z.steps = mem.steps /\ z.sysctls = mem.sysctls
          /\ z.cand = mem.cand /\ z \in Records
      <3>1. now + DrainLen \in Nat
        BY BoundAssumption
      <3> QED BY <2>1, <3>1 DEF Records, Phases
    <2>3. /\ r.decl = mem.decl /\ r.steps = mem.steps \cup {"rule"} /\ r.sysctls = mem.sysctls
          /\ r.cand = mem.cand /\ r \in Records
      BY <2>1 DEF Records, WithSteps, StepBits
    <2>4. /\ y.decl = mem.decl /\ y.steps = mem.steps \cup {"rule"} /\ y.sysctls = mem.sysctls
          /\ y.cand = mem.cand /\ y \in Records
      BY <2>3 DEF Records, Phases
    <2>5. /\ a.op = "activate_link" /\ b.op = "install_rule" /\ c.op = "store" /\ c.r = z
          /\ a.catch = "drop_activation" /\ b.catch = "drop_activation"
          /\ c.catch = "drop_activation" /\ p.op = "store" /\ p.r = r /\ p.catch = "cleanup"
          /\ q.op = "install_rule" /\ q.catch = "cleanup" /\ w.op = "store" /\ w.r = y
          /\ w.catch = "cleanup"
      BY DEF Call, Store
    <2> HIDE DEF r, y, z
    <2>6. Accounts(mem, x) => Accounts(r, x) /\ Accounts(y, x) /\ Accounts(z, x)
      <3>1. r # None /\ y # None /\ z # None
        BY <2>2, <2>3, <2>4, NoneAssumption
      <3> QED BY <2>2, <2>3, <2>4, <3>1, SameAccounts
    <2>7. /\ Inert(a, mem, x) /\ Inert(b, mem, x) /\ Inert(c, mem, x)
          /\ Inert(p, mem, x) /\ Inert(q, mem, x) /\ Inert(w, mem, x)
      BY <2>5, <2>6 DEF Inert, IsWrite, RecordWrites
    <2> HIDE DEF a, b, c, p, q, w, s
    <2>8. /\ Plan(<<a, b, c>>, mem, dk, prev, h, err, x)
          /\ Plan(<<p, q, w>>, mem, dk, prev, h, err, x)
      BY <2>7, InertPlan
    <2> QED BY <1>3, <2>8 DEF s
  <1> QED BY <1>1, <1>2, <1>3

\* update_policy: the firewall of the same table is replaced.
LEMMA PolicyPlan ==
    ASSUME OptRecord(mem), NEW o \in LeaseOwners, NEW d \in Declarations, NEW dk,
           NEW prev, NEW h, NEW err, NEW x, h => Accounts(mem, x) /\ Accounts(dk, x)
    PROVE  Plan(UpdatePolicy(o, d), mem, dk, prev, h, err, x)
  <1>1. CASE UpdatePolicy(o, d) = Reject
    BY <1>1, EmptyPlan
  <1>2. CASE UpdatePolicy(o, d) # Reject
    <2>1. /\ mem # None /\ SoundRecord(mem) /\ mem \in Records
          /\ SameProcess(mem.owner, o) /\ mem.phase \in {"Active", "Suspended"}
          /\ d.table = mem.decl.table /\ mem.cand = None
      BY <1>2 DEF UpdatePolicy, SameOwner, SameTunnel, OptRecord, SoundRecord
    <2>2. CASE d = mem.decl
      <3> DEFINE a == Call("install_rule", d, None, "return")
                 s == When(mem.phase = "Active", <<a>>)
      <3>1. UpdatePolicy(o, d) = s
        BY <1>2, <2>1, <2>2 DEF UpdatePolicy
      <3>2. a.op = "install_rule" /\ a.catch = "return"
        BY DEF Call
      <3>3. Inert(a, mem, x)
        BY <3>2 DEF Inert, IsWrite, RecordWrites
      <3> HIDE DEF a
      <3>4. s = <<>> \/ s = <<a>>
        BY DEF When
      <3> HIDE DEF s
      <3>5. Plan(<<a>>, mem, dk, prev, h, err, x)
        BY <3>3, InertPlan, ZenonT(30)
      <3>6. Plan(<<>>, mem, dk, prev, h, err, x)
        BY EmptyPlan
      <3> QED BY <3>1, <3>4, <3>5, <3>6
    <2>3. CASE d # mem.decl
      <3> DEFINE retained == mem.failed \cap d.remote
                 r == [mem EXCEPT !.phase = "RollingBack", !.cand = d, !.candOwner = o]
                 y == [mem EXCEPT !.decl = d, !.failed = retained, !.candOwner = None]
                 do(op, a) == Call(op, d, a, "restore_policy")
                 v == Store(r, "return")
                 w == Adopt(y, "restore_policy")
                 s == <<v>>
                      \o When(RoutesChanged(mem.decl, d), <<do("reconcile_routes", retained)>>)
                      \o When(FirewallChanged(mem.decl, d), <<do("replace_firewall", None)>>)
                      \o When(mem.phase = "Active", <<do("install_rule", None)>>)
                      \o <<w>>
                 C == {e \in Calls({"restore_policy"}) : e.op # "prepare_firewall"}
      <3>1. UpdatePolicy(o, d) = s
        BY <1>2, <2>1, <2>3 DEF UpdatePolicy
      <3>2. SoundRecord(r) /\ SoundRecord(y) /\ Enclosed(s, v, C, w)
        BY <2>1, PolicyForm, ZenonT(60)
      <3>3. /\ r.decl = mem.decl /\ r.steps = mem.steps /\ r.sysctls = mem.sysctls
            /\ y.decl = d /\ y.steps = mem.steps /\ y.sysctls = mem.sysctls
        BY <2>1 DEF Records
      <3>4. /\ IsWrite(v) /\ IsWrite(w) /\ v.r = r /\ w.r = y
            /\ v.catch = "return" /\ w.catch = "restore_policy"
        BY DEF Store, Adopt, Call, IsWrite, RecordWrites
      <3> HIDE DEF r, y, v, w, s
      <3>5. Accounts(mem, x) => Accounts(r, x) /\ Accounts(y, x)
        <4>1. r # None /\ y # None
          BY <3>2, NoneAssumption DEF SoundRecord
        <4> QED BY <2>1, <3>3, <4>1, SameAccounts
      <3>6. Plan(s, mem, dk, prev, h, err, x)
        BY <3>2, <3>4, <3>5, EnclosedPlan
      <3> QED BY <3>1, <3>6
    <2> QED BY <2>2, <2>3
  <1> QED BY <1>1, <1>2

\* rollback.
LEMMA RollbackPlan ==
    ASSUME OptRecord(mem), NEW o \in LeaseOwners, NEW dk, NEW prev, NEW h, NEW err,
           NEW x, h => Accounts(mem, x) /\ Accounts(dk, x)
    PROVE  Plan(Rollback(o), mem, dk, prev, h, err, x)
  <1>1. CASE Rollback(o) = Reject
    BY <1>1, EmptyPlan
  <1>2. CASE Rollback(o) # Reject
    <2>1. mem # None /\ SoundRecord(mem)
      BY <1>2 DEF Rollback, OptRecord
    <2>2. CASE Staged(mem)
      <3>1. Rollback(o) = DiscardCandidate(mem) /\ HasCandidate(mem)
        BY <1>2, <2>2 DEF Rollback, Staged, HasCandidate
      <3> QED BY <2>1, <3>1, DiscardPlan
    <2>3. CASE ~Staged(mem)
      <3>1. Rollback(o) = Cleanup(mem)
        BY <1>2, <2>3 DEF Rollback
      <3> QED BY <2>1, <3>1, CleanupPlan
    <2> QED BY <2>2, <2>3
  <1> QED BY <1>1, <1>2

\* recover_orphan.
LEMMA RecoverPlan ==
    ASSUME SoundRecord(mem), NEW dk, NEW prev, NEW h, NEW err, NEW x,
           h => Accounts(mem, x) /\ Accounts(dk, x)
    PROVE  Plan(RecoverScript(mem), mem, dk, prev, h, err, x)
  <1>1. mem # None /\ mem \in Records
    BY NoneAssumption DEF SoundRecord
  <1>2. CASE PolicyIntent(mem) /\ mem.candOwner = mem.owner
    <2> DEFINE y == [mem EXCEPT !.cand = None, !.candOwner = None,
                         !.phase = IF "rule" \in mem.steps THEN "Active" ELSE "Suspended"]
               C == {e \in Calls(Quiet) : e.op # "prepare_firewall"}
               w == Adopt(y, "return")
               s == RecoverPolicyUpdate(mem)
    <2>1. RecoverScript(mem) = s
      <3>1. ~Staged(mem) /\ mem.phase # "Draining"
        BY <1>2 DEF PolicyIntent, Staged
      <3> QED BY <1>2, <3>1 DEF RecoverScript
    <2>2. SoundRecord(y) /\ Tailed(s, C, w)
      BY <1>2, RecoverPolicyForm, ZenonT(60)
    <2>3. y.decl = mem.decl /\ y.steps = mem.steps /\ y.sysctls = mem.sysctls
      BY <1>1 DEF Records
    <2>4. IsWrite(w) /\ w.r = y /\ w.catch = "return" /\ "restore_suspended" \notin Quiet
      BY DEF Adopt, Call, IsWrite, RecordWrites, Quiet
    <2> HIDE DEF y, w, s
    <2>5. Accounts(mem, x) => Accounts(y, x)
      <3>1. y # None
        BY <2>2, NoneAssumption DEF SoundRecord
      <3>2. mem.cand.table = mem.decl.table /\ "fw" \in mem.steps
        BY <1>2 DEF PolicyIntent, SameTunnel
      <3> QED BY <2>3, <3>1, <3>2 DEF Accounts
    <2>6. Plan(s, mem, dk, prev, h, err, x)
      BY <2>2, <2>4, <2>5, TailedPlan
    <2> QED BY <2>1, <2>6
  <1>3. CASE ~(PolicyIntent(mem) /\ mem.candOwner = mem.owner) /\ Staged(mem)
    <2>1. RecoverScript(mem) = DiscardCandidate(mem) /\ HasCandidate(mem)
      BY <1>3 DEF RecoverScript, HasCandidate, Staged
    <2> QED BY <2>1, DiscardPlan
  <1>4. CASE /\ ~(PolicyIntent(mem) /\ mem.candOwner = mem.owner) /\ ~Staged(mem)
             /\ mem.phase = "Draining"
    <2> DEFINE o == IF mem.candOwner = None THEN mem.owner ELSE mem.candOwner
    <2>1. RecoverScript(mem) = DrainOld(o)
      BY <1>4 DEF RecoverScript
    <2>2. o \in LeaseOwners
      BY <1>1 DEF Records
    <2> HIDE DEF o
    <2>3. OptRecord(mem)
      BY DEF OptRecord
    <2> QED BY <2>1, <2>2, <2>3, DrainPlan
  <1>5. CASE /\ ~(PolicyIntent(mem) /\ mem.candOwner = mem.owner) /\ ~Staged(mem)
             /\ mem.phase # "Draining"
    <2>1. RecoverScript(mem) = Cleanup(mem)
      BY <1>5 DEF RecoverScript
    <2> QED BY <2>1, CleanupPlan
  <1> QED BY <1>2, <1>3, <1>4, <1>5

\* Scripts that journal a candidate in table t before they create its firewall,
\* and whose error branch may create one there.
LEMMA StagingPlan ==
    ASSUME NEW C, NEW s, NEW v, NEW w, NEW t, Enclosed(s, v, Calls(C), w),
           IsWrite(v), IsWrite(w), v.catch # "restore_suspended",
           \A i \in 1..Len(s) : s[i].op = "prepare_firewall" => s[i].d.table = t,
           NEW m, NEW dk, NEW prev, NEW h, NEW err, NEW x,
           "restore_suspended" \in C \cup {w.catch} => prev.decl.table = t,
           h => Accounts(m, x) /\ Accounts(dk, x),
           Accounts(m, x) \/ (x.what = "firewall" /\ x.table = t) =>
               Accounts(v.r, x) /\ Accounts(w.r, x)
    PROVE  Plan(s, m, dk, prev, h, err, x)
  <1>1. /\ Len(s) \in Nat \ {0, 1} /\ s[1] = v /\ s[Len(s)] = w
        /\ \A i \in 2..(Len(s) - 1) : s[i] \in Calls(C)
    BY DEF Enclosed
  <1>2. ~InCleanup(s)
    BY <1>1 DEF InCleanup, IsWrite, RecordWrites
  <1>3. ASSUME NEW i \in 1..Len(s)
        PROVE  /\ IsWrite(s[i]) => s[i] \in {v, w}
               /\ s[i].op # "prepare_sysctls"
               /\ s[i].catch = "restore_suspended" => prev.decl.table = t
    <2>1. CASE i = Len(s) \/ i = 1
      BY <1>1, <2>1 DEF IsWrite, RecordWrites
    <2>2. CASE ~(i = Len(s) \/ i = 1)
      <3>1. i \in 2..(Len(s) - 1) /\ s[i] \in Calls(C)
        BY <1>1, <2>2
      <3>2. s[i].op # "prepare_sysctls" /\ s[i].catch \in C
        BY <3>1 DEF Calls
      <3>3. ~IsWrite(s[i])
        BY <3>1, CallsAreOrdinary
      <3> QED BY <3>2, <3>3
    <2> QED BY <2>1, <2>2
  <1>4. \A i \in 1..Len(s) :
            Creates(s[i], prev, x) => x.what = "firewall" /\ x.table = t
    BY <1>3 DEF Creates
  <1>5. CASE x.what = "firewall" /\ x.table = t
    <2>1. ~Creates(s[1], prev, x)
      BY <1>1 DEF Creates, IsWrite, RecordWrites
    <2>2. \A i \in 1..Len(s) : IsWrite(s[i]) => Accounts(s[i].r, x)
      BY <1>3, <1>5
    <2> QED BY <1>1, <1>2, <2>1, <2>2, BuildPlan
  <1>6. CASE ~(x.what = "firewall" /\ x.table = t)
    <2>1. \A i \in 1..Len(s) : ~Creates(s[i], prev, x)
      BY <1>4, <1>6
    <2>2. \A i \in 1..Len(s) : IsWrite(s[i]) /\ Accounts(m, x) => Accounts(s[i].r, x)
      BY <1>3
    <2> QED BY <1>2, <2>1, <2>2, ReleasePlan
  <1> QED BY <1>5, <1>6

\* A reconfiguration to the declaration in force.
LEMMA ReownPlan ==
    ASSUME SoundRecord(mem), NEW o \in LeaseOwners, NEW dk, NEW prev, NEW h, NEW err,
           NEW x, h => Accounts(mem, x) /\ Accounts(dk, x)
    PROVE  Plan(<<Adopt([mem EXCEPT !.owner = o], "return")>>, mem, dk, prev, h, err, x)
  <1> DEFINE y == [mem EXCEPT !.owner = o]
             w == Adopt(y, "return")
  <1>1. /\ y.decl = mem.decl /\ y.steps = mem.steps /\ y.sysctls = mem.sysctls
        /\ y.cand = mem.cand /\ y \in Records
    BY DEF SoundRecord, Records
  <1>2. w.op = "adopt" /\ w.r = y /\ w.catch = "return"
    BY DEF Adopt, Call
  <1> HIDE DEF y
  <1>3. Accounts(mem, x) => Accounts(y, x)
    BY <1>1, NoneAssumption, SameAccounts
  <1>4. Inert(w, mem, x)
    BY <1>2, <1>3 DEF Inert
  <1> HIDE DEF w
  <1>5. Plan(<<w>>, mem, dk, prev, h, err, x)
    BY <1>4, InertPlan, ZenonT(30)
  <1> QED BY <1>5 DEF w, y

\* prepare_replacement: the candidate is journaled before its firewall is created.
LEMMA ReplacementPlan ==
    ASSUME SoundRecord(mem), mem.phase = "Active", NEW o \in LeaseOwners,
           SameProcess(mem.owner, o), NEW d \in Declarations, NEW dk, NEW prev, NEW h,
           NEW err, NEW x, h => Accounts(mem, x) /\ Accounts(dk, x)
    PROVE  Plan(PrepareReplacement(o, d), mem, dk, prev, h, err, x)
  <1>1. mem # None /\ mem \in Records /\ mem.cand = None
    BY NoneAssumption DEF SoundRecord
  <1>2. CASE d = mem.decl
    <2>1. PrepareReplacement(o, d) = <<Adopt([mem EXCEPT !.owner = o], "return")>>
      BY <1>2 DEF PrepareReplacement
    <2> QED BY <2>1, ReownPlan
  <1>3. CASE d # mem.decl /\ PrepareReplacement(o, d) = Reject
    BY <1>3, EmptyPlan
  <1>4. CASE d # mem.decl /\ PrepareReplacement(o, d) # Reject
    <2> DEFINE r == [mem EXCEPT !.cand = d, !.candOwner = o,
                                !.phase = "Preparing", !.deadline = 0]
               y == [r EXCEPT !.phase = "Prepared"]
               do(op) == Call(op, d, None, "drop_candidate")
               v == Store(r, "return")
               w == Store(y, "return")
               a == do("preflight")
               b == do("prepare_link")
               c == do("prepare_routes")
               f == do("prepare_firewall")
               s == <<v, a, b, c, f, w>>
    <2>1. PrepareReplacement(o, d) = s /\ d.table # mem.decl.table
      BY <1>4 DEF PrepareReplacement
    <2>2. /\ SoundRecord(r) /\ SoundRecord(y)
          /\ Enclosed(s, v, Calls({"drop_candidate"}), w)
      BY <2>1, StagingForm, ZenonT(60)
    <2>3. /\ r \in Records /\ r.decl = mem.decl /\ r.steps = mem.steps
          /\ r.sysctls = mem.sysctls /\ r.cand = d
      BY <1>1, <2>2 DEF SoundRecord, Records
    <2>4. /\ y.decl = mem.decl /\ y.steps = mem.steps
          /\ y.sysctls = mem.sysctls /\ y.cand = d
      BY <2>3 DEF Records
    <2>5. /\ IsWrite(v) /\ IsWrite(w) /\ v.r = r /\ w.r = y
          /\ v.catch = "return" /\ w.catch = "return" /\ f.d = d
          /\ \A e \in {v, a, b, c, w} : e.op # "prepare_firewall"
      BY DEF Store, Call, IsWrite, RecordWrites
    <2> HIDE DEF r, y
    <2>6. /\ r # None /\ y # None /\ d # None
      BY <2>2, NoneAssumption DEF SoundRecord
    <2>7. Accounts(mem, x) \/ (x.what = "firewall" /\ x.table = d.table) =>
              Accounts(r, x) /\ Accounts(y, x)
      BY <1>1, <2>3, <2>4, <2>6 DEF Accounts
    <2> HIDE DEF v, w, a, b, c, f
    <2>8. \A i \in 1..Len(s) : s[i].op = "prepare_firewall" => s[i].d.table = d.table
      BY <2>5
    <2> DEFINE C == {"drop_candidate"}
    <2>9. "restore_suspended" \notin C \cup {w.catch} /\ Enclosed(s, v, Calls(C), w)
      BY <2>2, <2>5
    <2> HIDE DEF s, C
    <2>10. Plan(s, mem, dk, prev, h, err, x)
      BY <2>5, <2>7, <2>8, <2>9, StagingPlan
    <2> QED BY <2>1, <2>10
  <1> QED BY <1>2, <1>3, <1>4

\* reconfigure: a suspended declaration is replaced in its own table.
LEMMA ReconfigurePlan ==
    ASSUME OptRecord(mem), NEW o \in LeaseOwners, NEW d \in Declarations,
           NEW dk, NEW h, NEW err, NEW x, h => Accounts(mem, x) /\ Accounts(dk, x)
    PROVE  Plan(Reconfigure(o, d), mem, dk, mem, h, err, x)
  <1>1. CASE Reconfigure(o, d) = Reject
    BY <1>1, EmptyPlan
  <1>2. CASE Reconfigure(o, d) # Reject
    <2>1. /\ mem # None /\ SoundRecord(mem) /\ mem \in Records
          /\ SameProcess(mem.owner, o) /\ mem.phase \in {"Active", "Suspended"}
      BY <1>2 DEF Reconfigure, OptRecord, SoundRecord
    <2>2. CASE mem.phase = "Active"
      <3>1. Reconfigure(o, d) = PrepareReplacement(o, d)
        BY <2>1, <2>2 DEF Reconfigure
      <3> QED BY <2>1, <2>2, <3>1, ReplacementPlan
    <2>3. CASE mem.phase = "Suspended" /\ d = mem.decl
      <3>1. Reconfigure(o, d) = <<Adopt([mem EXCEPT !.owner = o], "return")>>
        BY <2>1, <2>3 DEF Reconfigure
      <3> QED BY <2>1, <3>1, ReownPlan
    <2>4. CASE mem.phase = "Suspended" /\ d # mem.decl
      <3> DEFINE r == [mem EXCEPT !.phase = "RollingBack", !.cand = d, !.candOwner = o]
                 y == [mem EXCEPT !.owner = o, !.decl = d, !.failed = {}, !.deadline = 0]
                 do(op, a) == Call(op, a, {}, "restore_suspended")
                 v == Store(r, "return")
                 w == Adopt(y, "restore_suspended")
                 e1 == do("remove_firewall", mem.decl)
                 e2 == do("remove_routes", mem.decl)
                 e3 == do("prepare_link", d)
                 e4 == do("prepare_routes", d)
                 f == do("prepare_firewall", d)
                 s == <<v, e1, e2, e3, e4, f, w>>
      <3>1. Reconfigure(o, d) = s /\ d.table = mem.decl.table
        BY <1>2, <2>1, <2>4 DEF Reconfigure
      <3>2. /\ SoundRecord(r) /\ SoundRecord(y)
            /\ Enclosed(s, v, Calls({"restore_suspended"}), w)
        BY <2>1, <2>4, <3>1, ReconfigureForm, ZenonT(60)
      <3>3. /\ r.decl = mem.decl /\ r.steps = mem.steps /\ r.sysctls = mem.sysctls
            /\ r.cand = d /\ y.decl = d /\ y.steps = mem.steps
            /\ y.sysctls = mem.sysctls
        BY <2>1 DEF Records
      <3>4. /\ IsWrite(v) /\ IsWrite(w) /\ v.r = r /\ w.r = y
            /\ v.catch = "return" /\ f.d = d
            /\ \A e \in {v, e1, e2, e3, e4, w} : e.op # "prepare_firewall"
        BY DEF Store, Adopt, Call, IsWrite, RecordWrites
      <3> HIDE DEF r, y
      <3>5. /\ r # None /\ y # None /\ d # None /\ mem.cand = None /\ "fw" \in mem.steps
        BY <2>1, <2>4, <3>2, NoneAssumption DEF SoundRecord
      <3>6. Accounts(mem, x) \/ (x.what = "firewall" /\ x.table = d.table) =>
                Accounts(r, x) /\ Accounts(y, x)
        BY <3>1, <3>3, <3>5 DEF Accounts
      <3> HIDE DEF v, w, e1, e2, e3, e4, f
      <3>7. \A i \in 1..Len(s) : s[i].op = "prepare_firewall" => s[i].d.table = d.table
        BY <3>4
      <3> HIDE DEF s
      <3>8. Plan(s, mem, dk, mem, h, err, x)
        BY <3>1, <3>2, <3>4, <3>6, <3>7, StagingPlan
      <3> QED BY <3>1, <3>8
    <2> QED BY <2>1, <2>2, <2>3, <2>4
  <1> QED BY <1>1, <1>2

\* prepare: the sysctls and the firewall are created after a record with their
\* bits is written.
LEMMA PreparePlan ==
    ASSUME OptRecord(mem), NEW o \in LeaseOwners, NEW d \in Declarations, NEW dk,
           NEW prev, NEW h, NEW err, NEW x, h => Accounts(mem, x) /\ Accounts(dk, x),
           x.what = "sysctls" /\ kern.sysctl => h, x.what \in {"sysctls", "firewall"}
    PROVE  Plan(Prepare(o, d), mem, dk, prev, h, err, x)
  <1> DEFINE r0 == [owner |-> o, decl |-> d, cand |-> None, candOwner |-> None,
                    phase |-> "Preparing", steps |-> {}, sysctls |-> FALSE,
                    deadline |-> 0, failed |-> {}]
             r1 == [r0 EXCEPT !.sysctls = ~kern.sysctl]
             step(bits) == Store(WithSteps(r1, bits), "cleanup")
             do(op) == Call(op, d, r1.sysctls, "cleanup")
             z == [WithSteps(r1, StepBits \ {"rule"}) EXCEPT !.phase = "Prepared"]
             e1 == Adopt(r0, "return")
             e2 == do("preflight")
             e3 == step({})
             e4 == step({"sysctls"})
             e5 == do("prepare_sysctls")
             e6 == step({"sysctls", "link"})
             e7 == do("prepare_link")
             e8 == step({"sysctls", "link", "up"})
             e9 == do("activate_link")
             e10 == step({"sysctls", "link", "up", "routes"})
             e11 == do("prepare_routes")
             e12 == step({"sysctls", "link", "up", "routes", "fw"})
             e13 == do("prepare_firewall")
             e14 == Store(z, "cleanup")
             s == <<e1, e2, e3, e4, e5, e6, e7, e8, e9, e10, e11, e12, e13, e14>>
  <1>1. Prepare(o, d) \in {Reject, <<>>} \/ (mem = None /\ Prepare(o, d) = s)
    BY DEF Prepare
  <1>2. CASE Prepare(o, d) \in {Reject, <<>>}
    BY <1>2, EmptyPlan
  <1>3. CASE mem = None /\ Prepare(o, d) = s
    <2>1. ~h /\ (x.what = "sysctls" => r1.sysctls = TRUE)
      BY <1>3 DEF Accounts
    <2>2. /\ r1 \in Records /\ r1.decl = d /\ r1.steps = {} /\ r1.cand = None
      BY DEF Records, Phases
    <2> HIDE DEF r1
    <2>3. ASSUME NEW bits \in SUBSET StepBits
          PROVE  LET y == WithSteps(r1, bits)
                 IN /\ y \in Records /\ y.decl = d /\ y.steps = bits
                    /\ y.sysctls = r1.sysctls
      BY <2>2 DEF WithSteps, Records
    <2>4. /\ z \in Records /\ z.decl = d /\ z.steps = StepBits \ {"rule"}
          /\ z.sysctls = r1.sysctls
      <3>1. StepBits \ {"rule"} \in SUBSET StepBits
        OBVIOUS
      <3> QED BY <2>3, <3>1 DEF Records, Phases
    <2>5. ASSUME NEW bits \in SUBSET StepBits
          PROVE  LET e == step(bits)
                 IN /\ e.op = "store" /\ e.catch = "cleanup"
                    /\ x.what = "sysctls" /\ "sysctls" \in bits => Accounts(e.r, x)
                    /\ x.what = "firewall" /\ x.table = d.table /\ "fw" \in bits =>
                           Accounts(e.r, x)
      <3> DEFINE y == WithSteps(r1, bits)
      <3>1. y \in Records /\ y.decl = d /\ y.steps = bits /\ y.sysctls = r1.sysctls
        BY <2>3
      <3>2. step(bits).r = y /\ step(bits).op = "store" /\ step(bits).catch = "cleanup"
        BY DEF Store, Call
      <3> HIDE DEF y
      <3>3. y # None
        BY <3>1, NoneAssumption
      <3>4. /\ x.what = "sysctls" /\ "sysctls" \in bits => Accounts(y, x)
            /\ x.what = "firewall" /\ x.table = d.table /\ "fw" \in bits => Accounts(y, x)
        BY <2>1, <3>1, <3>3 DEF Accounts
      <3> QED BY <3>2, <3>4
    <2>6. /\ e14.op = "store" /\ e14.catch = "cleanup"
          /\ x.what = "sysctls" => Accounts(e14.r, x)
          /\ x.what = "firewall" /\ x.table = d.table => Accounts(e14.r, x)
      <3>1. e14.r = z /\ e14.op = "store" /\ e14.catch = "cleanup"
        BY DEF Store, Call
      <3> HIDE DEF z
      <3>2. z # None
        BY <2>4, NoneAssumption
      <3>3. /\ x.what = "sysctls" => Accounts(z, x)
            /\ x.what = "firewall" /\ x.table = d.table => Accounts(z, x)
        BY <2>1, <2>4, <3>2 DEF Accounts, StepBits
      <3> QED BY <3>1, <3>3
    <2>7. /\ e4.op = "store" /\ e4.catch = "cleanup" /\ e6.op = "store" /\ e6.catch = "cleanup"
          /\ e8.op = "store" /\ e8.catch = "cleanup" /\ e10.op = "store" /\ e10.catch = "cleanup"
          /\ e12.op = "store" /\ e12.catch = "cleanup"
          /\ x.what = "sysctls" => /\ Accounts(e4.r, x) /\ Accounts(e6.r, x)
                                   /\ Accounts(e8.r, x) /\ Accounts(e10.r, x)
                                   /\ Accounts(e12.r, x)
          /\ x.what = "firewall" /\ x.table = d.table => Accounts(e12.r, x)
      <3>1. /\ {"sysctls"} \in SUBSET StepBits /\ {"sysctls", "link"} \in SUBSET StepBits
            /\ {"sysctls", "link", "up"} \in SUBSET StepBits
            /\ {"sysctls", "link", "up", "routes"} \in SUBSET StepBits
            /\ {"sysctls", "link", "up", "routes", "fw"} \in SUBSET StepBits
        BY DEF StepBits
      <3> HIDE DEF step
      <3> QED BY <2>5, <3>1
    <2>8. /\ e1.op = "adopt" /\ e1.catch = "return" /\ e3.op = "store" /\ e3.catch = "cleanup"
          /\ e2.op = "preflight" /\ e2.catch = "cleanup"
          /\ e5.op = "prepare_sysctls" /\ e5.catch = "cleanup"
          /\ e7.op = "prepare_link" /\ e7.catch = "cleanup"
          /\ e9.op = "activate_link" /\ e9.catch = "cleanup"
          /\ e11.op = "prepare_routes" /\ e11.catch = "cleanup"
          /\ e13.op = "prepare_firewall" /\ e13.catch = "cleanup" /\ e13.d = d
      BY DEF Adopt, Store, Call
    <2> HIDE DEF e1, e2, e3, e4, e5, e6, e7, e8, e9, e10, e11, e12, e13, e14
    <2>9. /\ Len(s) = 14 /\ s[1] = e1 /\ s[2] = e2 /\ s[3] = e3 /\ s[4] = e4 /\ s[5] = e5
          /\ s[6] = e6 /\ s[7] = e7 /\ s[8] = e8 /\ s[9] = e9 /\ s[10] = e10
          /\ s[11] = e11 /\ s[12] = e12 /\ s[13] = e13 /\ s[14] = e14
      OBVIOUS
    <2> HIDE DEF s
    <2>10. ~InCleanup(s)
      BY <2>6, <2>9 DEF InCleanup
    <2>11. CASE x.what = "sysctls"
      <3>1. IsWrite(s[4]) /\ 4 \in 1..Len(s)
        BY <2>7, <2>9 DEF IsWrite, RecordWrites
      <3>2. \A i \in 1..4 : ~Creates(s[i], prev, x)
        BY <2>7, <2>8, <2>9, <2>11 DEF Creates
      <3>3. \A i \in 4..Len(s) : IsWrite(s[i]) => Accounts(s[i].r, x)
        BY <2>6, <2>7, <2>8, <2>9, <2>11 DEF IsWrite, RecordWrites
      <3>4. Raised(s, prev, h, x)
        BY <2>1, <3>1, <3>2, <3>3 DEF Raised
      <3> QED BY <1>3, <2>1, <2>10, <3>4 DEF Plan
    <2>12. CASE x.what = "firewall" /\ x.table = d.table
      <3>1. IsWrite(s[12]) /\ 12 \in 1..Len(s)
        BY <2>7, <2>9 DEF IsWrite, RecordWrites
      <3>2. \A i \in 1..12 : ~Creates(s[i], prev, x)
        BY <2>7, <2>8, <2>9, <2>12 DEF Creates
      <3>3. \A i \in 12..Len(s) : IsWrite(s[i]) => Accounts(s[i].r, x)
        BY <2>6, <2>7, <2>8, <2>9, <2>12 DEF IsWrite, RecordWrites
      <3>4. Raised(s, prev, h, x)
        BY <2>1, <3>1, <3>2, <3>3 DEF Raised
      <3> QED BY <1>3, <2>1, <2>10, <3>4 DEF Plan
    <2>13. CASE x.what = "firewall" /\ x.table # d.table
      <3>1. \A i \in 1..Len(s) : ~Creates(s[i], prev, x)
        BY <2>6, <2>7, <2>8, <2>9, <2>13 DEF Creates
      <3>2. Released(s, prev, h, x)
        BY <2>1, <3>1 DEF Released
      <3> QED BY <1>3, <2>1, <2>10, <3>2 DEF Plan
    <2> QED BY <2>11, <2>12, <2>13
  <1> QED BY <1>1, <1>2, <1>3

\* The record an in-place change started from stands for what its intent does.
LEMMA IntentAccounts ==
    ASSUME NEW m, NEW prev, Intent(m, prev), prev # None, NEW x
    PROVE  /\ Accounts(m, x) => Accounts(prev, x)
           /\ x.what = "firewall" /\ x.table = prev.decl.table =>
                  Accounts(m, x) /\ Accounts(prev, x)
  BY DEF Intent, Accounts

\* restore_policy_update replaces the firewall, restore_suspended creates it in the
\* table the journal already names.
LEMMA RestorePlan ==
    ASSUME NEW m, SoundRecord(m), NEW prev, SoundRecord(prev), Intent(m, prev),
           NEW dk, NEW h, NEW err, NEW x, h => Accounts(m, x) /\ Accounts(dk, x)
    PROVE  /\ Plan(RestorePolicy(m, prev), m, dk, prev, h, err, x)
           /\ (x.what = "firewall" /\ x.table = prev.decl.table => Accounts(dk, x)) =>
                  Plan(RestoreSuspended(m, prev), m, dk, prev, h, err, x)
  <1>1. prev # None /\ m.cand # None
    BY NoneAssumption DEF SoundRecord, Intent
  <1>2. /\ Accounts(m, x) => Accounts(prev, x)
        /\ x.what = "firewall" /\ x.table = prev.decl.table =>
               Accounts(m, x) /\ Accounts(prev, x)
    BY <1>1, IntentAccounts
  <1> DEFINE w == Adopt(prev, "return")
  <1>3. IsWrite(w) /\ w.r = prev /\ w.catch = "return" /\ w.op = "adopt"
    BY DEF Adopt, Call, IsWrite, RecordWrites
  <1>4. Plan(RestorePolicy(m, prev), m, dk, prev, h, err, x)
    <2> DEFINE C == {e \in Calls(Quiet) : e.op # "prepare_firewall"}
               s == RestorePolicy(m, prev)
    <2>1. Tailed(s, C, w)
      BY <1>1, RestoreForm
    <2>2. "restore_suspended" \notin Quiet
      BY DEF Quiet
    <2> HIDE DEF s, w
    <2>3. Plan(s, m, dk, prev, h, err, x)
      BY <1>2, <1>3, <2>1, <2>2, TailedPlan
    <2> QED BY <2>3 DEF s
  <1>5. ASSUME x.what = "firewall" /\ x.table = prev.decl.table => Accounts(dk, x)
        PROVE  Plan(RestoreSuspended(m, prev), m, dk, prev, h, err, x)
    <2> DEFINE e1 == Call("remove_firewall", m.cand, None, "soft")
               e2 == Call("remove_routes", m.cand, {}, "soft")
               e3 == Call("prepare_link", prev.decl, None, "soft")
               e4 == Call("prepare_routes", prev.decl, None, "soft")
               e5 == Call("prepare_firewall", prev.decl, None, "soft")
               e6 == Call("unless_failed", None, None, "return")
               s == <<e1, e2, e3, e4, e5, e6, w>>
    <2>1. RestoreSuspended(m, prev) = s
      BY DEF RestoreSuspended
    <2>2. /\ e5.op = "prepare_firewall" /\ e5.d = prev.decl
          /\ \A e \in {e1, e2, e3, e4, e5, e6} :
                 ~IsWrite(e) /\ e.op # "prepare_sysctls" /\ e.catch # "restore_suspended"
          /\ \A e \in {e1, e2, e3, e4, e6} : e.op # "prepare_firewall"
      BY DEF Call, IsWrite, RecordWrites
    <2> HIDE DEF e1, e2, e3, e4, e5, e6, w
    <2>3. /\ Len(s) = 7 /\ s[7] = w /\ s[5] = e5
          /\ \A i \in 1..Len(s) : s[i] \in {e1, e2, e3, e4, e5, e6, w}
      OBVIOUS
    <2> HIDE DEF s
    <2>4. ~InCleanup(s)
      BY <1>3, <2>3 DEF InCleanup
    <2>5. \A i \in 1..Len(s) : IsWrite(s[i]) => s[i].r = prev
      BY <1>3, <2>2, <2>3
    <2>6. CASE x.what = "firewall" /\ x.table = prev.decl.table
      <3>1. Kept(s, m, dk, x)
        BY <1>2, <1>5, <2>5, <2>6 DEF Kept
      <3> QED BY <2>1, <2>4, <3>1 DEF Plan
    <2>7. CASE ~(x.what = "firewall" /\ x.table = prev.decl.table)
      <3>1. \A i \in 1..Len(s) : ~Creates(s[i], prev, x)
        BY <1>3, <2>2, <2>3, <2>7 DEF Creates
      <3>2. \A i \in 1..Len(s) : IsWrite(s[i]) /\ Accounts(m, x) => Accounts(s[i].r, x)
        BY <1>2, <2>5
      <3>3. Plan(s, m, dk, prev, h, err, x)
        BY <2>4, <3>1, <3>2, ReleasePlan
      <3> QED BY <2>1, <3>3
    <2> QED BY <2>6, <2>7
  <1> QED BY <1>4, <1>5

\* The error branch that follows a failure, with dn in the journal.
LEMMA CaughtPlan ==
    ASSUME NEW s, NEW m, NEW prev, OptRecord(m), OptRecord(prev), Scripted(s, m, prev),
           s # <<>>, NEW dn, NEW g, NEW f, NEW x,
           g => Accounts(Remaining(s, m), x) /\ Accounts(dn, x),
           Creates(s[1], prev, x) => Accounts(dn, x)
    PROVE  Plan(Caught(s[1].catch, Remaining(s, m), prev), Remaining(s, m), dn, prev, g, f, x)
  <1> DEFINE n == Remaining(s, m)
             c == Caught(s[1].catch, n, prev)
  <1>1. 1 \in 1..Len(s) /\ Len(s) \in Nat
    BY EmptySeq DEF Scripted, Shape
  <1>2. WellFormed(s[1]) /\ s[1].catch \in Catches
    BY <1>1 DEF Scripted, Shape, WellFormed
  <1>3. OptRecord(n) /\ (g => Accounts(n, x) /\ Accounts(dn, x))
    BY <1>2 DEF Remaining, OptRecord, WellFormed, RecordWrites
  <1>4. CASE s[1].catch = "cleanup"
    <2>1. m # None
      BY <1>4 DEF Scripted, Shape
    <2>2. SoundRecord(n)
      BY <1>2, <2>1 DEF Remaining, OptRecord, WellFormed, RecordWrites
    <2>3. c = Cleanup(n)
      BY <1>4 DEF Caught
    <2> HIDE DEF n, c
    <2>4. Plan(c, n, dn, prev, g, f, x)
      BY <1>3, <2>2, <2>3, CleanupPlan
    <2> QED BY <2>4 DEF n, c
  <1>5. CASE s[1].catch \in Drops
    <2>1. HasCandidate(n)
      BY <1>1, <1>5 DEF Scripted, Catchable, Remaining
    <2>2. SoundRecord(n)
      BY <1>3, <2>1 DEF OptRecord, HasCandidate
    <2>3. c = DropActivation(n) \/ c = DropCandidate(n)
      BY <1>5 DEF Caught, Drops
    <2> HIDE DEF n, c
    <2>4. Plan(c, n, dn, prev, g, f, x)
      BY <1>3, <2>1, <2>2, <2>3, DiscardPlan
    <2> QED BY <2>4 DEF n, c
  <1>6. CASE s[1].catch \in Restores
    <2>1. Intent(n, prev) /\ prev # None
      BY <1>1, <1>6 DEF Scripted, Catchable, Remaining
    <2>2. SoundRecord(n) /\ SoundRecord(prev)
      BY <1>3, <2>1 DEF OptRecord, Intent
    <2>3. \/ c = RestoreSuspended(n, prev) /\ s[1].catch = "restore_suspended"
          \/ c = RestorePolicy(n, prev)
      BY <1>6 DEF Caught, Restores
    <2>4. s[1].catch = "restore_suspended" =>
              (x.what = "firewall" /\ x.table = prev.decl.table => Accounts(dn, x))
      BY <2>1 DEF Creates
    <2> HIDE DEF n, c
    <2>5. Plan(c, n, dn, prev, g, f, x)
      BY <1>3, <2>1, <2>2, <2>3, <2>4, RestorePlan
    <2> QED BY <2>5 DEF n, c
  <1>7. CASE s[1].catch \in Quiet
    <2>1. c = <<>>
      BY <1>7 DEF Caught, Quiet
    <2> HIDE DEF n, c
    <2>2. Plan(c, n, dn, prev, g, f, x)
      BY <1>3, <2>1, EmptyPlan
    <2> QED BY <2>2 DEF n, c
  <1> QED BY <1>2, <1>4, <1>5, <1>6, <1>7 DEF Catches

\* A call of any script is over.
LEMMA PassPlan ==
    ASSUME NEW s, NEW m, NEW dk, NEW prev, NEW h, NEW err, NEW x, NEW g, NEW f,
           Scripted(s, m, prev), Plan(s, m, dk, prev, h, err, x), s # <<>>,
           ~IsWrite(s[1]), s[1].op # "clear", g => h \/ Creates(s[1], prev, x),
           Settles(s[1], x) => ~g,
           InCleanup(s) => (err => f) /\ (Erases(s[1], x) /\ ~f => ~g)
    PROVE  /\ g => Accounts(m, x) /\ Accounts(dk, x)
           /\ Creates(s[1], prev, x) => Accounts(m, x) /\ Accounts(dk, x)
           /\ Plan(Tail(s), m, dk, prev, g, f, x)
  <1>1. s \in Seq(Elements)
    BY DEF Scripted, Shape
  <1>2. CASE InCleanup(s)
    BY <1>2, CleanCallPlan
  <1>3. CASE ~InCleanup(s)
    <2>1. ~InCleanup(Tail(s))
      <3> DEFINE t == Tail(s)
      <3>1. t # <<>> => (InCleanup(t) <=> InCleanup(s))
        BY <1>1, TailLast
      <3> HIDE DEF t
      <3>2. ~InCleanup(t)
        BY <1>3, <3>1 DEF InCleanup
      <3> QED BY <3>2 DEF t
    <2> QED BY <1>1, <1>3, <2>1, CallPlan
  <1> QED BY <1>2, <1>3

\* A write of any script is over.
LEMMA StoredPlan ==
    ASSUME NEW s, NEW m, NEW dk, NEW prev, NEW h, NEW err, NEW x,
           Scripted(s, m, prev), Plan(s, m, dk, prev, h, err, x), s # <<>>,
           IsWrite(s[1]), NEW n \in {m, s[1].r}, NEW dn \in {dk, s[1].r}
    PROVE  /\ h => Accounts(n, x) /\ Accounts(dn, x)
           /\ Creates(s[1], prev, x) => Accounts(n, x) /\ Accounts(dn, x)
           /\ n = s[1].r /\ dn = s[1].r => Plan(Tail(s), n, dn, prev, h, err, x)
  <1>1. s \in Seq(Elements)
    BY DEF Scripted, Shape
  <1>2. CASE InCleanup(s)
    BY <1>2, IntentPlan
  <1>3. CASE ~InCleanup(s)
    <2>1. ~InCleanup(Tail(s))
      <3> DEFINE t == Tail(s)
      <3>1. t # <<>> => (InCleanup(t) <=> InCleanup(s))
        BY <1>1, TailLast
      <3> HIDE DEF t
      <3>2. ~InCleanup(t)
        BY <1>3, <3>1 DEF InCleanup
      <3> QED BY <3>2 DEF t
    <2>2. ~Settles(s[1], x)
      BY DEF Settles, Erases, IsWrite, RecordWrites
    <2> QED BY <1>1, <1>3, <2>1, <2>2, WritePlan
  <1> QED BY <1>2, <1>3

\* What a call does to the presence of an object: a call that succeeds or fails can
\* only add what it creates.
LEMMA PresentEffect ==
    ASSUME NEW e, NEW k, NEW n, NEW T, NEW U, T \subseteq U, IsKernel(k), Effect(e, k, n),
           e.op \in KernelCalls, Feasible(e, k), NEW prev, NEW x \in Objects,
           Present(n, U, x)
    PROVE  Present(k, T, x) \/ Creates(e, prev, x)
  <1>1. CASE x.what = "sysctls"
    <2>1. n.sysctl
      BY <1>1 DEF Present
    <2> QED BY <1>1, <2>1 DEF Present, Creates, Effect
  <1>2. CASE x.what = "firewall"
    <2>1. x.table \in Tables /\ x.table \notin U /\ n.fw[x.table] # None
      BY <1>2 DEF Present, Objects
    <2>2. CASE k.fw[x.table] # None
      BY <1>2, <2>1, <2>2 DEF Present
    <2>3. CASE k.fw[x.table] = None
      <3>1. e.op \in FirewallCalls /\ e.d.table = x.table /\ e.op # "remove_firewall"
        BY <2>1, <2>3 DEF Effect
      <3>2. e.op # "replace_firewall"
        BY <2>3, <3>1 DEF Feasible
      <3> QED BY <1>2, <3>1, <3>2 DEF Creates, FirewallCalls
    <2> QED BY <2>2, <2>3
  <1> QED BY <1>1, <1>2 DEF Objects

\* A removal that is completed has removed the object, and none is refused.
LEMMA ErasedEffect ==
    ASSUME NEW e, NEW k, IsKernel(k), WellFormed(e), NEW x \in Objects, Erases(e, x), NEW T
    PROVE  ~Present(Applied(e, k, Prefixes), T, x) /\ Feasible(e, k)
  <1>1. e.op \in KernelCalls /\ e.op \in {"restore_sysctls", "remove_firewall"}
    BY DEF Erases, KernelCalls
  <1>2. Feasible(e, k)
    BY <1>1 DEF Feasible
  <1>3. ~Present(Applied(e, k, Prefixes), T, x)
    BY <1>1, AppliedEffect DEF Present, Erases
  <1> QED BY <1>2, <1>3

\* A successful element goes on with its `then`, or with the rest.
LEMMA SucceededJob ==
    ASSUME ServiceInv, job.todo # <<>>, Succeeded(Head(job.todo))
    PROVE  /\ job'.prev = job.prev /\ job'.err = job.err
           /\ Head(job.todo).then = <<>> => job'.todo = Tail(job.todo)
           /\ \A b \in StepBits : Head(job.todo).then = Undoing(b) =>
                  job'.todo = Undoing(b) \o Tail(job.todo)
  <1> DEFINE e == Head(job.todo)
             k == [kind |-> job.kind, todo |-> e.then \o Tail(job.todo), prev |-> job.prev,
                   sess |-> job.sess, err |-> job.err, failed |-> job.failed]
  <1>1. <<>> \o Tail(job.todo) = Tail(job.todo)
    BY FirstElement
  <1>2. job \in Jobs
    BY DEF ServiceInv
  <1>3. job' = k
    BY <1>2 DEF Succeeded, Jobs
  <1>4. job'.prev = job.prev /\ job'.err = job.err /\ job'.todo = e.then \o Tail(job.todo)
    BY <1>3
  <1> HIDE DEF k, e
  <1>5. /\ e.then = <<>> => job'.todo = Tail(job.todo)
        /\ \A b \in StepBits : e.then = Undoing(b) => job'.todo = Undoing(b) \o Tail(job.todo)
    BY <1>1, <1>4
  <1> QED BY <1>4, <1>5 DEF e

\* A failing one goes on with the rest, or with an error branch.
LEMMA FailedJob ==
    ASSUME ServiceInv, job.todo # <<>>, NEW n, Failed(Head(job.todo), n)
    PROVE  LET c == Head(job.todo).catch
           IN /\ job'.prev = job.prev
              /\ c = "ignore" => job'.todo = Tail(job.todo) /\ job'.err = job.err
              /\ c = "soft" => job'.todo = Tail(job.todo) /\ job'.err = TRUE
              /\ c \notin {"ignore", "soft"} =>
                     job'.todo = Caught(c, n, job.prev) /\ job'.err = FALSE
  <1> DEFINE e == Head(job.todo)
             c == e.catch
  <1>1. c \in Catches
    BY FirstElement
  <1>2. job \in Jobs
    BY DEF ServiceInv
  <1>3. c # "then"
    BY <1>1 DEF Catches, Quiet, Drops, Restores
  <1>4. CASE c = "ignore"
    <2>1. job' = [job EXCEPT !.todo = Tail(@)]
      BY <1>4 DEF Failed
    <2> QED BY <1>2, <1>4, <2>1 DEF Jobs
  <1>5. CASE c = "soft"
    <2>1. job' = [job EXCEPT !.todo = Tail(@), !.err = TRUE]
      BY <1>5 DEF Failed
    <2> QED BY <1>2, <1>5, <2>1 DEF Jobs
  <1>6. CASE c \notin {"ignore", "soft"}
    <2>1. job' = [job EXCEPT !.todo = Caught(c, n, job.prev), !.err = FALSE, !.failed = TRUE]
      BY <1>3, <1>6 DEF Failed
    <2> QED BY <1>2, <1>6, <2>1 DEF Jobs
  <1> QED BY <1>4, <1>5, <1>6

\* The plan after a failure.
LEMMA FailedPlan ==
    ASSUME ServiceInv, job.todo # <<>>, NEW n, NEW dn, NEW g, NEW x,
           Failed(Head(job.todo), n),
           job.todo[1].catch \notin {"ignore", "soft"} => n = Remaining(job.todo, mem),
           g => Accounts(n, x) /\ Accounts(dn, x),
           Creates(job.todo[1], job.prev, x) => Accounts(dn, x),
           job.todo[1].catch = "ignore" =>
               Plan(Tail(job.todo), n, dn, job.prev, g, job.err, x),
           job.todo[1].catch = "soft" => Plan(Tail(job.todo), n, dn, job.prev, g, TRUE, x)
    PROVE  Plan(job'.todo, n, dn, job'.prev, g, job'.err, x)
  <1> DEFINE e == job.todo[1]
             s == job.todo
  <1>1. Head(job.todo) = e
    BY FirstElement
  <1>2. /\ job'.prev = job.prev
        /\ e.catch = "ignore" => job'.todo = Tail(s) /\ job'.err = job.err
        /\ e.catch = "soft" => job'.todo = Tail(s) /\ job'.err = TRUE
        /\ e.catch \notin {"ignore", "soft"} =>
               job'.todo = Caught(e.catch, n, job.prev) /\ job'.err = FALSE
    BY <1>1, FailedJob
  <1>3. CASE e.catch \in {"ignore", "soft"}
    BY <1>2, <1>3
  <1>4. CASE e.catch \notin {"ignore", "soft"}
    <2>1. OptRecord(mem) /\ OptRecord(job.prev) /\ Scripted(s, mem, job.prev) /\ s # <<>>
      BY DEF ServiceInv
    <2>2. n = Remaining(s, mem)
      BY <1>4
    <2> HIDE DEF s
    <2>3. Plan(Caught(s[1].catch, Remaining(s, mem), job.prev), Remaining(s, mem), dn,
               job.prev, g, FALSE, x)
      BY <2>1, <2>2, CaughtPlan DEF s
    <2> QED BY <1>2, <1>4, <2>2, <2>3 DEF s
  <1> QED BY <1>3, <1>4

\* A call that succeeds.
LEMMA StepKernelPlan ==
    ASSUME ServiceInv, IsKernel(kern), ResidueInv, job.todo # <<>>,
           StepKernel(job.todo[1]), NEW x \in Objects
    PROVE  Plan(job'.todo, mem', disk', job'.prev, Present(kern', torn', x), job'.err, x)
  <1> DEFINE e == job.todo[1]
             s == job.todo
             h == Present(kern, torn, x)
             g == Present(kern', torn', x)
  <1>1. /\ Head(s) = e /\ WellFormed(e) /\ e.op \in Operations
        /\ e.then = <<>> \/ \E b \in StepBits : e.then = Undoing(b)
    BY FirstElement
  <1>2. /\ e.op \notin Writes \cup {"clear", "unless_failed"} /\ Feasible(e, kern)
        /\ kern' = Applied(e, kern, Prefixes) /\ Succeeded(e)
        /\ UNCHANGED <<disk, mem, torn>>
    BY DEF StepKernel
  <1>3. e.op \in KernelCalls
    <2>1. e.op # "reject"
      BY <1>2 DEF Feasible
    <2> QED BY <1>1, <1>2, <2>1 DEF Operations, Writes, RecordWrites, Cleaners
  <1>4. Effect(e, kern, kern')
    BY <1>1, <1>2, <1>3, AppliedEffect
  <1>5. g => h \/ Creates(e, job.prev, x)
    BY <1>2, <1>3, <1>4, PresentEffect
  <1>6. Erases(e, x) => ~g
    BY <1>1, <1>2, ErasedEffect
  <1>7. Settles(e, x) => ~g
    BY <1>6 DEF Settles
  <1>8. Plan(s, mem, disk, job.prev, h, job.err, x) /\ Scripted(s, mem, job.prev)
    BY DEF ResidueInv, ServiceInv
  <1>9. /\ job'.prev = job.prev /\ job'.err = job.err
        /\ e.then = <<>> => job'.todo = Tail(s)
        /\ \A b \in StepBits : e.then = Undoing(b) => job'.todo = Undoing(b) \o Tail(s)
    BY <1>1, <1>2, SucceededJob
  <1>10. ~IsWrite(e) /\ e.op # "clear"
    BY <1>2 DEF IsWrite, RecordWrites, Writes
  <1> HIDE DEF g, h
  <1>11. CASE e.then = <<>>
    <2>1. Plan(Tail(s), mem, disk, job.prev, g, job.err, x)
      <3> HIDE DEF s
      <3>1. s # <<>> /\ e = s[1]
        BY DEF s
      <3> HIDE DEF e
      <3> QED BY <1>5, <1>6, <1>7, <1>8, <1>10, <3>1, PassPlan
    <2> QED BY <1>2, <1>9, <1>11, <2>1 DEF g
  <1>12. ASSUME NEW b \in StepBits, e.then = Undoing(b)
         PROVE  Plan(job'.todo, mem', disk', job'.prev, g, job'.err, x)
    <2>1. Plan(Undoing(b) \o Tail(s), mem, disk, job.prev, g, job.err, x)
      <3> HIDE DEF s
      <3>1. s # <<>> /\ e = s[1]
        BY DEF s
      <3> HIDE DEF e
      <3> QED BY <1>5, <1>6, <1>8, <1>12, <3>1, UndonePlan
    <2> QED BY <1>2, <1>9, <1>12, <2>1
  <1> QED BY <1>1, <1>11, <1>12 DEF g

\* A call that fails: what it created is journaled already, what it should have
\* removed is still journaled or its table is torn.
LEMMA CallFailsPlan ==
    ASSUME ServiceInv, ResidueInv, job.todo # <<>>, NEW x \in Objects, NEW g,
           ~IsWrite(job.todo[1]), job.todo[1].op # "clear", Failed(Head(job.todo), mem),
           g => Present(kern, torn, x) \/ Creates(job.todo[1], job.prev, x),
           Settles(job.todo[1], x) => ~g
    PROVE  Plan(job'.todo, mem, disk, job'.prev, g, job'.err, x)
  <1> DEFINE s == job.todo
             e == s[1]
             h == Present(kern, torn, x)
  <1>1. Plan(s, mem, disk, job.prev, h, job.err, x) /\ Scripted(s, mem, job.prev)
    BY DEF ResidueInv, ServiceInv
  <1>2. 1 \in 1..Len(s) /\ Len(s) \in Nat
    BY <1>1, EmptySeq DEF Scripted, Shape
  <1>3. e.catch = "ignore" => ~InCleanup(s)
    <2> HIDE DEF s
    <2> QED BY <1>1, <1>2 DEF Scripted, CleanupShape
  <1>4. Remaining(s, mem) = mem
    BY DEF Remaining, IsWrite, RecordWrites
  <1>5. s # <<>> /\ ~IsWrite(e) /\ e.op # "clear" /\ (Settles(e, x) => ~g)
        /\ (g => h \/ Creates(e, job.prev, x)) /\ Failed(Head(s), mem)
    OBVIOUS
  <1> HIDE DEF s, h
  <1>6. /\ g => Accounts(mem, x) /\ Accounts(disk, x)
        /\ Creates(e, job.prev, x) => Accounts(mem, x) /\ Accounts(disk, x)
        /\ Plan(Tail(s), mem, disk, job.prev, g, TRUE, x)
    BY <1>1, <1>5, PassPlan
  <1>7. e.catch = "ignore" => Plan(Tail(s), mem, disk, job.prev, g, job.err, x)
    BY <1>1, <1>3, <1>5, PassPlan
  <1> QED BY <1>4, <1>5, <1>6, <1>7, FailedPlan DEF s

\* The three ways a call fails.
LEMMA RefusePlan ==
    ASSUME ServiceInv, IsKernel(kern), ResidueInv, job.todo # <<>>,
           RefuseKernel(job.todo[1]) \/ FailKernel(job.todo[1]) \/ StopRestore(job.todo[1]),
           NEW x \in Objects
    PROVE  Plan(job'.todo, mem', disk', job'.prev, Present(kern', torn', x), job'.err, x)
  <1> DEFINE e == job.todo[1]
             h == Present(kern, torn, x)
             g == Present(kern', torn', x)
  <1>1. Head(job.todo) = e /\ WellFormed(e) /\ e.op \in Operations
    BY FirstElement
  <1>2. /\ Failed(e, mem) /\ mem' = mem /\ disk' = disk /\ ~IsWrite(e) /\ e.op # "clear"
    BY DEF RefuseKernel, FailKernel, StopRestore, IsWrite, RecordWrites, Writes
  <1>3. /\ g => h \/ Creates(e, job.prev, x)
        /\ Settles(e, x) => ~g
    <2>1. CASE RefuseKernel(e)
      <3>1. ~Feasible(e, kern) /\ kern' = kern /\ torn' = torn
        BY <2>1 DEF RefuseKernel
      <3>2. ~Settles(e, x)
        BY <1>1, <3>1, ErasedEffect DEF Settles
      <3> QED BY <3>1, <3>2
    <2>2. CASE StopRestore(e)
      <3>1. e.op = "unless_failed" /\ kern' = kern /\ torn' = torn
        BY <2>2 DEF StopRestore
      <3> QED BY <3>1 DEF Settles, Erases
    <2>3. CASE FailKernel(e)
      <3>1. /\ e.op \notin Writes \cup {"clear", "unless_failed", "reject"}
            /\ Feasible(e, kern) /\ kern' \in PartlyApplied(e, kern)
            /\ torn' = IF e.catch \in {"ignore", "return"} /\ e.op \in Removals
                       THEN torn \cup {e.d.table} ELSE torn
        BY <2>3 DEF FailKernel
      <3>2. e.op \in KernelCalls
        BY <1>1, <3>1 DEF Operations, Writes, RecordWrites, Cleaners
      <3>3. Effect(e, kern, kern')
        BY <1>1, <3>1, <3>2, PartlyEffect
      <3>4. torn \subseteq torn'
        BY <3>1
      <3>5. g => h \/ Creates(e, job.prev, x)
        BY <3>1, <3>2, <3>3, <3>4, PresentEffect
      <3>6. Settles(e, x) => ~g
        BY <3>1 DEF Settles, Erases, Present, Removals
      <3> QED BY <3>5, <3>6
    <2> QED BY <2>1, <2>2, <2>3
  <1> HIDE DEF g, h
  <1>4. Plan(job'.todo, mem, disk, job'.prev, g, job'.err, x)
    BY <1>1, <1>2, <1>3, CallFailsPlan DEF h
  <1> QED BY <1>2, <1>4 DEF g

\* An element that does nothing.
LEMMA StepSkipPlan ==
    ASSUME ServiceInv, ResidueInv, job.todo # <<>>, StepSkip(job.todo[1]),
           NEW x \in Objects
    PROVE  Plan(job'.todo, mem', disk', job'.prev, Present(kern', torn', x), job'.err, x)
  <1> DEFINE s == job.todo
             e == s[1]
             h == Present(kern, torn, x)
  <1>1. Head(s) = e /\ (e.then # <<>> => e.op \in KernelCalls)
    BY FirstElement
  <1>2. /\ Skipped(e) /\ Succeeded(e) /\ mem' = mem /\ disk' = disk /\ kern' = kern
        /\ torn' = torn
    BY DEF StepSkip
  <1>3. e.op \in {"drop_candidate", "clear", "unless_failed"} /\ e.then = <<>>
    BY <1>1, <1>2 DEF Skipped, KernelCalls
  <1>4. job'.prev = job.prev /\ job'.err = job.err /\ job'.todo = Tail(s)
    BY <1>1, <1>2, <1>3, SucceededJob
  <1>5. Plan(s, mem, disk, job.prev, h, job.err, x) /\ Scripted(s, mem, job.prev) /\ s # <<>>
    BY DEF ResidueInv, ServiceInv
  <1> HIDE DEF s, h
  <1>6. Plan(Tail(s), mem, disk, job.prev, h, job.err, x)
    <2>1. CASE e.op = "clear"
      BY <1>5, <2>1, ClearPlan, EmptyPlan
    <2>2. CASE e.op # "clear"
      <3>1. ~IsWrite(e) /\ ~Erases(e, x) /\ ~Settles(e, x)
        BY <1>3 DEF IsWrite, RecordWrites, Erases, Settles
      <3> QED BY <1>5, <2>2, <3>1, PassPlan
    <2> QED BY <2>1, <2>2
  <1> QED BY <1>2, <1>4, <1>6 DEF h

\* Record n is m without bit b; without its candidate.
Cleared(n, m, b) ==
    /\ n \in Records /\ n.decl = m.decl /\ n.sysctls = m.sysctls /\ n.cand = m.cand
    /\ n.steps = m.steps \ {b}

Dropped(n, m) ==
    /\ n \in Records /\ n.decl = m.decl /\ n.sysctls = m.sysctls /\ n.cand = None
    /\ n.steps = m.steps

\* The record a clean-up writes.
LEMMA ClearedRecord ==
    ASSUME mem \in Records, NEW e, e.op \in {"clear_step", "drop_candidate"}
    PROVE  /\ e.op = "clear_step" => Cleared(Written(e), mem, e.r)
           /\ e.op = "drop_candidate" => Dropped(Written(e), mem)
  <1>1. CASE e.op = "clear_step"
    <2>1. Written(e) = [mem EXCEPT !.steps = @ \ {e.r}]
      BY <1>1 DEF Written
    <2> QED BY <1>1, <2>1 DEF Records, Cleared
  <1>2. CASE e.op = "drop_candidate"
    <2>1. Written(e) = [mem EXCEPT !.cand = None, !.candOwner = None]
      BY <1>2 DEF Written
    <2> QED BY <1>2, <2>1 DEF Records, Dropped
  <1> QED BY <1>1, <1>2

\* A clean-up clears a bit or drops the candidate; the write may fail before or
\* after it has replaced the file.
LEMMA ClearingPlan ==
    ASSUME ServiceInv, ResidueInv, job.todo # <<>>,
           job.todo[1].op \in {"clear_step", "drop_candidate"}, ~Skipped(job.todo[1]),
           NEW dn, dn \in {disk, Written(job.todo[1])}, NEW f, f \in {job.err, TRUE},
           NEW x \in Objects
    PROVE  Plan(Tail(job.todo), Written(job.todo[1]), dn, job.prev,
                Present(kern, torn, x), f, x)
  <1> DEFINE s == job.todo
             e == s[1]
             h == Present(kern, torn, x)
             n == Written(e)
             er == job.err
  <1>1. mem \in Records
    BY FirstElement DEF ServiceInv, OptRecord, SoundRecord
  <1>2. /\ e.op = "clear_step" => Cleared(n, mem, e.r)
        /\ e.op = "drop_candidate" => Dropped(n, mem)
    BY <1>1, ClearedRecord
  <1>3. Plan(s, mem, disk, job.prev, h, er, x) /\ Scripted(s, mem, job.prev) /\ s # <<>>
    BY DEF ResidueInv, ServiceInv
  <1>4. e.op = "drop_candidate" => ~er
    BY DEF Skipped
  <1>5. dn \in {disk, n} /\ (er => f) /\ e.op \in {"clear_step", "drop_candidate"}
    OBVIOUS
  <1>6. s \in Seq(Elements) /\ Len(s) \in Nat \ {0}
    BY <1>3, TailScript DEF Scripted, Shape
  <1> HIDE DEF s, h, n, er
  <1>7. InCleanup(s) /\ Ambient(s, mem) = mem
    BY <1>3, <1>5, <1>6 DEF Scripted, CleanupShape, Cleaners, Ambient
  <1>8. Cleaned(s, mem, h, er, x) /\ (h => Accounts(mem, x) /\ Accounts(disk, x))
    BY <1>3, <1>7 DEF Plan
  <1>9. n # None /\ n.decl = mem.decl /\ n.sysctls = mem.sysctls /\ n.cand \in {mem.cand, None}
    BY <1>2, <1>5, NoneAssumption DEF Cleared, Dropped
  <1>10. h => Accounts(n, x)
    <2>1. CASE e.op = "clear_step"
      <3>1. h => ~Strips(e.r, mem, x)
        BY <1>7, <1>8, <2>1 DEF Cleaned
      <3> QED BY <1>2, <1>8, <1>9, <2>1, <3>1 DEF Accounts, Strips, Cleared
    <2>2. CASE e.op = "drop_candidate"
      <3>1. h => ~(x.what = "firewall" /\ mem.cand # None /\ mem.cand.table = x.table)
        BY <1>4, <1>6, <1>7, <1>8, <2>2 DEF Cleaned
      <3> QED BY <1>2, <1>8, <1>9, <2>2, <3>1 DEF Accounts, Dropped
    <2> QED BY <1>5, <2>1, <2>2
  <1>11. ~Erases(e, x) /\ e.op # "clear"
    BY <1>5 DEF Erases
  <1>12. InCleanup(Tail(s)) /\ Cleaned(Tail(s), n, h, f, x)
    BY <1>3, <1>5, <1>7, <1>8, <1>9, <1>10, <1>11, TailCleaned
  <1>13. Plan(Tail(s), n, dn, job.prev, h, f, x)
    BY <1>5, <1>8, <1>10, <1>12 DEF Plan
  <1> QED BY <1>13 DEF s, h, n

\* A journal write that succeeds.
LEMMA StepWritePlan ==
    ASSUME ServiceInv, ResidueInv, job.todo # <<>>, StepWrite(job.todo[1]),
           NEW x \in Objects
    PROVE  Plan(job'.todo, mem', disk', job'.prev, Present(kern', torn', x), job'.err, x)
  <1> DEFINE s == job.todo
             e == s[1]
             h == Present(kern, torn, x)
  <1>1. Head(s) = e /\ (e.then # <<>> => e.op \in KernelCalls)
    BY FirstElement
  <1>2. /\ e.op \in Writes /\ ~Skipped(e) /\ Succeeded(e) /\ mem' = Written(e)
        /\ disk' = Written(e) /\ kern' = kern /\ torn' = torn
    BY DEF StepWrite
  <1>3. e.then = <<>>
    BY <1>1, <1>2 DEF Writes, KernelCalls
  <1>4. job'.prev = job.prev /\ job'.err = job.err /\ job'.todo = Tail(s)
    BY <1>1, <1>2, <1>3, SucceededJob
  <1>5. Plan(s, mem, disk, job.prev, h, job.err, x) /\ Scripted(s, mem, job.prev) /\ s # <<>>
    BY DEF ResidueInv, ServiceInv
  <1>6. CASE IsWrite(e)
    <2>1. Written(e) = e.r
      BY <1>6 DEF Written, IsWrite, RecordWrites
    <2>2. Plan(Tail(s), e.r, e.r, job.prev, h, job.err, x)
      <3> HIDE DEF s, h
      <3> QED BY <1>5, <1>6, StoredPlan
    <2> QED BY <1>2, <1>4, <2>1, <2>2
  <1>7. CASE ~IsWrite(e)
    <2>1. e.op \in {"clear_step", "drop_candidate"}
      BY <1>2, <1>7 DEF Writes, IsWrite, RecordWrites
    <2>2. Plan(Tail(s), Written(e), Written(e), job.prev, h, job.err, x)
      BY <1>2, <2>1, ClearingPlan
    <2> QED BY <1>2, <1>4, <2>2
  <1> QED BY <1>6, <1>7

\* One that fails.
LEMMA FailWritePlan ==
    ASSUME ServiceInv, ResidueInv, job.todo # <<>>, FailWrite(job.todo[1]),
           NEW x \in Objects
    PROVE  Plan(job'.todo, mem', disk', job'.prev, Present(kern', torn', x), job'.err, x)
  <1> DEFINE s == job.todo
             e == s[1]
             h == Present(kern, torn, x)
  <1>1. /\ Head(s) = e /\ WellFormed(e) /\ (IsWrite(e) /\ e.catch = "ignore" => Len(s) = 1)
        /\ s \in Seq(Elements)
    BY FirstElement
  <1>2. /\ e.op \in Writes /\ ~Skipped(e) /\ disk' \in {disk, Written(e)}
        /\ mem' = (IF e.op = "adopt" THEN mem ELSE Written(e)) /\ Failed(e, mem')
        /\ kern' = kern /\ torn' = torn
    BY DEF FailWrite
  <1>3. Plan(s, mem, disk, job.prev, h, job.err, x) /\ Scripted(s, mem, job.prev) /\ s # <<>>
    BY DEF ResidueInv, ServiceInv
  <1>4. CASE IsWrite(e)
    <2>1. Written(e) = e.r /\ e.catch # "soft" /\ mem' = Remaining(s, mem)
      BY <1>1, <1>2, <1>4 DEF Written, IsWrite, RecordWrites, Remaining, WellFormed
    <2>2. mem' \in {mem, e.r} /\ disk' \in {disk, e.r}
      BY <1>2, <2>1
    <2>3. /\ h => Accounts(mem', x) /\ Accounts(disk', x)
          /\ Creates(e, job.prev, x) => Accounts(mem', x) /\ Accounts(disk', x)
      <3> DEFINE n == mem'
                 dn == disk'
      <3>1. n \in {mem, e.r} /\ dn \in {disk, e.r}
        BY <2>2
      <3> HIDE DEF s, h, n, dn
      <3>2. /\ h => Accounts(n, x) /\ Accounts(dn, x)
            /\ Creates(e, job.prev, x) => Accounts(n, x) /\ Accounts(dn, x)
        BY <1>3, <1>4, <3>1, StoredPlan
      <3> QED BY <3>2 DEF n, dn
    <2>4. e.catch = "ignore" => Plan(Tail(s), mem', disk', job.prev, h, job.err, x)
      <3>1. e.catch = "ignore" => Tail(s) = <<>>
        <4> DEFINE t == Tail(s)
        <4>1. e.catch = "ignore" => t \in Seq(Elements) /\ Len(t) = 0
          BY <1>1, <1>3, <1>4, TailScript
        <4> HIDE DEF t
        <4>2. e.catch = "ignore" => t = <<>>
          BY <4>1, EmptySeq
        <4> QED BY <4>2 DEF t
      <3> QED BY <2>3, <3>1, EmptyPlan
    <2>5. Plan(job'.todo, mem', disk', job'.prev, h, job'.err, x)
      BY <1>1, <1>2, <2>1, <2>3, <2>4, FailedPlan
    <2> QED BY <1>2, <2>5
  <1>5. CASE ~IsWrite(e)
    <2>1. e.op \in {"clear_step", "drop_candidate"} /\ e.catch = "soft" /\ e.op # "adopt"
      BY <1>1, <1>2, <1>5 DEF Writes, IsWrite, RecordWrites, WellFormed, Cleaners
    <2>2. Plan(Tail(s), Written(e), disk', job.prev, h, TRUE, x)
      BY <1>2, <2>1, ClearingPlan
    <2>3. job'.prev = job.prev /\ job'.todo = Tail(s) /\ job'.err = TRUE
      BY <1>1, <1>2, <2>1, FailedJob
    <2> QED BY <1>2, <2>1, <2>2, <2>3
  <1> QED BY <1>4, <1>5

\* The journal is removed once nothing is left.
LEMMA StepClearPlan ==
    ASSUME ServiceInv, ResidueInv, job.todo # <<>>, StepClear(job.todo[1]),
           NEW x \in Objects
    PROVE  Plan(job'.todo, mem', disk', job'.prev, Present(kern', torn', x), job'.err, x)
  <1> DEFINE s == job.todo
             e == s[1]
             h == Present(kern, torn, x)
  <1>1. /\ Head(s) = e /\ WellFormed(e) /\ (e.then # <<>> => e.op \in KernelCalls)
    BY FirstElement
  <1>2. /\ e.op = "clear" /\ ~Skipped(e) /\ kern' = kern /\ torn' = torn
        /\ Succeeded(e) \/ Failed(e, mem)
    BY DEF StepClear
  <1>3. e.then = <<>> /\ e.catch = "soft" /\ mem.steps = {} /\ mem.cand = None
    BY <1>1, <1>2 DEF Skipped, WellFormed, Cleaners, KernelCalls
  <1>4. job'.todo = Tail(s)
    BY <1>1, <1>2, <1>3, SucceededJob, FailedJob
  <1>5. Plan(s, mem, disk, job.prev, h, job.err, x) /\ Scripted(s, mem, job.prev) /\ s # <<>>
    BY DEF ResidueInv, ServiceInv
  <1>6. Tail(s) = <<>> /\ ~h
    <2> HIDE DEF s, h
    <2> QED BY <1>2, <1>3, <1>5, ClearPlan
  <1>7. Plan(<<>>, mem', disk', job'.prev, h, job'.err, x)
    BY <1>6, EmptyPlan
  <1> QED BY <1>2, <1>4, <1>6, <1>7

\* Every element of a script is run by one of these actions.
LEMMA StepPlan ==
    ASSUME ServiceInv, IsKernel(kern), ResidueInv, Step
    PROVE  ResidueInv'
  <1> DEFINE e == job.todo[1]
  <1>1. job.todo # <<>>
    BY DEF Step
  <1>2. Head(job.todo) = e
    BY <1>1, FirstElement
  <1>3. \/ StepKernel(e) \/ RefuseKernel(e) \/ FailKernel(e) \/ StepSkip(e)
        \/ StopRestore(e) \/ StepWrite(e) \/ FailWrite(e) \/ StepClear(e)
    BY <1>2 DEF Step
  <1>4. ASSUME NEW x \in Objects
        PROVE  Plan(job'.todo, mem', disk', job'.prev, Present(kern', torn', x), job'.err, x)
    <2>1. CASE StepKernel(e)
      BY <1>1, <2>1, StepKernelPlan
    <2>2. CASE RefuseKernel(e) \/ FailKernel(e) \/ StopRestore(e)
      BY <1>1, <2>2, RefusePlan
    <2>3. CASE StepSkip(e)
      BY <1>1, <2>3, StepSkipPlan
    <2>4. CASE StepWrite(e)
      BY <1>1, <2>4, StepWritePlan
    <2>5. CASE FailWrite(e)
      BY <1>1, <2>5, FailWritePlan
    <2>6. CASE StepClear(e)
      BY <1>1, <2>6, StepClearPlan
    <2> QED BY <1>3, <2>1, <2>2, <2>3, <2>4, <2>5, <2>6
  <1> QED BY <1>4 DEF ResidueInv

\* What a script that starts does about an object: any handler of a request.
LEMMA HandlersPlan ==
    ASSUME ServiceInv, NEW o \in LeaseOwners, NEW h, NEW x \in Objects,
           h => Accounts(mem, x) /\ Accounts(disk, x),
           x.what = "sysctls" /\ kern.sysctl => h
    PROVE  /\ \A d \in Declarations :
                  /\ Plan(Prepare(o, d), mem, disk, mem, h, FALSE, x)
                  /\ Plan(Reconfigure(o, d), mem, disk, mem, h, FALSE, x)
                  /\ Plan(UpdatePolicy(o, d), mem, disk, mem, h, FALSE, x)
           /\ Plan(Commit(o), mem, disk, mem, h, FALSE, x)
           /\ Plan(Rollback(o), mem, disk, mem, h, FALSE, x)
           /\ Plan(RenewLease(o), mem, disk, mem, h, FALSE, x)
           /\ Plan(Suspend(o), mem, disk, mem, h, FALSE, x)
           /\ Plan(Resume(o), mem, disk, mem, h, FALSE, x)
           /\ Plan(DrainOld(o), mem, disk, mem, h, FALSE, x)
           /\ \A m \in Nat : Plan(UpdateMtu(o, m), mem, disk, mem, h, FALSE, x)
           /\ \A f \in SUBSET Prefixes :
                  Plan(SetFailedPrefixes(o, f), mem, disk, mem, h, FALSE, x)
  <1>1. OptRecord(mem) /\ now \in Nat
    BY DEF ServiceInv
  <1>2. x.what \in {"sysctls", "firewall"}
    BY DEF Objects
  <1>3. \A d \in Declarations : Plan(Prepare(o, d), mem, disk, mem, h, FALSE, x)
    BY <1>1, <1>2, PreparePlan
  <1>4. \A d \in Declarations : Plan(Reconfigure(o, d), mem, disk, mem, h, FALSE, x)
    BY <1>1, ReconfigurePlan
  <1>5. \A d \in Declarations : Plan(UpdatePolicy(o, d), mem, disk, mem, h, FALSE, x)
    BY <1>1, PolicyPlan
  <1>6. Plan(Commit(o), mem, disk, mem, h, FALSE, x)
    BY <1>1, CommitPlan
  <1>7. Plan(Rollback(o), mem, disk, mem, h, FALSE, x)
    BY <1>1, RollbackPlan
  <1>8. Plan(RenewLease(o), mem, disk, mem, h, FALSE, x)
    BY <1>1, RenewPlan
  <1>9. Plan(DrainOld(o), mem, disk, mem, h, FALSE, x)
    BY <1>1, DrainPlan
  <1>10. \A m \in Nat : Plan(UpdateMtu(o, m), mem, disk, mem, h, FALSE, x)
    BY <1>1, MtuPlan
  <1>11. \A f \in SUBSET Prefixes : Plan(SetFailedPrefixes(o, f), mem, disk, mem, h, FALSE, x)
    BY <1>1, WithdrawPlan
  <1>12. /\ Plan(Suspend(o), mem, disk, mem, h, FALSE, x)
         /\ Plan(Resume(o), mem, disk, mem, h, FALSE, x)
    <2>1. CASE mem = None
      <3>1. Suspend(o) = Reject /\ Resume(o) = Reject
        BY <2>1 DEF Suspend, Resume
      <3>2. Plan(Reject, mem, disk, mem, h, FALSE, x)
        BY EmptyPlan
      <3> QED BY <3>1, <3>2
    <2>2. CASE mem # None
      <3>1. SoundRecord(mem)
        BY <1>1, <2>2 DEF OptRecord
      <3> QED BY <3>1, SuspendPlan, ResumePlan
    <2> QED BY <2>1, <2>2
  <1> QED BY <1>3, <1>4, <1>5, <1>6, <1>7, <1>8, <1>9, <1>10, <1>11, <1>12

\* Recovery and shutdown included.
LEMMA BeginsPlan ==
    ASSUME ServiceInv, NEW s, Begins(s), NEW h, NEW x \in Objects,
           h => Accounts(mem, x) /\ Accounts(disk, x),
           x.what = "sysctls" /\ kern.sysctl => h
    PROVE  Plan(s, mem, disk, mem, h, FALSE, x)
  <1>1. CASE s = <<>>
    BY <1>1, EmptyPlan
  <1>2. CASE mem # None /\ s = RecoverScript(mem)
    <2>1. SoundRecord(mem)
      BY <1>2 DEF ServiceInv, OptRecord
    <2>2. Plan(RecoverScript(mem), mem, disk, mem, h, FALSE, x)
      BY <2>1, RecoverPlan
    <2> QED BY <1>2, <2>2
  <1>3. CASE s # <<>> /\ ~(mem # None /\ s = RecoverScript(mem))
    <2>1. PICK o \in LeaseOwners :
              \/ \E d \in Declarations : s \in {Prepare(o, d), Reconfigure(o, d),
                                                UpdatePolicy(o, d)}
              \/ s \in {Commit(o), Rollback(o), RenewLease(o), Suspend(o), Resume(o),
                        DrainOld(o)}
              \/ \E m \in Nat : s = UpdateMtu(o, m)
              \/ \E f \in SUBSET Prefixes : s = SetFailedPrefixes(o, f)
      BY <1>3 DEF Begins
    <2> QED BY <2>1, HandlersPlan
  <1> QED BY <1>1, <1>2, <1>3

\* What a record stands for survives the journal's encoding.
LEMMA DecodedAccounts ==
    ASSUME NEW r, SoundRecord(r), NEW x, Accounts(r, x)
    PROVE  Accounts(Decoded(r), x)
  <1>1. r \in Records /\ r # None
    BY DEF SoundRecord, Accounts
  <1>2. Decoded(r) \in Records
    BY DecodedSound DEF SoundRecord
  <1>3. /\ Decoded(r).decl = r.decl /\ Decoded(r).cand = r.cand
        /\ Decoded(r).steps = r.steps /\ Decoded(r).sysctls = r.sysctls
    BY <1>1 DEF Decoded, Records
  <1>4. Decoded(r) # None
    BY <1>2, NoneAssumption
  <1> QED BY <1>3, <1>4 DEF Accounts

\* The plans are kept by every step.
LEMMA NextPlan ==
    ASSUME ServiceInv, IsKernel(kern), ResidueInv, [Next]_vars
    PROVE  ResidueInv'
  <1>1. CASE Step
    BY <1>1, StepPlan
  <1>2. CASE ~Step
    <2>1. kern'.fw = kern.fw /\ kern'.sysctl = kern.sysctl
      BY <1>2, NextEffect DEF Untouched
    <2>2. ASSUME NEW x \in Objects
          PROVE  Plan(job'.todo, mem', disk', job'.prev, Present(kern', torn', x), job'.err, x)
      <3> DEFINE h == Present(kern, torn, x)
      <3>1. Plan(job.todo, mem, disk, job.prev, h, job.err, x)
        BY DEF ResidueInv
      <3>2. h => Accounts(mem, x) /\ Accounts(disk, x)
        BY <3>1 DEF Plan
      <3>3. UNCHANGED torn => Present(kern', torn', x) = h
        BY <2>1 DEF Present
      <3>4. x.what = "sysctls" /\ kern.sysctl => h
        BY DEF Present
      <3> HIDE DEF h
      <3>5. CASE UNCHANGED <<mem, disk, torn, job>>
        BY <3>1, <3>3, <3>5
      <3>6. CASE /\ UNCHANGED <<disk, torn>> /\ (UNCHANGED mem \/ Reloaded)
                 /\ job'.todo = <<>>
        <4>1. h => Accounts(mem', x) /\ Accounts(disk', x)
          <5>1. CASE UNCHANGED mem
            BY <3>2, <3>6, <5>1
          <5>2. CASE Reloaded /\ h
            <6>1. Accounts(disk, x) /\ disk # None
              BY <3>2, <5>2 DEF Accounts
            <6>2. SoundRecord(disk) /\ mem' = Decoded(disk)
              BY <5>2, <6>1 DEF ServiceInv, OptRecord, Reloaded
            <6> QED BY <3>6, <6>1, <6>2, DecodedAccounts
          <5> QED BY <3>6, <5>1, <5>2
        <4>2. Plan(<<>>, mem', disk', job'.prev, h, job'.err, x)
          BY <4>1, EmptyPlan
        <4> QED BY <3>3, <3>6, <4>2
      <3>7. CASE /\ UNCHANGED <<mem, disk, torn>> /\ Begins(job'.todo)
                 /\ job'.prev = mem /\ job'.err = FALSE
        <4>1. Plan(job'.todo, mem, disk, mem, h, FALSE, x)
          BY <3>2, <3>4, <3>7, BeginsPlan
        <4> QED BY <3>3, <3>7, <4>1
      <3> QED BY <1>2, <3>5, <3>6, <3>7, NextBegins
    <2> QED BY <2>2 DEF ResidueInv
  <1> QED BY <1>1, <1>2

\* Inside and between requests, after a failure, a crash or a restart, the
\* durable record covers every firewall and every changed sysctl: it is written
\* before the object is created (prepare, reconfigure, update_policy) and gives
\* the object up after its removal (cleanup_record, drain_old), so recovery
\* finds what there is to undo. Excepted are the candidates whose removal
\* failed and was ignored (commit_with_drain, prepare_replacement).
THEOREM ResidueSafety == Spec => []ResidueIsJournaled
  <1>1. Init => ServiceInv /\ AgreeInv /\ LiveInv /\ ResidueInv
    <2> SUFFICES ASSUME Init PROVE ServiceInv /\ AgreeInv /\ LiveInv /\ ResidueInv
      OBVIOUS
    <2>1. ServiceInv
      BY IdleAgrees DEF Init, ServiceInv, OptRecord
    <2>2. AgreeInv
      BY IdleAgrees DEF Init, AgreeInv
    <2>3. IsKernel(kern)
      BY DEF Init, CleanKernel, IsKernel
    <2>4. Sparing(job.todo, mem)
      BY IdleAgrees, RejectSparing DEF Init
    <2>5. \A x \in Objects : ~Present(kern, torn, x)
      BY DEF Init, CleanKernel, Present, Objects
    <2>6. job.todo = <<>>
      BY IdleAgrees DEF Init
    <2>7. ResidueInv
      BY <2>5, <2>6, EmptyPlan DEF ResidueInv
    <2> QED BY <2>1, <2>2, <2>3, <2>4, <2>7 DEF LiveInv
  <1>2. ServiceInv /\ AgreeInv /\ LiveInv /\ ResidueInv /\ [Next]_vars
            => (ServiceInv /\ AgreeInv /\ LiveInv /\ ResidueInv)'
    BY NextAgrees, NextSparing, NextPlan DEF LiveInv
  <1>3. ResidueInv => ResidueIsJournaled
    <2> SUFFICES ASSUME ResidueInv PROVE ResidueIsJournaled
      OBVIOUS
    <2>1. \A x \in Objects : Present(kern, torn, x) => Accounts(mem, x) /\ Accounts(disk, x)
      BY DEF ResidueInv, Plan
    <2>2. ASSUME NEW t \in Tables \ torn, kern.fw[t] # None
          PROVE  /\ disk # None
                 /\ \/ disk.decl.table = t /\ "fw" \in disk.steps
                    \/ disk.cand # None /\ disk.cand.table = t
      <3> DEFINE x == [what |-> "firewall", table |-> t]
      <3>1. x \in Objects /\ x.what = "firewall" /\ x.table = t
        BY DEF Objects
      <3> HIDE DEF x
      <3>2. Accounts(disk, x)
        BY <2>1, <2>2, <3>1 DEF Present
      <3> QED BY <3>1, <3>2 DEF Accounts
    <2>3. ASSUME kern.sysctl
          PROVE  disk # None /\ "sysctls" \in disk.steps
      <3> DEFINE x == [what |-> "sysctls", table |-> None]
      <3>1. x \in Objects /\ x.what = "sysctls"
        BY DEF Objects
      <3> HIDE DEF x
      <3>2. Accounts(disk, x)
        BY <2>1, <2>3, <3>1 DEF Present
      <3> QED BY <3>1, <3>2 DEF Accounts
    <2> QED BY <2>2, <2>3 DEF ResidueIsJournaled
  <1> QED BY <1>1, <1>2, <1>3, PTL DEF Spec

=============================================================================
