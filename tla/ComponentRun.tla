----------------------------- MODULE ComponentRun -----------------------------
(***************************************************************************)
(* One frozen component against the disk: conversion/execute, from         *)
(* PrepareComponent over EncodeOne to Commit or Discard.  Every operation  *)
(* of the file system is a step of its own and may fail.  A process that   *)
(* dies leaves the disk as its last step left it and no run is resumed, so *)
(* what holds of the disk in every state holds after a crash.              *)
(*                                                                         *)
(* The member's files are the paths of the plan.  Beside them a run makes  *)
(* staged outputs (tempOutputPath), copies of replaced files kept aside    *)
(* (replacedAsidePath) and recovery files under Delete/, named by the      *)
(* removed path and a number: two paths may share a recovery name.  What a *)
(* file holds is told apart by where it came from: the audio found at a    *)
(* path, or the output of an encode.                                       *)
(***************************************************************************)
EXTENDS Naturals, Sequences, FiniteSets

CONSTANTS Path,             \* files of the member a plan may name
          Plans,            \* frozen components, with what the disk holds of them
          MaxEncodes,       \* bound: encodes of one component
          MaxAttempts,      \* maxRecoveryNameAttempts
          Name,             \* files under Delete/
          recoveryName,     \* of a path and an attempt
          NoName            \* none of them

Index == 1 .. MaxEncodes
Attempt == 0 .. MaxAttempts

\* What checkFrozenFile and checkFreeTarget find at a path: the frozen file,
\* a frozen file that changed or went missing, a file the component does not
\* list, or nothing.
Findings == {"frozen", "changed", "missing", "unlisted", "free"}

PlanType == [encodes : Seq([source : Path, target : Path]),
             removes : Seq(Path),
             depends : SUBSET Path,     \* what the removals depend on
             declared : SUBSET Path,    \* targets with a materialize decision
             found : [Path -> Findings],
             taken : SUBSET Name,       \* recovered by earlier runs
             soft : BOOLEAN]

ASSUME ComponentAssumption ==
    /\ MaxEncodes \in Nat /\ MaxAttempts \in Nat
    /\ recoveryName \in [Path \X Attempt -> Name]
    /\ NoName \notin Name
    /\ \A p \in Plans : p \in PlanType /\ Len(p.encodes) <= MaxEncodes

VARIABLES
    plan,       \* the request
    pc,         \* the step of the run
    phase,      \* of each encode
    canceled,   \* the context is done
    kept,       \* the recovery name of the target being replaced
    swept,      \* staged outputs cleanupTemps has looked at
    \* ComponentRunResult
    status,     \* "none" until it is known
    committed,  \* how many outputs landed
    removed,    \* how many obsolete files are gone
    recovery,   \* the files it names for the operator
    \* the disk
    file,       \* at each path of the member
    temp,       \* each staged output
    aside,      \* each copy kept of a replaced output
    bin         \* the recovery files

result == <<status, committed, removed, recovery>>
disk == <<file, temp, aside, bin>>
vars == <<plan, pc, phase, canceled, kept, swept, result, disk>>

-----------------------------------------------------------------------------
Nothing == <<"nothing">>
Partial == <<"partial">>
Audio(p) == <<"audio", p>>      \* found at p before the run
Output(i) == <<"output", i>>
Earlier == <<"earlier">>        \* recovered by an earlier run
Content == {Nothing, Partial, Earlier} \cup {Audio(p) : p \in Path}
             \cup {Output(i) : i \in Index}

Before(p) ==
    IF plan.found[p] \in {"frozen", "changed", "unlisted"} THEN Audio(p) ELSE Nothing

\* How the report names a file that is none of the member's.
TempOf(i) == <<"temp", i>>
AsideOf(i) == <<"aside", i>>
BinOf(n) == <<"bin", n>>

Encodes == DOMAIN plan.encodes
Removes == DOMAIN plan.removes
Target(i) == plan.encodes[i].target
Targets == {Target(i) : i \in Encodes}
Listed(p) == plan.found[p] \in {"frozen", "changed", "missing"}
Replaces(i) == Listed(Target(i))

Goto(label) == pc' = label

Init ==
    /\ plan \in Plans
    /\ pc = "prepare"
    /\ phase = [i \in Index |-> "idle"]
    /\ canceled = FALSE
    /\ kept = NoName
    /\ swept = 0
    /\ status = "none"
    /\ committed = 0
    /\ removed = 0
    /\ recovery = {}
    /\ file = [p \in Path |-> Before(p)]
    /\ temp = [i \in Index |-> Nothing]
    /\ aside = [i \in Index |-> Nothing]
    /\ bin = [n \in Name |-> IF n \in plan.taken THEN Earlier ELSE Nothing]

-----------------------------------------------------------------------------
(* The precheck.                                                           *)

ConflictFree ==
    /\ \A i, j \in Encodes : i # j => Target(i) # Target(j)
    /\ \A i \in Encodes : plan.encodes[i].source \notin Targets
    /\ \A k \in Removes : plan.removes[k] \notin Targets
    /\ \A k, l \in Removes : k # l => plan.removes[k] # plan.removes[l]

\* Mutant: a fresh target is not asked to be free.
TargetFitsUnchecked(i) ==
    Replaces(i) => Target(i) \in plan.declared /\ plan.found[Target(i)] = "frozen"

TargetFits(i) ==
    IF Replaces(i)
    THEN Target(i) \in plan.declared /\ plan.found[Target(i)] = "frozen"
    ELSE plan.found[Target(i)] = "free"

DiskAgrees ==
    /\ \A i \in Encodes : plan.found[plan.encodes[i].source] = "frozen" /\ TargetFits(i)
    /\ \A k \in Removes : plan.found[plan.removes[k]] = "frozen"

Accepted == ConflictFree /\ plan.depends \subseteq Targets /\ DiskAgrees

\* prepareComponent; the encoder's tools may be missing.
Prepare ==
    /\ pc = "prepare"
    /\ \/ Accepted /\ ~canceled /\ Goto("encode") /\ UNCHANGED status
       \/ canceled /\ Goto("ended") /\ status' = "canceled"
       \/ /\ ~canceled /\ (~Accepted \/ Encodes # {})
          /\ Goto("ended") /\ status' = "failed"
    /\ UNCHANGED <<plan, phase, canceled, kept, swept, committed, removed, recovery, disk>>

-----------------------------------------------------------------------------
(* EncodeOne, in any order and concurrently.                               *)

StartEncode(i) ==
    /\ pc = "encode" /\ i \in Encodes /\ phase[i] = "idle"
    /\ IF canceled
       THEN phase' = [phase EXCEPT ![i] = "refused"] /\ UNCHANGED temp
       ELSE /\ phase' = [phase EXCEPT ![i] = "encoding"]
            /\ temp' = [temp EXCEPT ![i] = Partial]
    /\ UNCHANGED <<plan, pc, canceled, kept, swept, result, file, aside, bin>>

EndEncode(i) ==
    /\ pc = "encode" /\ phase[i] = "encoding"
    /\ \/ /\ phase' = [phase EXCEPT ![i] = "encoded"]
          /\ temp' = [temp EXCEPT ![i] = Output(i)]
       \/ /\ phase' = [phase EXCEPT ![i] = "failed"]
          /\ temp' \in {temp, [temp EXCEPT ![i] = Nothing]}
    /\ UNCHANGED <<plan, pc, canceled, kept, swept, result, file, aside, bin>>

\* Discard: once every started encode returned, whatever the cause - a failed
\* encode, a cancellation, a failed sibling.
Discard ==
    /\ pc = "encode"
    /\ \A i \in Encodes : phase[i] # "encoding"
    /\ Goto("clean")
    /\ status' \in {"failed", "canceled"}
    /\ UNCHANGED <<plan, phase, canceled, kept, swept, committed, removed, recovery, disk>>

-----------------------------------------------------------------------------
(* Commit.                                                                 *)

\* stopRun.
StopAs(s) == status' = s /\ Goto("clean")

\* Every staged output is probed again before any of them lands.
Validate ==
    /\ pc = "encode"
    /\ \A i \in Encodes : phase[i] = "encoded"
    /\ \/ (canceled => Encodes = {}) /\ Goto("commit") /\ UNCHANGED status
       \/ canceled /\ Encodes # {} /\ StopAs("canceled")
       \/ Encodes # {} /\ StopAs("failed")
    /\ UNCHANGED <<plan, phase, canceled, kept, swept, committed, removed, recovery, disk>>

Current == committed + 1

\* A stop is honoured between operations only.
StopBetween ==
    /\ canceled
    /\ \/ pc = "commit" /\ committed < Len(plan.encodes)
       \/ pc = "remove" /\ removed < Len(plan.removes)
    /\ StopAs("canceled")
    /\ UNCHANGED <<plan, phase, canceled, kept, swept, committed, removed, recovery, disk>>

\* rename(temp, target): what was at the target is gone.
Land(i) ==
    /\ file' = [file EXCEPT ![Target(i)] = temp[i]]
    /\ temp' = [temp EXCEPT ![i] = Nothing]

CommitFresh ==
    /\ pc = "commit" /\ ~canceled
    /\ Current \in Encodes /\ ~Replaces(Current)
    /\ \/ Land(Current) /\ committed' = Current /\ UNCHANGED <<pc, status>>
       \/ StopAs("failed") /\ UNCHANGED <<file, temp, committed>>
    /\ UNCHANGED <<plan, phase, canceled, kept, swept, removed, recovery, aside, bin>>

\* Mutant: a taken recovery name is not passed over.
FirstRecovery(p, n) == n = recoveryName[p, 0]

\* uniqueRecoveryPath: the first free name of its path.
UniqueRecovery(p, n) ==
    \E k \in Attempt :
        /\ n = recoveryName[p, k]
        /\ bin[n] = Nothing
        /\ \A j \in 0 .. k - 1 : bin[recoveryName[p, j]] # Nothing

\* softRemove.
MoveToBin(p, n) ==
    /\ UniqueRecovery(p, n)
    /\ bin' = [bin EXCEPT ![n] = file[p]]
    /\ file' = [file EXCEPT ![p] = Nothing]

\* A replacement protects the old file before the new one lands.
ProtectSoft ==
    /\ plan.soft
    /\ \/ /\ \E n \in Name : MoveToBin(Target(Current), n) /\ kept' = n
          /\ Goto("land") /\ UNCHANGED status
       \/ StopAs("failed") /\ UNCHANGED <<file, bin, kept>>
    /\ UNCHANGED aside

ProtectHard ==
    /\ ~plan.soft
    /\ \/ /\ aside' = [aside EXCEPT ![Current] = file[Target(Current)]]
          /\ file' = [file EXCEPT ![Target(Current)] = Nothing]
          /\ Goto("land") /\ UNCHANGED status
       \/ StopAs("failed") /\ UNCHANGED <<file, aside>>
    /\ UNCHANGED <<bin, kept>>

Protect ==
    /\ pc = "commit" /\ ~canceled
    /\ Current \in Encodes /\ Replaces(Current)
    /\ ProtectSoft \/ ProtectHard
    /\ UNCHANGED <<plan, phase, canceled, swept, committed, removed, recovery, temp>>

\* Mutant: hard mode counts the output when it lands and when its copy is dropped.
LandCounted ==
    /\ pc = "land"
    /\ Land(Current) /\ committed' = Current
    /\ Goto(IF plan.soft THEN "commit" ELSE "drop")
    /\ UNCHANGED <<plan, phase, canceled, kept, swept, status, removed, recovery, aside, bin>>

\* The second rename: the staged output takes its target, set aside before.
LandReplacement ==
    /\ pc = "land"
    /\ \/ /\ Land(Current)
          /\ IF plan.soft
             THEN /\ recovery' = recovery \cup {BinOf(kept)}
                  /\ committed' = Current
                  /\ Goto("commit")
             ELSE Goto("drop") /\ UNCHANGED <<recovery, committed>>
       \/ Goto("restore") /\ UNCHANGED <<file, temp, recovery, committed>>
    /\ UNCHANGED <<plan, phase, canceled, kept, swept, status, removed, aside, bin>>

\* The replaced file goes back; when that fails the report names where it is.
Restore ==
    /\ pc = "restore"
    /\ StopAs("failed")
    /\ \/ /\ plan.soft
          /\ \/ /\ file' = [file EXCEPT ![Target(Current)] = bin[kept]]
                /\ bin' = [bin EXCEPT ![kept] = Nothing]
                /\ UNCHANGED recovery
             \/ recovery' = recovery \cup {BinOf(kept)} /\ UNCHANGED <<file, bin>>
          /\ UNCHANGED aside
       \/ /\ ~plan.soft
          /\ \/ /\ file' = [file EXCEPT ![Target(Current)] = aside[Current]]
                /\ aside' = [aside EXCEPT ![Current] = Nothing]
                /\ UNCHANGED recovery
             \/ recovery' = recovery \cup {AsideOf(Current)} /\ UNCHANGED <<file, aside>>
          /\ UNCHANGED bin
    /\ UNCHANGED <<plan, phase, canceled, kept, swept, committed, removed, temp>>

\* Mutant: a copy that cannot be dropped undoes the count of its output.
DropUncounted ==
    /\ pc = "drop"
    /\ \/ /\ aside' = [aside EXCEPT ![Current] = Nothing] /\ Goto("commit")
          /\ committed' = Current /\ UNCHANGED <<recovery, status>>
       \/ /\ recovery' = recovery \cup {AsideOf(Current)} /\ StopAs("failed")
          /\ UNCHANGED <<aside, committed>>
    /\ UNCHANGED <<plan, phase, canceled, kept, swept, removed, file, temp, bin>>

\* Hard mode drops the copy kept aside; the output landed even if that fails.
DropAside ==
    /\ pc = "drop"
    /\ committed' = Current
    /\ \/ aside' = [aside EXCEPT ![Current] = Nothing] /\ Goto("commit")
          /\ UNCHANGED <<recovery, status>>
       \/ recovery' = recovery \cup {AsideOf(Current)} /\ StopAs("failed")
          /\ UNCHANGED aside
    /\ UNCHANGED <<plan, phase, canceled, kept, swept, removed, file, temp, bin>>

AllCommitted ==
    /\ pc = "commit" /\ committed = Len(plan.encodes)
    /\ Goto("remove")
    /\ UNCHANGED <<plan, phase, canceled, kept, swept, result, disk>>

Obsolete == plan.removes[removed + 1]

RemoveObsolete ==
    /\ pc = "remove" /\ ~canceled /\ removed < Len(plan.removes)
    /\ \/ /\ plan.soft
          /\ \E n \in Name : MoveToBin(Obsolete, n) /\ recovery' = recovery \cup {BinOf(n)}
          /\ removed' = removed + 1
          /\ UNCHANGED <<pc, status>>
       \/ /\ ~plan.soft
          /\ file' = [file EXCEPT ![Obsolete] = Nothing]
          /\ removed' = removed + 1
          /\ UNCHANGED <<pc, status, recovery, bin>>
       \/ StopAs("failed") /\ UNCHANGED <<removed, recovery, file, bin>>
    /\ UNCHANGED <<plan, phase, canceled, kept, swept, committed, temp, aside>>

Succeed ==
    /\ pc = "remove" /\ removed = Len(plan.removes)
    /\ status' = "succeeded" /\ Goto("ended")
    /\ UNCHANGED <<plan, phase, canceled, kept, swept, committed, removed, recovery, disk>>

-----------------------------------------------------------------------------

\* cleanupTemps: the staged outputs one by one, those that were begun; one that
\* cannot be removed is reported.
CleanTemp ==
    /\ pc = "clean" /\ swept < Len(plan.encodes)
    /\ swept' = swept + 1
    /\ \/ temp' = [temp EXCEPT ![swept + 1] = Nothing] /\ UNCHANGED recovery
       \/ /\ temp[swept + 1] # Nothing
          /\ recovery' = recovery \cup {TempOf(swept + 1)} /\ UNCHANGED temp
    /\ UNCHANGED <<plan, pc, phase, canceled, kept, status, committed, removed, file, aside, bin>>

Cleaned ==
    /\ pc = "clean" /\ swept = Len(plan.encodes)
    /\ Goto("ended")
    /\ UNCHANGED <<plan, phase, canceled, kept, swept, result, disk>>

\* The session's context is done: a cancellation, or a sibling that failed.
Cancel ==
    /\ pc # "ended" /\ ~canceled
    /\ canceled' = TRUE
    /\ UNCHANGED <<plan, pc, phase, kept, swept, result, disk>>

Next ==
    \/ Prepare \/ Discard \/ Validate
    \/ \E i \in Index : StartEncode(i) \/ EndEncode(i)
    \/ CommitFresh \/ Protect \/ LandReplacement \/ Restore \/ DropAside \/ AllCommitted
    \/ RemoveObsolete \/ Succeed \/ StopBetween
    \/ CleanTemp \/ Cleaned
    \/ Cancel

Spec == Init /\ [][Next]_vars
-----------------------------------------------------------------------------
(* Properties.                                                             *)

StatusValues == {"none", "succeeded", "failed", "canceled"}
PcValues == {"prepare", "encode", "commit", "land", "restore", "drop", "remove",
             "clean", "ended"}
Location == {TempOf(i) : i \in Index} \cup {AsideOf(i) : i \in Index}
              \cup {BinOf(n) : n \in Name}

\* Every variable keeps its shape.
TypeOK ==
    /\ plan \in PlanType
    /\ pc \in PcValues
    /\ phase \in [Index -> {"idle", "encoding", "encoded", "failed", "refused"}]
    /\ canceled \in BOOLEAN
    /\ kept \in Name \cup {NoName}
    /\ swept \in 0 .. MaxEncodes
    /\ status \in StatusValues
    /\ committed \in 0 .. Len(plan.encodes)
    /\ removed \in 0 .. Len(plan.removes)
    /\ recovery \in SUBSET Location
    /\ file \in [Path -> Content]
    /\ temp \in [Index -> Content]
    /\ aside \in [Index -> Content]
    /\ bin \in [Name -> Content]

Landed(i) == file[Target(i)] = Output(i)
AllLanded == \A i \in Encodes : Landed(i)
RemovedPaths == {plan.removes[k] : k \in Removes}

\* Where the audio found at p is.
Kept(p) ==
    \/ file[p] = Audio(p)
    \/ \E i \in Encodes : aside[i] = Audio(p)
    \/ \E n \in Name : bin[n] = Audio(p)

\* In every state, so after a crash too, whatever operation of the file system
\* failed: audio that was on disk is still on disk.  Soft mode never
\* gives any up; hard mode gives up a replaced file once its own output landed
\* and a removed one once every output did (RunComponent: "old audio is never
\* cleaned while a replacement is still uncommitted").
AudioSurvives ==
    \A p \in Path : Before(p) = Audio(p) =>
        \/ Kept(p)
        \/ ~plan.soft /\ \E i \in Encodes : Target(i) = p /\ Landed(i)
        \/ ~plan.soft /\ p \in RemovedPaths /\ AllLanded

\* What earlier runs recovered is never overwritten, whatever names are taken
\* (softRemove: "an existing recovery file is never overwritten").
RecoveryKept ==
    [][\A n \in Name : bin[n] # Nothing =>
          \/ bin'[n] = bin[n]
          \/ bin'[n] = Nothing /\ \E p \in Path : bin[n] = Audio(p) /\ file'[p] = Audio(p)]_vars

\* The report of a run that ended agrees with the disk: what it counts as done is
\* done, and what it lists as remaining is as it was found, except a target whose
\* old file could not be put back (remainingOps, ComponentRunResult).
Stranded(i) ==
    /\ file[Target(i)] = Nothing
    /\ \/ AsideOf(i) \in recovery /\ aside[i] = Audio(Target(i))
       \/ \E n \in Name : BinOf(n) \in recovery /\ bin[n] = Audio(Target(i))

ReportAgrees ==
    pc = "ended" =>
        /\ \A i \in Encodes :
             IF i <= committed THEN Landed(i)
             ELSE file[Target(i)] = Before(Target(i)) \/ Stranded(i)
        /\ \A k \in Removes :
             file[plan.removes[k]] = IF k <= removed THEN Nothing ELSE Before(plan.removes[k])

\* Nothing a run left beside the member's files goes unnamed, and nothing is named
\* that is not there (cleanupTemps: "reported instead of silently dropped").
LeftoversNamed ==
    pc = "ended" =>
        /\ {i \in Index : temp[i] # Nothing} = {i \in Index : TempOf(i) \in recovery}
        /\ {i \in Index : aside[i] # Nothing} = {i \in Index : AsideOf(i) \in recovery}
        /\ {n \in Name : \E p \in Path : bin[n] = Audio(p)} = {n \in Name : BinOf(n) \in recovery}

\* A cancellation never stops a replacement halfway: no target of a canceled run
\* is empty that held audio before (Commit: "honoured between operations, never
\* mid-operation").
CancelLeavesTargetsWhole ==
    pc = "ended" /\ status = "canceled" =>
        \A i \in Encodes : Before(Target(i)) # Nothing => file[Target(i)] # Nothing

\* A run succeeds exactly when every output landed, every obsolete file is gone
\* and no staged or set-aside file is left: what a session reads off the status.
\* A component without operations has nothing to do even when it is refused.
SucceedsWhenDone ==
    LET Done == /\ committed = Len(plan.encodes) /\ removed = Len(plan.removes)
                /\ \A i \in Index : temp[i] = Nothing /\ aside[i] = Nothing
    IN pc = "ended" =>
         /\ status = "succeeded" => Done
         /\ Done => status = "succeeded" \/ Encodes \cup Removes = {}

\* The report of a run that ended is what happened: its counts, its status and
\* the leftovers it names agree with the disk, however the run was stopped
\* (ComponentRunResult, cleanupTemps).
RunIsReported ==
    /\ ReportAgrees
    /\ LeftoversNamed
    /\ CancelLeavesTargetsWhole
    /\ SucceedsWhenDone
=============================================================================
