------------------------- MODULE ComponentRun_proofs --------------------------
(***************************************************************************)
(* Proofs about ComponentRun for every component, every recovery-name      *)
(* scheme and every disk.  The invariant follows each content through the  *)
(* statements of Commit: which place holds it while it moves, and which    *)
(* entry of the report names it once it rests.                             *)
(***************************************************************************)
EXTENDS ComponentRun, TLAPS

-----------------------------------------------------------------------------
(* The invariant.                                                          *)

\* Where commitOutput is.
LandingPcs == {"land", "restore"}
EndPcs == {"clean", "ended"}

\* A plan is checked before anything else happens; one that was refused left
\* everything as it found it.
Untouched ==
    /\ \A p \in Path : file[p] = Before(p)
    /\ \A i \in Index : temp[i] = Nothing /\ aside[i] = Nothing
    /\ \A n \in Name : bin[n] = IF n \in plan.taken THEN Earlier ELSE Nothing
    /\ recovery = {} /\ committed = 0 /\ removed = 0 /\ swept = 0

Checked ==
    /\ plan \in Plans
    /\ Accepted \/ (pc \in {"prepare", "ended"} /\ Untouched)
    /\ pc = "prepare" => Untouched

\* Removals follow the last output, cleaning follows the last of either.
Stages ==
    /\ pc \in {"prepare", "encode"} => committed = 0
    /\ removed > 0 => committed = Len(plan.encodes) /\ pc \in {"remove"} \cup EndPcs
    /\ pc = "remove" => committed = Len(plan.encodes)
    /\ pc \in {"land", "restore", "drop"} => Current \in Encodes /\ Replaces(Current)
    /\ swept <= Len(plan.encodes)
    /\ swept > 0 => pc \in EndPcs

\* The targets: landed, being replaced, stranded by a failure, or as found.
TargetsFollow ==
    \A i \in Encodes :
        \/ i <= committed /\ Landed(i)
        \/ i > committed /\ file[Target(i)] = Before(Target(i)) /\ (pc \in {"land", "restore", "drop"} => i # Current)
        \/ i = Current /\ pc \in LandingPcs /\ file[Target(i)] = Nothing
        \/ i = Current /\ pc = "drop" /\ Landed(i)
        \/ i = Current /\ pc \in EndPcs /\ status = "failed" /\ Stranded(i)

OthersFollow ==
    /\ \A k \in Removes :
         file[plan.removes[k]] = IF k <= removed THEN Nothing ELSE Before(plan.removes[k])
    /\ \A p \in Path : p \notin Targets \cup RemovedPaths => file[p] = Before(p)

\* Staged outputs: encoded, landed or swept.
StagedFollow ==
    /\ \A i \in Index : phase[i] # "idle" \/ temp[i] # Nothing => i \in Encodes
    /\ pc \in {"prepare", "encode"} =>
         \A i \in Encodes : phase[i] = "encoded" => temp[i] = Output(i)
    /\ pc \in {"commit", "remove", "drop"} \cup LandingPcs => \A i \in Encodes :
         temp[i] = IF i <= committed \/ (i = Current /\ pc = "drop") THEN Nothing ELSE Output(i)
    /\ \A i \in Index : TempOf(i) \in recovery <=> i <= swept /\ temp[i] # Nothing
    /\ pc = "ended" => swept = Len(plan.encodes) \/ \A i \in Index : temp[i] = Nothing

\* Copies set aside: of the output being replaced, or named by the report.
AsideFollows ==
    \A i \in Index :
        /\ aside[i] # Nothing =>
             /\ ~plan.soft /\ i \in Encodes /\ aside[i] = Audio(Target(i))
             /\ \/ AsideOf(i) \in recovery
                \/ i = Current /\ pc \in {"land", "restore", "drop"}
        /\ AsideOf(i) \in recovery => aside[i] # Nothing /\ pc \in EndPcs
        /\ i = Current /\ pc \in {"land", "restore", "drop"} /\ ~plan.soft => aside[i] # Nothing

\* Recovery files: each named, but for the one a replacement may take back.
BinFollows ==
    /\ \A n \in Name : BinOf(n) \in recovery => \E p \in Path : bin[n] = Audio(p)
    /\ \A n \in Name : \A p \in Path : bin[n] = Audio(p) =>
         BinOf(n) \in recovery \/ (plan.soft /\ pc \in LandingPcs /\ n = kept)
    /\ pc \in LandingPcs /\ plan.soft =>
         kept \in Name /\ bin[kept] = Audio(Target(Current)) /\ BinOf(kept) \notin recovery
    /\ pc = "drop" => ~plan.soft

\* What soft mode replaced or removed is in the bin.
SoftKeeps ==
    plan.soft =>
        /\ \A i \in Encodes : i <= committed /\ Replaces(i) =>
             \E n \in Name : bin[n] = Audio(Target(i)) /\ BinOf(n) \in recovery
        /\ \A k \in Removes : k <= removed =>
             \E n \in Name : bin[n] = Audio(plan.removes[k]) /\ BinOf(n) \in recovery

\* What the status says, as soon as it says something.
Verdict ==
    /\ pc \in EndPcs <=> status # "none"
    /\ status = "succeeded" =>
         /\ pc = "ended" /\ committed = Len(plan.encodes) /\ removed = Len(plan.removes)
         /\ \A i \in Index : temp[i] = Nothing /\ aside[i] = Nothing
    /\ status \in {"failed", "canceled"} =>
         \/ committed < Len(plan.encodes) \/ removed < Len(plan.removes)
         \/ \E i \in Index : aside[i] # Nothing
         \/ Encodes \cup Removes = {}

ComponentInv ==
    /\ TypeOK /\ Checked /\ Stages /\ TargetsFollow /\ OthersFollow /\ StagedFollow
    /\ AsideFollows /\ BinFollows /\ SoftKeeps /\ Verdict

-----------------------------------------------------------------------------
(* Contents and names are told apart by their tags.                        *)

LEMMA Tags ==
    /\ Nothing # Partial /\ Nothing # Earlier
    /\ \A p : Audio(p) # Nothing /\ Audio(p) # Partial /\ Audio(p) # Earlier
    /\ \A i : Output(i) # Nothing
    /\ \A p, q : Audio(p) = Audio(q) => p = q
    /\ \A p, i : Audio(p) # Output(i)
BY DEF Nothing, Partial, Earlier, Audio, Output

LEMMA Names ==
    /\ \A i, j : TempOf(i) = TempOf(j) => i = j
    /\ \A i, j : AsideOf(i) = AsideOf(j) => i = j
    /\ \A i, j : BinOf(i) = BinOf(j) => i = j
    /\ \A i, j : TempOf(i) # AsideOf(j) /\ TempOf(i) # BinOf(j) /\ AsideOf(i) # BinOf(j)
BY DEF TempOf, AsideOf, BinOf

LEMMA Contents ==
    /\ Nothing \in Content /\ Partial \in Content /\ Earlier \in Content
    /\ \A p \in Path : Audio(p) \in Content /\ Before(p) \in Content
    /\ \A i \in Index : Output(i) \in Content
    /\ \A p \in Path : Before(p) = Nothing \/ Before(p) = Audio(p)
BY DEF Content, Before

\* The parts of a plan.
LEMMA Shapes ==
    ASSUME TypeOK, plan \in Plans
    PROVE  /\ MaxEncodes \in Nat /\ MaxAttempts \in Nat
           /\ Len(plan.encodes) \in Nat /\ Len(plan.encodes) <= MaxEncodes
           /\ Len(plan.removes) \in Nat
           /\ Encodes = 1 .. Len(plan.encodes) /\ Encodes \subseteq Index
           /\ Removes = 1 .. Len(plan.removes)
           /\ \A i \in Encodes : plan.encodes[i].source \in Path /\ Target(i) \in Path
           /\ \A k \in Removes : plan.removes[k] \in Path
           /\ plan.soft \in BOOLEAN
           /\ committed \in Nat /\ removed \in Nat /\ swept \in Nat
<1>1. /\ MaxEncodes \in Nat /\ MaxAttempts \in Nat
      /\ plan \in PlanType /\ Len(plan.encodes) <= MaxEncodes
  BY ComponentAssumption
<1>2. /\ plan.encodes \in Seq([source : Path, target : Path])
      /\ plan.removes \in Seq(Path) /\ plan.soft \in BOOLEAN
  BY <1>1 DEF PlanType
<1>3. /\ Len(plan.encodes) \in Nat /\ Encodes = 1 .. Len(plan.encodes)
      /\ Len(plan.removes) \in Nat /\ Removes = 1 .. Len(plan.removes)
  BY <1>2 DEF Encodes, Removes
<1>4. Encodes \subseteq Index
  BY <1>1, <1>3 DEF Index
<1>5. \A i \in Encodes : plan.encodes[i] \in [source : Path, target : Path]
  <2> DEFINE Pair == [source : Path, target : Path]
  <2>1. plan.encodes \in Seq(Pair)
    BY <1>2
  <2> HIDE DEF Pair
  <2>2. \A i \in Encodes : plan.encodes[i] \in Pair
    BY <2>1 DEF Encodes
  <2>3. QED
    BY <2>2 DEF Pair
<1>6. \A i \in Encodes : plan.encodes[i].source \in Path /\ Target(i) \in Path
  BY <1>5 DEF Target
<1>7. \A k \in Removes : plan.removes[k] \in Path
  BY <1>2 DEF Removes
<1>8. committed \in Nat /\ removed \in Nat /\ swept \in Nat
  BY <1>1, <1>3 DEF TypeOK
<1>9. QED
  BY <1>1, <1>2, <1>3, <1>4, <1>6, <1>7, <1>8

\* No step changes the plan, and all that is read off it stays.
LEMMA PlanStays == Next => plan' = plan
BY DEF Next, Prepare, Discard, Validate, StartEncode, EndEncode, CommitFresh, Protect,
       LandReplacement, Restore, DropAside, AllCommitted, RemoveObsolete, Succeed,
       StopBetween, CleanTemp, Cleaned, Cancel

LEMMA ReadOffPlan ==
    ASSUME plan' = plan
    PROVE  /\ Encodes' = Encodes /\ Removes' = Removes /\ Targets' = Targets
           /\ RemovedPaths' = RemovedPaths /\ Accepted' = Accepted
           /\ \A i : Target(i)' = Target(i) /\ Replaces(i)' = Replaces(i)
           /\ \A p : Before(p)' = Before(p)
BY DEF Encodes, Removes, Targets, RemovedPaths, Accepted, Target, Replaces, Listed, Before,
       ConflictFree, DiskAgrees, TargetFits

\* What the precheck made sure of.
LEMMA AcceptedPlan ==
    ASSUME Accepted
    PROVE  /\ \A i, j \in Encodes : Target(i) = Target(j) => i = j
           /\ \A i \in Encodes : Target(i) \in Targets
           /\ \A k \in Removes : plan.removes[k] \in RemovedPaths
           /\ \A k \in Removes, i \in Encodes : plan.removes[k] # Target(i)
           /\ \A k, l \in Removes : plan.removes[k] = plan.removes[l] => k = l
           /\ \A k \in Removes : Before(plan.removes[k]) = Audio(plan.removes[k])
           /\ \A i \in Encodes : Before(Target(i)) =
                IF Replaces(i) THEN Audio(Target(i)) ELSE Nothing
BY DEF Accepted, ConflictFree, DiskAgrees, TargetFits, Before, Targets, RemovedPaths,
       Replaces, Listed

-----------------------------------------------------------------------------
(* Types.                                                                  *)

LEMMA FindsName ==
    ASSUME NEW p, NEW n, UniqueRecovery(p, n)
    PROVE  bin[n] = Nothing
BY DEF UniqueRecovery

LEMMA TypesStay ==
    ASSUME ComponentInv, Next
    PROVE  TypeOK'
<1>1. TypeOK /\ plan \in Plans /\ Checked /\ Stages /\ BinFollows
  BY DEF ComponentInv, Checked
<1>2. plan' = plan
  BY PlanStays
<1>3. /\ MaxEncodes \in Nat /\ MaxAttempts \in Nat
      /\ Len(plan.encodes) \in Nat /\ Len(plan.encodes) <= MaxEncodes
      /\ Len(plan.removes) \in Nat
      /\ Encodes = 1 .. Len(plan.encodes) /\ Encodes \subseteq Index
      /\ Removes = 1 .. Len(plan.removes)
      /\ \A i \in Encodes : Target(i) \in Path
      /\ \A k \in Removes : plan.removes[k] \in Path
      /\ committed \in Nat /\ removed \in Nat /\ swept \in Nat
  <2>1. TypeOK /\ plan \in Plans
    BY <1>1
  <2>2. QED
    BY <2>1, Shapes
<1>4. /\ Nothing \in Content /\ Partial \in Content
      /\ \A i \in Index : Output(i) \in Content
  BY Contents
<1>5. /\ plan \in PlanType /\ pc \in PcValues
      /\ phase \in [Index -> {"idle", "encoding", "encoded", "failed", "refused"}]
      /\ canceled \in BOOLEAN /\ kept \in Name \cup {NoName} /\ swept \in 0 .. MaxEncodes
      /\ status \in StatusValues /\ committed \in 0 .. Len(plan.encodes)
      /\ removed \in 0 .. Len(plan.removes) /\ recovery \in SUBSET Location
      /\ file \in [Path -> Content] /\ temp \in [Index -> Content]
      /\ aside \in [Index -> Content] /\ bin \in [Name -> Content]
  BY <1>1 DEF TypeOK
<1>6. /\ plan' \in PlanType /\ Len(plan'.encodes) = Len(plan.encodes)
      /\ Len(plan'.removes) = Len(plan.removes)
  BY <1>2, <1>5
<1>7. pc' \in PcValues /\ status' \in StatusValues /\ canceled' \in BOOLEAN
  BY <1>5 DEF Next, Prepare, Discard, Validate, StartEncode, EndEncode, CommitFresh, Protect,
       ProtectSoft, ProtectHard, LandReplacement, Restore, DropAside, AllCommitted,
       RemoveObsolete, Succeed, StopBetween, CleanTemp, Cleaned, Cancel, StopAs, Goto,
       result, disk, PcValues, StatusValues
<1>8. phase' \in [Index -> {"idle", "encoding", "encoded", "failed", "refused"}]
  BY <1>5 DEF Next, Prepare, Discard, Validate, StartEncode, EndEncode, CommitFresh, Protect,
       LandReplacement, Restore, DropAside, AllCommitted, RemoveObsolete, Succeed,
       StopBetween, CleanTemp, Cleaned, Cancel
<1>9. /\ swept' \in 0 .. MaxEncodes /\ committed' \in 0 .. Len(plan.encodes)
      /\ removed' \in 0 .. Len(plan.removes)
  <2>1. pc \in {"land", "restore", "drop"} => Current \in Encodes
    BY <1>1 DEF Stages
  <2>2. QED
    BY <1>3, <1>5, <2>1 DEF Next, Prepare, Discard, Validate, StartEncode, EndEncode,
       CommitFresh, Protect, LandReplacement, Restore, DropAside, AllCommitted,
       RemoveObsolete, Succeed, StopBetween, CleanTemp, Cleaned, Cancel, Current, result
<1>10. \A i \in Index : TempOf(i) \in Location /\ AsideOf(i) \in Location
  BY DEF Location
<1>11. \A n \in Name : BinOf(n) \in Location
  BY DEF Location
<1>12. pc \in {"land", "restore", "drop"} => Current \in Index /\ Target(Current) \in Path
  BY <1>1, <1>3 DEF Stages
<1>13. pc \in LandingPcs /\ plan.soft => kept \in Name
  BY <1>1 DEF BinFollows
<1>14. removed < Len(plan.removes) => Obsolete \in Path
  <2>1. removed < Len(plan.removes) => removed + 1 \in Removes
    BY <1>3
  <2>2. QED
    BY <1>3, <2>1 DEF Obsolete
<1>15. swept < Len(plan.encodes) => swept + 1 \in Index
  BY <1>3 DEF Index
<1>16. kept' \in Name \cup {NoName}
  BY <1>5 DEF Next, Prepare, Discard, Validate, StartEncode, EndEncode,
       CommitFresh, Protect, ProtectSoft, ProtectHard, LandReplacement, Restore, DropAside,
       AllCommitted, RemoveObsolete, Succeed, StopBetween, CleanTemp, Cleaned, Cancel
<1>17. recovery' \in SUBSET Location
  BY <1>5, <1>10, <1>11, <1>12, <1>13, <1>15 DEF Next, Prepare, Discard, Validate,
       StartEncode, EndEncode, CommitFresh, Protect, LandReplacement, Restore, DropAside,
       AllCommitted, RemoveObsolete, Succeed, StopBetween, CleanTemp, Cleaned, Cancel,
       LandingPcs, result
<1> DEFINE DiskOK == /\ file \in [Path -> Content] /\ temp \in [Index -> Content]
                     /\ aside \in [Index -> Content] /\ bin \in [Name -> Content]
<1>18. DiskOK'
  <2>1. ASSUME CommitFresh \/ Protect
        PROVE  DiskOK'
    <3>1. Current \in Index /\ Target(Current) \in Path
      BY <1>3, <2>1 DEF CommitFresh, Protect
    <3>2. QED
      BY <1>4, <1>5, <2>1, <3>1 DEF CommitFresh, Protect, ProtectSoft, ProtectHard, Land, MoveToBin
  <2>2. ASSUME LandReplacement \/ Restore \/ DropAside
        PROVE  DiskOK'
    BY <1>4, <1>5, <1>12, <1>13, <2>2
       DEF LandReplacement, Restore, DropAside, Land, LandingPcs
  <2>3. ASSUME RemoveObsolete
        PROVE  DiskOK'
    BY <1>4, <1>5, <1>14, <2>3 DEF RemoveObsolete, MoveToBin
  <2>4. ASSUME CleanTemp
        PROVE  DiskOK'
    BY <1>4, <1>5, <1>15, <2>4 DEF CleanTemp
  <2>5. ASSUME NEW i \in Index, StartEncode(i) \/ EndEncode(i)
        PROVE  DiskOK'
    BY <1>4, <1>5, <2>5 DEF StartEncode, EndEncode
  <2>6. CASE \/ Prepare \/ Discard \/ Validate \/ AllCommitted \/ Succeed
             \/ StopBetween \/ Cleaned \/ Cancel
    BY <1>5, <2>6 DEF Prepare, Discard, Validate, AllCommitted, Succeed, StopBetween,
       Cleaned, Cancel, disk
  <2>7. QED
    BY <2>1, <2>2, <2>3, <2>4, <2>5, <2>6 DEF Next
<1>19. QED
  BY <1>6, <1>7, <1>8, <1>9, <1>16, <1>17, <1>18 DEF TypeOK

-----------------------------------------------------------------------------
(* Steps that leave the member's files and the counts alone.               *)

Restful == pc \notin {"land", "restore", "drop"}

LEMMA PlacesStay ==
    ASSUME ComponentInv, plan' = plan, UNCHANGED <<committed, removed, file, aside, bin>>,
           \A x : (AsideOf(x) \in recovery' <=> AsideOf(x) \in recovery)
                    /\ (BinOf(x) \in recovery' <=> BinOf(x) \in recovery),
           Restful, Restful', pc \in EndPcs => pc' \in EndPcs /\ status' = status
    PROVE  TargetsFollow' /\ OthersFollow' /\ AsideFollows' /\ BinFollows' /\ SoftKeeps'
<1>1. /\ Encodes' = Encodes /\ Removes' = Removes /\ Targets' = Targets
      /\ RemovedPaths' = RemovedPaths
      /\ \A i : Target(i)' = Target(i) /\ Replaces(i)' = Replaces(i)
      /\ \A p : Before(p)' = Before(p)
  BY ReadOffPlan
<1>2. /\ file' = file /\ aside' = aside /\ bin' = bin
      /\ committed' = committed /\ removed' = removed
      /\ \A x : AsideOf(x) \in recovery' <=> AsideOf(x) \in recovery
      /\ \A x : BinOf(x) \in recovery' <=> BinOf(x) \in recovery
  OBVIOUS
<1>3. pc \notin LandingPcs /\ pc' \notin LandingPcs /\ pc # "drop" /\ pc' # "drop"
  BY DEF Restful, LandingPcs
<1>4. TargetsFollow'
  <2> SUFFICES ASSUME NEW i \in Encodes
               PROVE  \/ i <= committed /\ Landed(i)
                      \/ i > committed /\ file[Target(i)] = Before(Target(i))
                      \/ i = Current /\ pc' \in EndPcs /\ status' = "failed" /\ Stranded(i)'
    BY <1>1, <1>2, <1>3 DEF TargetsFollow, Landed, Current, Restful
  <2>1. Stranded(i)' <=> Stranded(i)
    BY <1>1, <1>2 DEF Stranded
  <2>2. \/ i <= committed /\ Landed(i)
        \/ i > committed /\ file[Target(i)] = Before(Target(i))
        \/ i = Current /\ pc \in EndPcs /\ status = "failed" /\ Stranded(i)
    BY <1>3 DEF ComponentInv, TargetsFollow
  <2>3. QED
    BY <2>1, <2>2
<1>5. OthersFollow'
  BY <1>1, <1>2 DEF ComponentInv, OthersFollow
<1>6. AsideFollows'
  <2> SUFFICES ASSUME NEW i \in Index
               PROVE  /\ aside[i] # Nothing =>
                           /\ ~plan.soft /\ i \in Encodes /\ aside[i] = Audio(Target(i))
                           /\ AsideOf(i) \in recovery
                      /\ AsideOf(i) \in recovery => aside[i] # Nothing /\ pc' \in EndPcs
    BY <1>1, <1>2, <1>3 DEF AsideFollows, Restful
  <2>1. QED
    BY <1>3 DEF ComponentInv, AsideFollows, Restful
<1>7. BinFollows'
  BY <1>1, <1>2, <1>3 DEF ComponentInv, BinFollows
<1>8. SoftKeeps'
  BY <1>1, <1>2 DEF ComponentInv, SoftKeeps
<1>9. QED
  BY <1>4, <1>5, <1>6, <1>7, <1>8

-----------------------------------------------------------------------------
(* The invariant, one action after the other.                              *)

\* What every step may use of the state it is taken in.
LEMMA Facts ==
    ASSUME ComponentInv
    PROVE  /\ MaxEncodes \in Nat
           /\ Len(plan.encodes) \in Nat /\ Len(plan.removes) \in Nat
           /\ Encodes = 1 .. Len(plan.encodes) /\ Encodes \subseteq Index
           /\ Removes = 1 .. Len(plan.removes)
           /\ \A i \in Encodes : Target(i) \in Path
           /\ \A k \in Removes : plan.removes[k] \in Path
           /\ committed \in 0 .. Len(plan.encodes) /\ removed \in 0 .. Len(plan.removes)
           /\ swept \in Nat /\ plan \in Plans /\ plan.soft \in BOOLEAN
           /\ file \in [Path -> Content] /\ temp \in [Index -> Content]
           /\ aside \in [Index -> Content] /\ bin \in [Name -> Content]
           /\ pc \in PcValues /\ status \in StatusValues
<1>1. TypeOK /\ plan \in Plans
  BY DEF ComponentInv, Checked
<1>2. /\ committed \in 0 .. Len(plan.encodes) /\ removed \in 0 .. Len(plan.removes)
      /\ file \in [Path -> Content] /\ temp \in [Index -> Content]
      /\ aside \in [Index -> Content] /\ bin \in [Name -> Content]
      /\ pc \in PcValues /\ status \in StatusValues
  BY <1>1 DEF TypeOK
<1>3. QED
  BY <1>1, <1>2, Shapes

\* The steps of the run that touch neither the disk nor the counts.
LEMMA PreparePreserves == ASSUME ComponentInv, TypeOK', Prepare PROVE ComponentInv'
<1>1. /\ plan' = plan /\ UNCHANGED <<committed, removed, swept, recovery, disk>> /\ phase' = phase
      /\ pc = "prepare" /\ pc' \in {"encode", "ended"}
  BY DEF Prepare, Goto
<1>2. /\ Encodes' = Encodes /\ Removes' = Removes /\ Accepted' = Accepted
  BY <1>1, ReadOffPlan
<1>3. TargetsFollow' /\ OthersFollow' /\ AsideFollows' /\ BinFollows' /\ SoftKeeps'
  <2>1. UNCHANGED <<committed, removed, file, aside, bin, recovery>> /\ Restful /\ Restful'
    BY <1>1 DEF Restful, disk
  <2>2. QED
    BY <1>1, <2>1, PlacesStay DEF EndPcs
<1>10. Untouched'
  <2>1. \A p : Before(p)' = Before(p)
    BY <1>1, ReadOffPlan
  <2>2. QED
    BY <1>1, <2>1 DEF ComponentInv, Checked, Untouched, disk
<1>4. Checked'
  <2>1. Accepted \/ pc' = "ended"
    BY DEF Prepare, Goto
  <2>2. QED
    BY <1>1, <1>2, <1>10, <2>1 DEF ComponentInv, Checked
<1>5. committed = 0 /\ removed = 0 /\ swept = 0 /\ \A i \in Index : temp[i] = Nothing /\ aside[i] = Nothing
  BY <1>1 DEF ComponentInv, Checked, Untouched
<1>6. Stages'
  BY <1>1, <1>5, Facts DEF Stages, EndPcs
<1>7. StagedFollow'
  <2>1. /\ temp' = temp /\ aside' = aside /\ recovery' = recovery /\ swept' = swept
    BY <1>1 DEF disk
  <2>2. \A i \in Encodes : phase[i] # "encoded"
    BY <1>1, <1>5, Facts, Tags DEF ComponentInv, StagedFollow
  <2>3. QED
    BY <1>1, <1>2, <1>5, <2>1, <2>2 DEF ComponentInv, StagedFollow, LandingPcs
<1>8. Verdict'
  BY <1>1, <1>2, <1>5, Facts DEF ComponentInv, Verdict, Prepare, Goto, EndPcs, disk
<1>9. QED
  BY <1>3, <1>4, <1>6, <1>7, <1>8 DEF ComponentInv

\* No part of the invariant but the types reads whether the run was canceled.
LEMMA CancelPreserves ==
    ASSUME ComponentInv, TypeOK',
           UNCHANGED <<plan, pc, phase, kept, swept, result, disk>>
    PROVE  ComponentInv'
<1>1. /\ plan' = plan /\ pc' = pc /\ status' = status /\ phase' = phase /\ kept' = kept
      /\ UNCHANGED <<committed, removed, swept, recovery, file, temp, aside, bin>>
  BY DEF result, disk
<1>2. /\ Checked' <=> Checked
      /\ Stages' <=> Stages
      /\ TargetsFollow' <=> TargetsFollow
      /\ OthersFollow' <=> OthersFollow
      /\ StagedFollow' <=> StagedFollow
      /\ AsideFollows' <=> AsideFollows
      /\ BinFollows' <=> BinFollows
      /\ SoftKeeps' <=> SoftKeeps
      /\ Verdict' <=> Verdict
  BY <1>1 DEF Checked, Stages, TargetsFollow, OthersFollow, StagedFollow, AsideFollows,
       BinFollows, SoftKeeps, Verdict, Untouched, Accepted, ConflictFree, DiskAgrees,
       TargetFits, Encodes, Removes, Targets, RemovedPaths, Target, Replaces, Listed, Before,
       Current, Landed, Stranded
<1>3. QED
  BY <1>2 DEF ComponentInv

\* Encoding writes staged outputs only.
LEMMA StartEncodePreserves ==
    ASSUME ComponentInv, TypeOK', NEW i \in Index, StartEncode(i)
    PROVE  ComponentInv'
<1>1. /\ plan' = plan /\ UNCHANGED <<committed, removed, swept, recovery, file, aside, bin, status>>
      /\ pc = "encode" /\ pc' = "encode" /\ i \in Encodes /\ phase[i] = "idle"
  BY DEF StartEncode, result
<1>2. /\ Encodes' = Encodes /\ Removes' = Removes /\ Accepted' = Accepted
      /\ Current' = Current /\ \A j : Replaces(j)' = Replaces(j)
  BY <1>1, ReadOffPlan DEF Current
<1>3. TargetsFollow' /\ OthersFollow' /\ AsideFollows' /\ BinFollows' /\ SoftKeeps'
  BY <1>1, PlacesStay DEF Restful
<1>4. Checked' /\ Stages'
  BY <1>1, <1>2 DEF ComponentInv, Checked, Stages, EndPcs
<1>5. /\ temp' \in {temp, [temp EXCEPT ![i] = Partial]}
      /\ phase' \in {[phase EXCEPT ![i] = "refused"], [phase EXCEPT ![i] = "encoding"]}
  BY DEF StartEncode
<1>6. StagedFollow'
  <2>1. swept = 0 /\ swept' = 0
    BY <1>1, Facts DEF ComponentInv, Stages, EndPcs
  <2>2. \A j \in Index : phase'[j] # "idle" \/ temp'[j] # Nothing => j \in Encodes
    <3>1. phase \in [Index -> {"idle", "encoding", "encoded", "failed", "refused"}]
      BY DEF ComponentInv, TypeOK
    <3>2. QED
      BY <1>1, <1>5, <3>1, Facts DEF ComponentInv, StagedFollow
  <2>3. \A j \in Encodes : phase'[j] = "encoded" => phase[j] = "encoded" /\ j # i
    <3>1. phase \in [Index -> {"idle", "encoding", "encoded", "failed", "refused"}]
      BY DEF ComponentInv, TypeOK
    <3>2. QED
      BY <1>5, <3>1, Facts
  <2>4. \A j \in Encodes : phase'[j] = "encoded" => temp'[j] = Output(j)
    BY <1>1, <1>5, <2>3, Facts DEF ComponentInv, StagedFollow
  <2>5. \A j \in Index : ~(TempOf(j) \in recovery)
    BY <2>1, Facts DEF ComponentInv, StagedFollow, Index
  <2>6. \A j \in Index : ~(j <= swept)
    BY <2>1, Facts DEF Index
  <2>7. QED
    BY <1>1, <1>2, <2>1, <2>2, <2>4, <2>5, <2>6 DEF StagedFollow, LandingPcs
<1>7. Verdict'
  BY <1>1 DEF ComponentInv, Verdict, EndPcs
<1>8. QED
  BY <1>3, <1>4, <1>6, <1>7 DEF ComponentInv

LEMMA EndEncodePreserves ==
    ASSUME ComponentInv, TypeOK', NEW i \in Index, EndEncode(i)
    PROVE  ComponentInv'
<1>1. /\ plan' = plan /\ UNCHANGED <<committed, removed, swept, recovery, file, aside, bin, status>>
      /\ pc = "encode" /\ pc' = "encode" /\ phase[i] = "encoding"
  BY DEF EndEncode, result
<1>2. /\ Encodes' = Encodes /\ Removes' = Removes /\ Accepted' = Accepted
      /\ Current' = Current /\ \A j : Replaces(j)' = Replaces(j)
  BY <1>1, ReadOffPlan DEF Current
<1>3. TargetsFollow' /\ OthersFollow' /\ AsideFollows' /\ BinFollows' /\ SoftKeeps'
  BY <1>1, PlacesStay DEF Restful
<1>4. Checked' /\ Stages'
  BY <1>1, <1>2 DEF ComponentInv, Checked, Stages, EndPcs
<1>5. \/ phase' = [phase EXCEPT ![i] = "encoded"] /\ temp' = [temp EXCEPT ![i] = Output(i)]
      \/ /\ phase' = [phase EXCEPT ![i] = "failed"]
         /\ temp' \in {temp, [temp EXCEPT ![i] = Nothing]}
  BY DEF EndEncode
<1>6. StagedFollow'
  <2>1. swept = 0 /\ swept' = 0
    BY <1>1, Facts DEF ComponentInv, Stages, EndPcs
  <2>2. phase \in [Index -> {"idle", "encoding", "encoded", "failed", "refused"}]
    BY DEF ComponentInv, TypeOK
  <2>3. \A j \in Index : phase'[j] # "idle" \/ temp'[j] # Nothing => j \in Encodes
    BY <1>1, <1>5, <2>2, Facts DEF ComponentInv, StagedFollow
  <2>4. \A j \in Encodes : phase'[j] = "encoded" => temp'[j] = Output(j)
    BY <1>1, <1>5, <2>2, Facts DEF ComponentInv, StagedFollow
  <2>5. \A j \in Index : ~(TempOf(j) \in recovery)
    BY <2>1, Facts DEF ComponentInv, StagedFollow, Index
  <2>6. \A j \in Index : ~(j <= swept)
    BY <2>1, Facts DEF Index
  <2>7. QED
    BY <1>1, <1>2, <2>1, <2>3, <2>4, <2>5, <2>6 DEF StagedFollow, LandingPcs
<1>7. Verdict'
  BY <1>1 DEF ComponentInv, Verdict, EndPcs
<1>8. QED
  BY <1>3, <1>4, <1>6, <1>7 DEF ComponentInv

\* A step between the stages keeps everything but the stage and the verdict.
LEMMA BetweenStages ==
    ASSUME ComponentInv, TypeOK', plan' = plan,
           UNCHANGED <<phase, committed, removed, swept, recovery, disk>>,
           pc \in {"encode", "commit", "remove", "clean"},
           pc' \in {"commit", "remove", "clean", "ended"},
           pc \in EndPcs => pc' \in EndPcs /\ status' = status,
           Stages', StagedFollow', Verdict'
    PROVE  ComponentInv'
<1>1. Restful /\ Restful' /\ UNCHANGED <<file, aside, bin>>
  BY DEF Restful, disk
<1>2. TargetsFollow' /\ OthersFollow' /\ AsideFollows' /\ BinFollows' /\ SoftKeeps'
  BY <1>1, PlacesStay
<1>3. Checked'
  BY ReadOffPlan DEF ComponentInv, Checked
<1>4. QED
  BY <1>2, <1>3 DEF ComponentInv

\* What a stopped run has left undone.
LEMMA StopPreserves ==
    ASSUME ComponentInv, TypeOK', plan' = plan,
           UNCHANGED <<phase, committed, removed, swept, recovery, disk>>,
           pc \in {"encode", "commit", "remove"}, pc' = "clean",
           status' \in {"failed", "canceled"},
           committed < Len(plan.encodes) \/ removed < Len(plan.removes)
             \/ Encodes \cup Removes = {}
    PROVE  ComponentInv'
<1>1. Stages'
  BY Facts, ReadOffPlan DEF ComponentInv, Stages, EndPcs
<1>2. StagedFollow'
  BY ReadOffPlan DEF ComponentInv, StagedFollow, LandingPcs, disk
<1>3. Verdict'
  BY ReadOffPlan DEF Verdict, EndPcs, disk
<1>4. QED
  BY <1>1, <1>2, <1>3, BetweenStages DEF EndPcs

LEMMA DiscardPreserves == ASSUME ComponentInv, TypeOK', Discard PROVE ComponentInv'
<1>1. /\ plan' = plan /\ UNCHANGED <<phase, committed, removed, swept, recovery, disk>>
      /\ pc = "encode" /\ pc' = "clean" /\ status' \in {"failed", "canceled"}
  BY DEF Discard, Goto
<1>2. committed < Len(plan.encodes) \/ removed < Len(plan.removes) \/ Encodes \cup Removes = {}
  BY <1>1, Facts DEF ComponentInv, Stages, EndPcs
<1>3. QED
  BY <1>1, <1>2, StopPreserves

LEMMA ValidatePreserves == ASSUME ComponentInv, TypeOK', Validate PROVE ComponentInv'
<1>1. /\ plan' = plan /\ UNCHANGED <<phase, committed, removed, swept, recovery, disk>>
      /\ pc = "encode" /\ \A i \in Encodes : phase[i] = "encoded"
      /\ \/ pc' = "commit" /\ status' = status
         \/ pc' = "clean" /\ status' \in {"failed", "canceled"} /\ Encodes # {}
  BY DEF Validate, Goto, StopAs
<1>2. committed = 0 /\ removed = 0 /\ swept = 0
  BY <1>1, Facts DEF ComponentInv, Stages, EndPcs
<1>3. CASE pc' = "clean"
  BY <1>1, <1>2, <1>3, StopPreserves, Facts
<1>4. CASE pc' = "commit"
  <2>1. Stages'
    BY <1>1, <1>2, <1>4, Facts, ReadOffPlan DEF ComponentInv, Stages, EndPcs
  <2>2. StagedFollow'
    BY <1>1, <1>2, <1>4, Facts, ReadOffPlan DEF ComponentInv, StagedFollow, LandingPcs, disk
  <2>3. Verdict'
    BY <1>1, <1>4, ReadOffPlan DEF ComponentInv, Verdict, EndPcs, disk
  <2>4. QED
    BY <1>1, <1>4, <2>1, <2>2, <2>3, BetweenStages DEF EndPcs
<1>5. QED
  BY <1>1, <1>3, <1>4

LEMMA StopBetweenPreserves == ASSUME ComponentInv, TypeOK', StopBetween PROVE ComponentInv'
BY StopPreserves DEF StopBetween, StopAs, Goto

LEMMA AllCommittedPreserves == ASSUME ComponentInv, TypeOK', AllCommitted PROVE ComponentInv'
<1>1. /\ plan' = plan /\ UNCHANGED <<phase, committed, removed, swept, recovery, disk, status>>
      /\ pc = "commit" /\ pc' = "remove" /\ committed = Len(plan.encodes)
  BY DEF AllCommitted, Goto, result
<1>2. Stages'
  BY <1>1, ReadOffPlan DEF ComponentInv, Stages, EndPcs
<1>3. StagedFollow'
  BY <1>1, ReadOffPlan DEF ComponentInv, StagedFollow, LandingPcs, disk
<1>4. Verdict'
  BY <1>1, ReadOffPlan DEF ComponentInv, Verdict, EndPcs, disk
<1>5. QED
  BY <1>1, <1>2, <1>3, <1>4, BetweenStages DEF EndPcs

LEMMA SucceedPreserves == ASSUME ComponentInv, TypeOK', Succeed PROVE ComponentInv'
<1>1. /\ plan' = plan /\ UNCHANGED <<phase, committed, removed, swept, recovery, disk>>
      /\ pc = "remove" /\ pc' = "ended" /\ removed = Len(plan.removes)
      /\ status' = "succeeded" /\ committed = Len(plan.encodes)
  BY DEF Succeed, Goto, ComponentInv, Stages
<1>2. \A i \in Index : temp[i] = Nothing
  BY <1>1, Facts DEF ComponentInv, StagedFollow
<1>3. \A i \in Index : aside[i] = Nothing
  BY <1>1 DEF ComponentInv, AsideFollows, EndPcs
<1>4. Stages'
  BY <1>1, ReadOffPlan DEF ComponentInv, Stages, EndPcs
<1>5. StagedFollow'
  BY <1>1, <1>2, ReadOffPlan DEF ComponentInv, StagedFollow, LandingPcs, disk
<1>6. Verdict'
  BY <1>1, <1>2, <1>3, ReadOffPlan DEF ComponentInv, Verdict, EndPcs, disk
<1>7. QED
  BY <1>1, <1>4, <1>5, <1>6, BetweenStages DEF EndPcs

LEMMA CleanedPreserves == ASSUME ComponentInv, TypeOK', Cleaned PROVE ComponentInv'
<1>1. /\ plan' = plan /\ UNCHANGED <<phase, committed, removed, swept, recovery, disk, status>>
      /\ pc = "clean" /\ pc' = "ended" /\ swept = Len(plan.encodes)
  BY DEF Cleaned, Goto, result
<1>2. Stages'
  BY <1>1, ReadOffPlan DEF ComponentInv, Stages, EndPcs
<1>3. StagedFollow'
  BY <1>1, ReadOffPlan DEF ComponentInv, StagedFollow, LandingPcs, disk
<1>4. Verdict'
  BY <1>1, ReadOffPlan DEF ComponentInv, Verdict, EndPcs, disk
<1>5. QED
  BY <1>1, <1>2, <1>3, <1>4, BetweenStages DEF EndPcs

LEMMA CleanTempPreserves == ASSUME ComponentInv, TypeOK', CleanTemp PROVE ComponentInv'
<1>1. /\ plan' = plan
      /\ UNCHANGED <<phase, committed, removed, file, aside, bin, status>>
      /\ pc = "clean" /\ pc' = "clean" /\ swept < Len(plan.encodes) /\ swept' = swept + 1
      /\ \/ temp' = [temp EXCEPT ![swept + 1] = Nothing] /\ recovery' = recovery
         \/ temp[swept + 1] # Nothing /\ recovery' = recovery \cup {TempOf(swept + 1)} /\ temp' = temp
  BY DEF CleanTemp
<1>2. /\ Encodes' = Encodes /\ Removes' = Removes /\ Accepted' = Accepted
  BY <1>1, ReadOffPlan
<1>3. TargetsFollow' /\ OthersFollow' /\ AsideFollows' /\ BinFollows' /\ SoftKeeps'
  <2>1. \A x : /\ (AsideOf(x) \in recovery' <=> AsideOf(x) \in recovery)
               /\ (BinOf(x) \in recovery' <=> BinOf(x) \in recovery)
    BY <1>1, Names
  <2>2. QED
    BY <1>1, <2>1, PlacesStay DEF Restful
<1>4. Checked'
  BY <1>1, <1>2 DEF ComponentInv, Checked
<1>5. Stages'
  BY <1>1, <1>2, Facts DEF ComponentInv, Stages, EndPcs
<1>6. StagedFollow'
  <2>1. swept + 1 \in Encodes /\ swept \in Nat
    BY <1>1, Facts
  <2>2. \A i \in Index : phase'[i] # "idle" \/ temp'[i] # Nothing => i \in Encodes
    BY <1>1, Facts DEF ComponentInv, StagedFollow
  <2>3. ASSUME NEW i \in Index
        PROVE  TempOf(i) \in recovery' <=> i <= swept' /\ temp'[i] # Nothing
    <3>1. TempOf(i) \in recovery <=> i <= swept /\ temp[i] # Nothing
      BY DEF ComponentInv, StagedFollow
    <3>2. i \in Nat /\ (i <= swept' <=> i <= swept \/ i = swept + 1)
      BY <1>1, <2>1, Facts DEF Index
    <3>3. CASE i = swept + 1
      BY <1>1, <3>1, <3>2, <3>3, <2>1, Facts, Names
    <3>4. CASE i # swept + 1
      BY <1>1, <3>1, <3>2, <3>4, Facts, Names
    <3>5. QED
      BY <3>3, <3>4
  <2>4. QED
    BY <1>1, <1>2, <2>2, <2>3 DEF StagedFollow, LandingPcs
<1>7. Verdict'
  BY <1>1, <1>2 DEF ComponentInv, Verdict, EndPcs
<1>8. QED
  BY <1>3, <1>4, <1>5, <1>6, <1>7 DEF ComponentInv

\* A step that writes the current target leaves every other file alone.
LEMMA OneTargetMoves ==
    ASSUME ComponentInv, Accepted, plan' = plan, removed' = removed, Current \in Encodes,
           NEW v, file' = [file EXCEPT ![Target(Current)] = v]
    PROVE  /\ file'[Target(Current)] = v
           /\ \A i \in Encodes : i # Current => file'[Target(i)] = file[Target(i)]
           /\ OthersFollow'
<1>1. Target(Current) \in Path /\ file \in [Path -> Content]
  BY Facts
<1>2. \A p \in Path : p # Target(Current) => file'[p] = file[p]
  BY <1>1
<1>3. \A i \in Encodes : Target(i) = Target(Current) => i = Current
  BY AcceptedPlan
<1>4. /\ \A k \in Removes : plan.removes[k] # Target(Current)
      /\ Target(Current) \in Targets
  BY AcceptedPlan
<1>5. /\ Removes' = Removes /\ Targets' = Targets /\ RemovedPaths' = RemovedPaths
      /\ \A p : Before(p)' = Before(p)
  BY ReadOffPlan
<1>6. OthersFollow'
  BY <1>2, <1>4, <1>5, Facts DEF ComponentInv, OthersFollow
<1>7. QED
  BY <1>1, <1>2, <1>3, <1>6, Facts

\* An output that lands, once the place of the old file is known.
LEMMA LandedOutput ==
    ASSUME ComponentInv, plan' = plan, phase' = phase, Current \in Encodes, Land(Current),
           pc \in {"commit", "land"}
    PROVE  /\ Accepted
           /\ file' = [file EXCEPT ![Target(Current)] = Output(Current)]
           /\ temp'[Current] = Nothing
           /\ \A i \in Index : i # Current => temp'[i] = temp[i]
           /\ \A i \in Index : phase'[i] # "idle" \/ temp'[i] # Nothing => i \in Encodes
           /\ \A i \in Index : TempOf(i) \notin recovery
<1>1. Accepted
  BY DEF ComponentInv, Checked
<1>2. temp[Current] = Output(Current) /\ committed \in Nat
  BY Facts DEF ComponentInv, StagedFollow, LandingPcs, Current
<1>3. temp' = [temp EXCEPT ![Current] = Nothing] /\ temp \in [Index -> Content]
      /\ Current \in Index
  BY Facts DEF Land
<1>4. \A i \in Index : phase[i] # "idle" \/ temp[i] # Nothing => i \in Encodes
  BY DEF ComponentInv, StagedFollow
<1>5. swept = 0
  BY Facts DEF ComponentInv, Stages, EndPcs
<1>6. \A i \in Index : TempOf(i) \notin recovery
  BY <1>5, Facts DEF ComponentInv, StagedFollow, Index
<1>7. QED
  BY <1>1, <1>2, <1>3, <1>4, <1>6 DEF Land

LEMMA CommitFreshPreserves == ASSUME ComponentInv, TypeOK', CommitFresh PROVE ComponentInv'
<1>1. /\ plan' = plan /\ UNCHANGED <<phase, swept, removed, recovery, aside, bin, kept>>
      /\ pc = "commit" /\ Current \in Encodes /\ ~Replaces(Current)
      /\ \/ Land(Current) /\ committed' = Current /\ pc' = pc /\ status' = status
         \/ StopAs("failed") /\ UNCHANGED <<file, temp, committed>>
  BY DEF CommitFresh
<1>2. committed < Len(plan.encodes)
  BY <1>1, Facts DEF Current
<1>3. CASE StopAs("failed") /\ UNCHANGED <<file, temp, committed>>
  BY <1>1, <1>2, <1>3, StopPreserves DEF StopAs, Goto, disk
<1>4. CASE Land(Current) /\ committed' = Current /\ pc' = pc /\ status' = status
  <2>1. /\ Accepted
        /\ file' = [file EXCEPT ![Target(Current)] = Output(Current)]
        /\ temp'[Current] = Nothing
        /\ \A i \in Index : i # Current => temp'[i] = temp[i]
        /\ \A i \in Index : phase'[i] # "idle" \/ temp'[i] # Nothing => i \in Encodes
        /\ \A i \in Index : TempOf(i) \notin recovery
    BY <1>1, <1>4, LandedOutput
  <2>2. /\ file'[Target(Current)] = Output(Current)
        /\ \A i \in Encodes : i # Current => file'[Target(i)] = file[Target(i)]
        /\ OthersFollow'
    BY <1>1, <2>1, OneTargetMoves
  <2>3. /\ Encodes' = Encodes /\ Removes' = Removes /\ Accepted' = Accepted
        /\ \A i : Target(i)' = Target(i) /\ Replaces(i)' = Replaces(i)
        /\ \A p : Before(p)' = Before(p)
    BY <1>1, ReadOffPlan
  <2>4. committed \in Nat /\ removed \in Nat /\ swept = 0 /\ removed = 0
    BY <1>1, <1>2, Facts DEF ComponentInv, Stages, EndPcs
  <2>5. Checked'
    BY <1>1, <1>4, <2>1, <2>3 DEF ComponentInv, Checked
  <2>6. Stages'
    BY <1>1, <1>2, <1>4, <2>3, <2>4, Facts DEF Stages, EndPcs, Current
  <2>7. TargetsFollow'
    <3> SUFFICES ASSUME NEW i \in Encodes
                 PROVE  \/ i <= committed' /\ file'[Target(i)] = Output(i)
                        \/ i > committed' /\ file'[Target(i)] = Before(Target(i))
      BY <1>1, <1>4, <2>3 DEF TargetsFollow, Landed
    <3>1. CASE i = Current
      BY <1>4, <2>2, <2>4, <3>1 DEF Current
    <3>2. CASE i # Current
      <4>1. \/ i <= committed /\ file[Target(i)] = Output(i)
            \/ i > committed /\ file[Target(i)] = Before(Target(i))
        BY <1>1, <3>2 DEF ComponentInv, TargetsFollow, Landed, LandingPcs, EndPcs
      <4>2. QED
        BY <1>4, <2>2, <2>4, <3>2, <4>1, Facts DEF Current
    <3>3. QED
      BY <3>1, <3>2
  <2>8. StagedFollow'
    <3>1. \A i \in Encodes : temp'[i] = IF i <= committed' THEN Nothing ELSE Output(i)
      <4> SUFFICES ASSUME NEW i \in Encodes
                   PROVE  temp'[i] = IF i <= committed' THEN Nothing ELSE Output(i)
        OBVIOUS
      <4>1. temp[i] = IF i <= committed THEN Nothing ELSE Output(i)
        BY <1>1 DEF ComponentInv, StagedFollow
      <4>2. QED
        BY <1>4, <2>1, <2>4, <4>1, Facts DEF Current
    <3>2. \A i \in Index : ~(i <= swept)
      BY <2>4, Facts DEF Index
    <3>3. QED
      BY <1>1, <1>4, <2>1, <2>3, <2>4, <3>1, <3>2 DEF StagedFollow
  <2>9. AsideFollows'
    BY <1>1, <1>4, <2>3 DEF ComponentInv, AsideFollows, EndPcs
  <2>10. BinFollows'
    BY <1>1, <1>4 DEF ComponentInv, BinFollows, LandingPcs
  <2>11. SoftKeeps'
    <3>1. \A i \in Encodes : i <= committed' /\ Replaces(i) => i <= committed
      BY <1>1, <1>4, <2>4, Facts DEF Current
    <3>2. QED
      BY <1>1, <2>3, <3>1 DEF ComponentInv, SoftKeeps
  <2>12. Verdict'
    BY <1>1, <1>4 DEF ComponentInv, Verdict, EndPcs
  <2>13. QED
    BY <2>2, <2>5, <2>6, <2>7, <2>8, <2>9, <2>10, <2>11, <2>12 DEF ComponentInv
<1>5. QED
  BY <1>1, <1>3, <1>4

\* The old file of a replacement is under way: what both modes have in common.
LEMMA Protected ==
    ASSUME ComponentInv, TypeOK', plan' = plan, pc = "commit", pc' = "land",
           Current \in Encodes, Replaces(Current),
           file' = [file EXCEPT ![Target(Current)] = Nothing],
           UNCHANGED <<phase, committed, removed, swept, status, recovery, temp>>,
           AsideFollows', BinFollows', SoftKeeps'
    PROVE  ComponentInv'
<1>1. Accepted /\ committed < Len(plan.encodes) /\ committed \in Nat /\ Current = committed + 1
  BY Facts DEF ComponentInv, Checked, Current
<1>2. /\ file'[Target(Current)] = Nothing
      /\ \A i \in Encodes : i # Current => file'[Target(i)] = file[Target(i)]
      /\ OthersFollow'
  BY <1>1, OneTargetMoves
<1>3. /\ Encodes' = Encodes /\ Removes' = Removes /\ Accepted' = Accepted
      /\ Current' = Current
      /\ \A i : Target(i)' = Target(i) /\ Replaces(i)' = Replaces(i)
      /\ \A p : Before(p)' = Before(p)
  BY ReadOffPlan DEF Current
<1>4. Checked' /\ Stages'
  BY <1>1, <1>3, Facts DEF ComponentInv, Checked, Stages, EndPcs
<1>5. TargetsFollow'
  <2> SUFFICES ASSUME NEW i \in Encodes
               PROVE  \/ i <= committed /\ file'[Target(i)] = Output(i)
                      \/ i > committed /\ file'[Target(i)] = Before(Target(i)) /\ i # Current
                      \/ i = Current /\ file'[Target(i)] = Nothing
    BY <1>3 DEF TargetsFollow, Landed, LandingPcs
  <2>1. \/ i <= committed /\ file[Target(i)] = Output(i)
        \/ i > committed /\ file[Target(i)] = Before(Target(i))
    BY DEF ComponentInv, TargetsFollow, Landed, LandingPcs, EndPcs
  <2>2. i <= committed => i # Current
    BY <1>1, Facts
  <2>3. QED
    BY <1>2, <2>1, <2>2
<1>6. StagedFollow'
  <2>1. \A i \in Encodes : temp[i] = IF i <= committed THEN Nothing ELSE Output(i)
    BY DEF ComponentInv, StagedFollow
  <2>2. QED
    BY <1>3, <2>1 DEF ComponentInv, StagedFollow
<1>7. Verdict'
  BY <1>3 DEF ComponentInv, Verdict, EndPcs
<1>8. QED
  BY <1>2, <1>4, <1>5, <1>6, <1>7 DEF ComponentInv

LEMMA ProtectPreserves == ASSUME ComponentInv, TypeOK', Protect PROVE ComponentInv'
<1>1. /\ plan' = plan /\ UNCHANGED <<phase, swept, committed, removed, recovery, temp>>
      /\ pc = "commit" /\ Current \in Encodes /\ Replaces(Current)
      /\ ProtectSoft \/ ProtectHard
  BY DEF Protect
<1>2. /\ Accepted /\ committed < Len(plan.encodes) /\ committed \in Nat /\ Current = committed + 1
      /\ Target(Current) \in Path /\ Current \in Index
  BY <1>1, Facts DEF ComponentInv, Checked, Current
<1>3. file[Target(Current)] = Audio(Target(Current))
  <2>1. file[Target(Current)] = Before(Target(Current))
    BY <1>1, <1>2 DEF ComponentInv, TargetsFollow, LandingPcs, EndPcs
  <2>2. QED
    BY <1>1, <1>2, <2>1, AcceptedPlan
<1>4. /\ Encodes' = Encodes /\ Removes' = Removes /\ Current' = Current
      /\ \A i : Target(i)' = Target(i) /\ Replaces(i)' = Replaces(i)
  BY <1>1, ReadOffPlan DEF Current
<1>5. CASE StopAs("failed") /\ UNCHANGED <<file, bin, aside>>
  BY <1>1, <1>2, <1>5, StopPreserves DEF StopAs, Goto, disk
<1>6. ASSUME plan.soft, NEW n \in Name, MoveToBin(Target(Current), n), kept' = n,
             pc' = "land", status' = status, aside' = aside
      PROVE  ComponentInv'
  <2>1. /\ bin[n] = Nothing /\ bin' = [bin EXCEPT ![n] = Audio(Target(Current))]
        /\ file' = [file EXCEPT ![Target(Current)] = Nothing]
    BY <1>3, <1>6, FindsName DEF MoveToBin
  <2>2. /\ bin'[n] = Audio(Target(Current))
        /\ \A m \in Name : m # n => bin'[m] = bin[m]
    BY <2>1, Facts
  <2>3. BinOf(n) \notin recovery
    BY <2>1, Tags DEF ComponentInv, BinFollows
  <2>4. AsideFollows'
    BY <1>1, <1>4, <1>6 DEF ComponentInv, AsideFollows, EndPcs
  <2>5. BinFollows'
    <3>1. \A m \in Name : BinOf(m) \in recovery => \E p \in Path : bin'[m] = Audio(p)
      BY <2>2, <2>3 DEF ComponentInv, BinFollows
    <3>2. \A m \in Name : \A p \in Path : bin'[m] = Audio(p) => BinOf(m) \in recovery \/ m = n
      BY <1>1, <2>2 DEF ComponentInv, BinFollows, LandingPcs
    <3>3. QED
      BY <1>1, <1>4, <1>6, <2>2, <2>3, <3>1, <3>2 DEF BinFollows, LandingPcs
  <2>6. SoftKeeps'
    <3>1. \A m \in Name : \A p : bin[m] = Audio(p) => bin'[m] = Audio(p)
      BY <2>1, <2>2, Tags
    <3>2. QED
      BY <1>1, <1>4, <3>1 DEF ComponentInv, SoftKeeps
  <2>7. QED
    BY <1>1, <1>6, <2>1, <2>4, <2>5, <2>6, Protected
<1>7. ASSUME ~plan.soft, aside' = [aside EXCEPT ![Current] = file[Target(Current)]],
             file' = [file EXCEPT ![Target(Current)] = Nothing],
             pc' = "land", status' = status, bin' = bin, kept' = kept
      PROVE  ComponentInv'
  <2>1. /\ aside'[Current] = Audio(Target(Current))
        /\ \A i \in Index : i # Current => aside'[i] = aside[i]
    BY <1>2, <1>3, <1>7, Facts
  <2>2. AsideFollows'
    <3> SUFFICES ASSUME NEW i \in Index
                 PROVE  /\ aside'[i] # Nothing =>
                             /\ ~plan.soft /\ i \in Encodes /\ aside'[i] = Audio(Target(i))
                             /\ AsideOf(i) \in recovery \/ i = Current
                        /\ AsideOf(i) \notin recovery
                        /\ i = Current => aside'[i] # Nothing
      BY <1>1, <1>4, <1>7 DEF AsideFollows
    <3>1. AsideOf(i) \notin recovery
      BY <1>1 DEF ComponentInv, AsideFollows, EndPcs
    <3>2. aside[i] = Nothing
      BY <1>1, <3>1 DEF ComponentInv, AsideFollows
    <3>3. QED
      BY <1>1, <1>7, <2>1, <3>1, <3>2, Tags
  <2>3. BinFollows'
    BY <1>1, <1>4, <1>7 DEF ComponentInv, BinFollows, LandingPcs
  <2>4. SoftKeeps'
    BY <1>1, <1>7 DEF SoftKeeps
  <2>5. QED
    BY <1>1, <1>7, <2>2, <2>3, <2>4, Protected
<1>8. QED
  BY <1>1, <1>5, <1>6, <1>7 DEF ProtectSoft, ProtectHard, MoveToBin, Goto

\* The second rename of a replacement failed: nothing but the statement changed.
LEMMA ToRestore ==
    ASSUME ComponentInv, TypeOK', plan' = plan, pc = "land", pc' = "restore",
           UNCHANGED <<phase, kept, swept, status, committed, removed, recovery, file, temp, aside, bin>>
    PROVE  ComponentInv'
<1>1. /\ Encodes' = Encodes /\ Removes' = Removes /\ Accepted' = Accepted
      /\ Current' = Current /\ Targets' = Targets /\ RemovedPaths' = RemovedPaths
      /\ \A i : Target(i)' = Target(i) /\ Replaces(i)' = Replaces(i)
      /\ \A p : Before(p)' = Before(p)
  BY ReadOffPlan DEF Current
<1>2. Checked' /\ Stages'
  BY <1>1 DEF ComponentInv, Checked, Stages, EndPcs
<1>3. TargetsFollow'
  BY <1>1 DEF ComponentInv, TargetsFollow, LandingPcs, EndPcs, Landed
<1>4. OthersFollow' /\ SoftKeeps'
  BY <1>1 DEF ComponentInv, OthersFollow, SoftKeeps
<1>5. StagedFollow'
  BY <1>1 DEF ComponentInv, StagedFollow, LandingPcs
<1>6. AsideFollows'
  BY <1>1 DEF ComponentInv, AsideFollows, EndPcs
<1>7. BinFollows'
  BY <1>1 DEF ComponentInv, BinFollows, LandingPcs
<1>8. Verdict'
  BY <1>1 DEF ComponentInv, Verdict, EndPcs
<1>9. QED
  BY <1>2, <1>3, <1>4, <1>5, <1>6, <1>7, <1>8 DEF ComponentInv

LEMMA LandReplacementPreserves ==
    ASSUME ComponentInv, TypeOK', LandReplacement PROVE ComponentInv'
<1>1. /\ plan' = plan /\ UNCHANGED <<phase, kept, swept, status, removed, aside, bin>>
      /\ pc = "land"
      /\ \/ /\ Land(Current)
            /\ IF plan.soft
               THEN recovery' = recovery \cup {BinOf(kept)} /\ committed' = Current /\ pc' = "commit"
               ELSE pc' = "drop" /\ UNCHANGED <<recovery, committed>>
         \/ pc' = "restore" /\ UNCHANGED <<file, temp, recovery, committed>>
  BY DEF LandReplacement, Goto
<1>2. CASE pc' = "restore" /\ UNCHANGED <<file, temp, recovery, committed>>
  BY <1>1, <1>2, ToRestore
<1>3. ASSUME Land(Current), plan.soft => pc' = "commit" /\ committed' = Current
                                          /\ recovery' = recovery \cup {BinOf(kept)},
             ~plan.soft => pc' = "drop" /\ UNCHANGED <<recovery, committed>>
      PROVE  ComponentInv'
  <2>1. /\ Current \in Encodes /\ Replaces(Current) /\ committed \in Nat /\ swept = 0 /\ removed = 0
        /\ Current = committed + 1 /\ Current <= Len(plan.encodes) /\ Current \in Index
    BY <1>1, Facts DEF ComponentInv, Stages, EndPcs, Current
  <2>2. /\ Accepted
        /\ file' = [file EXCEPT ![Target(Current)] = Output(Current)]
        /\ temp'[Current] = Nothing
        /\ \A i \in Index : i # Current => temp'[i] = temp[i]
        /\ \A i \in Index : phase'[i] # "idle" \/ temp'[i] # Nothing => i \in Encodes
        /\ \A i \in Index : TempOf(i) \notin recovery
    BY <1>1, <1>3, <2>1, LandedOutput
  <2>3. /\ file'[Target(Current)] = Output(Current)
        /\ \A i \in Encodes : i # Current => file'[Target(i)] = file[Target(i)]
        /\ OthersFollow'
    BY <1>1, <2>1, <2>2, OneTargetMoves
  <2>4. /\ Encodes' = Encodes /\ Removes' = Removes /\ Accepted' = Accepted
        /\ \A i : Target(i)' = Target(i) /\ Replaces(i)' = Replaces(i)
        /\ \A p : Before(p)' = Before(p)
    BY <1>1, ReadOffPlan
  <2>5. \A i \in Encodes : i # Current =>
            \/ i <= committed /\ file[Target(i)] = Output(i)
            \/ i > committed /\ file[Target(i)] = Before(Target(i))
    BY <1>1 DEF ComponentInv, TargetsFollow, Landed, LandingPcs, EndPcs
  <2>6. \A i \in Encodes : temp[i] = IF i <= committed THEN Nothing ELSE Output(i)
    BY <1>1 DEF ComponentInv, StagedFollow, LandingPcs
  <2>7. \A i \in Index : ~(i <= swept')
    BY <1>1, <2>1, Facts DEF Index
  <2>8. pc' \in {"commit", "drop"} /\ plan.soft \in BOOLEAN
    BY <1>3, Facts
  <2>9. Checked'
    BY <1>1, <2>2, <2>4, <2>8 DEF ComponentInv, Checked
  <2>10. Verdict'
    BY <1>1, <2>8 DEF ComponentInv, Verdict, EndPcs
  <2>11. CASE plan.soft
    <3>1. pc' = "commit" /\ committed' = Current /\ recovery' = recovery \cup {BinOf(kept)}
      BY <1>3, <2>11
    <3>2. /\ kept \in Name /\ bin[kept] = Audio(Target(Current)) /\ BinOf(kept) \notin recovery
      BY <1>1, <2>11 DEF ComponentInv, BinFollows, LandingPcs
    <3>3. \A x : AsideOf(x) \in recovery' <=> AsideOf(x) \in recovery
      BY <3>1, Names
    <3>4. \A x : TempOf(x) \in recovery' <=> TempOf(x) \in recovery
      BY <3>1, Names
    <3>5. Stages'
      BY <1>1, <2>1, <2>4, <3>1, Facts DEF Stages, EndPcs
    <3>6. TargetsFollow'
      <4> SUFFICES ASSUME NEW i \in Encodes
                   PROVE  \/ i <= committed' /\ file'[Target(i)] = Output(i)
                          \/ i > committed' /\ file'[Target(i)] = Before(Target(i))
        BY <2>4, <3>1 DEF TargetsFollow, Landed
      <4>1. CASE i = Current
        BY <2>1, <2>3, <3>1, <4>1
      <4>2. CASE i # Current
        BY <2>1, <2>3, <2>5, <3>1, <4>2, Facts
      <4>3. QED
        BY <4>1, <4>2
    <3>7. StagedFollow'
      <4>1. \A i \in Encodes : temp'[i] = IF i <= committed' THEN Nothing ELSE Output(i)
        BY <2>1, <2>2, <2>6, <3>1, Facts
      <4>2. QED
        BY <1>1, <2>2, <2>4, <2>7, <3>1, <3>4, <4>1 DEF StagedFollow
    <3>8. AsideFollows'
      BY <1>1, <2>4, <2>11, <3>1, <3>3 DEF ComponentInv, AsideFollows, EndPcs
    <3>9. BinFollows'
      <4>1. \A m \in Name : BinOf(m) \in recovery' <=> BinOf(m) \in recovery \/ m = kept
        BY <3>1, Names
      <4>2. \A m \in Name : BinOf(m) \in recovery' => \E p \in Path : bin[m] = Audio(p)
        BY <2>1, <3>2, <4>1, Facts DEF ComponentInv, BinFollows
      <4>3. \A m \in Name : \A p \in Path : bin[m] = Audio(p) => BinOf(m) \in recovery'
        BY <4>1 DEF ComponentInv, BinFollows
      <4>4. QED
        BY <1>1, <3>1, <4>2, <4>3 DEF BinFollows, LandingPcs
    <3>10. SoftKeeps'
      <4>1. \A i \in Encodes : i <= committed' => i <= committed \/ i = Current
        BY <2>1, <3>1, Facts
      <4>2. BinOf(kept) \in recovery' /\ recovery \subseteq recovery'
        BY <3>1
      <4>3. QED
        BY <1>1, <2>4, <2>11, <3>2, <4>1, <4>2 DEF ComponentInv, SoftKeeps
    <3>11. QED
      BY <2>3, <2>9, <2>10, <3>5, <3>6, <3>7, <3>8, <3>9, <3>10 DEF ComponentInv
  <2>12. CASE ~plan.soft
    <3>1. pc' = "drop" /\ UNCHANGED <<recovery, committed>> /\ Current' = Current
      BY <1>3, <2>12 DEF Current
    <3>2. Stages'
      BY <1>1, <2>1, <2>4, <3>1, Facts DEF Stages, EndPcs
    <3>3. TargetsFollow'
      <4> SUFFICES ASSUME NEW i \in Encodes
                   PROVE  \/ i <= committed /\ file'[Target(i)] = Output(i)
                          \/ i > committed /\ file'[Target(i)] = Before(Target(i)) /\ i # Current
                          \/ i = Current /\ file'[Target(i)] = Output(i)
        BY <2>4, <3>1 DEF TargetsFollow, Landed
      <4>1. CASE i = Current
        BY <2>3, <4>1
      <4>2. CASE i # Current
        BY <2>3, <2>5, <4>2
      <4>3. QED
        BY <4>1, <4>2
    <3>4. StagedFollow'
      <4>1. \A i \in Encodes : temp'[i] = IF i <= committed \/ i = Current THEN Nothing ELSE Output(i)
        BY <2>1, <2>2, <2>6, Facts
      <4>2. QED
        BY <1>1, <2>2, <2>4, <2>7, <3>1, <4>1 DEF StagedFollow
    <3>5. AsideFollows'
      BY <1>1, <2>4, <3>1 DEF ComponentInv, AsideFollows, EndPcs
    <3>6. BinFollows'
      BY <1>1, <2>12, <3>1 DEF ComponentInv, BinFollows, LandingPcs
    <3>7. SoftKeeps'
      BY <1>1, <2>12 DEF SoftKeeps
    <3>8. QED
      BY <2>3, <2>9, <2>10, <3>2, <3>3, <3>4, <3>5, <3>6, <3>7 DEF ComponentInv
  <2>13. QED
    BY <2>8, <2>11, <2>12
<1>4. QED
  BY <1>1, <1>2, <1>3

LEMMA DropAsidePreserves == ASSUME ComponentInv, TypeOK', DropAside PROVE ComponentInv'
<1>1. /\ plan' = plan /\ UNCHANGED <<phase, kept, swept, removed, file, temp, bin>>
      /\ pc = "drop" /\ committed' = Current
      /\ \/ aside' = [aside EXCEPT ![Current] = Nothing] /\ pc' = "commit" /\ UNCHANGED <<recovery, status>>
         \/ /\ recovery' = recovery \cup {AsideOf(Current)} /\ pc' = "clean" /\ status' = "failed"
            /\ aside' = aside
  BY DEF DropAside, StopAs, Goto
<1>2. /\ Current \in Encodes /\ Replaces(Current) /\ committed \in Nat /\ swept = 0 /\ removed = 0
      /\ Current = committed + 1 /\ Current <= Len(plan.encodes) /\ Current \in Index
      /\ Accepted /\ ~plan.soft
  BY <1>1, Facts DEF ComponentInv, Stages, EndPcs, Current, Checked, BinFollows
<1>3. /\ Encodes' = Encodes /\ Removes' = Removes /\ Accepted' = Accepted
      /\ \A i : Target(i)' = Target(i) /\ Replaces(i)' = Replaces(i)
      /\ \A p : Before(p)' = Before(p)
      /\ Targets' = Targets /\ RemovedPaths' = RemovedPaths
  BY <1>1, ReadOffPlan
<1>4. /\ \A i \in Index : AsideOf(i) \notin recovery
      /\ \A i \in Index : i # Current => aside[i] = Nothing
      /\ aside[Current] = Audio(Target(Current))
  BY <1>1, <1>2 DEF ComponentInv, AsideFollows, EndPcs
<1>5. Checked' /\ Stages'
  BY <1>1, <1>2, <1>3, Facts DEF ComponentInv, Checked, Stages, EndPcs
<1>6. TargetsFollow'
  <2> SUFFICES ASSUME NEW i \in Encodes
               PROVE  \/ i <= committed' /\ file[Target(i)] = Output(i)
                      \/ i > committed' /\ file[Target(i)] = Before(Target(i))
    BY <1>1, <1>3 DEF TargetsFollow, Landed
  <2>1. \/ i <= committed /\ file[Target(i)] = Output(i)
        \/ i > committed /\ file[Target(i)] = Before(Target(i)) /\ i # Current
        \/ i = Current /\ file[Target(i)] = Output(i)
    BY <1>1 DEF ComponentInv, TargetsFollow, Landed, LandingPcs, EndPcs
  <2>2. QED
    BY <1>1, <1>2, <2>1, Facts
<1>7. OthersFollow' /\ SoftKeeps'
  BY <1>1, <1>2, <1>3 DEF ComponentInv, OthersFollow, SoftKeeps
<1>8. StagedFollow'
  <2>1. \A i \in Encodes : temp[i] = IF i <= committed' THEN Nothing ELSE Output(i)
    <3>1. \A i \in Encodes : temp[i] = IF i <= committed \/ i = Current THEN Nothing ELSE Output(i)
      BY <1>1 DEF ComponentInv, StagedFollow
    <3>2. QED
      BY <1>1, <1>2, <3>1, Facts
  <2>2. \A x : TempOf(x) \in recovery' <=> TempOf(x) \in recovery
    BY <1>1, Names
  <2>3. QED
    BY <1>1, <1>3, <2>1, <2>2 DEF ComponentInv, StagedFollow, LandingPcs
<1>9. AsideFollows'
  <2>1. CASE aside' = [aside EXCEPT ![Current] = Nothing] /\ pc' = "commit" /\ recovery' = recovery
    <3>1. \A i \in Index : aside'[i] = Nothing
      BY <1>2, <1>4, <2>1, Facts
    <3>2. QED
      BY <1>4, <2>1, <3>1 DEF AsideFollows
  <2>2. CASE recovery' = recovery \cup {AsideOf(Current)} /\ pc' = "clean" /\ aside' = aside
    <3>1. \A i \in Index : AsideOf(i) \in recovery' <=> i = Current
      BY <1>4, <2>2, Names
    <3>2. QED
      BY <1>1, <1>2, <1>3, <1>4, <2>2, <3>1, Tags DEF AsideFollows, EndPcs
  <2>3. QED
    BY <1>1, <2>1, <2>2
<1>10. BinFollows'
  <2>1. \A x : BinOf(x) \in recovery' <=> BinOf(x) \in recovery
    BY <1>1, Names
  <2>2. QED
    BY <1>1, <2>1 DEF ComponentInv, BinFollows, LandingPcs
<1>11. Verdict'
  <2>1. status = "none"
    BY <1>1 DEF ComponentInv, Verdict, EndPcs
  <2>2. QED
    BY <1>1, <1>2, <1>3, <1>4, <2>1, Tags DEF Verdict, EndPcs
<1>12. QED
  BY <1>5, <1>6, <1>7, <1>8, <1>9, <1>10, <1>11 DEF ComponentInv

LEMMA RestorePreserves == ASSUME ComponentInv, TypeOK', Restore PROVE ComponentInv'
<1>1. /\ plan' = plan /\ UNCHANGED <<phase, kept, swept, committed, removed, temp>>
      /\ pc = "restore" /\ pc' = "clean" /\ status' = "failed"
      /\ \/ /\ plan.soft /\ aside' = aside
            /\ \/ /\ file' = [file EXCEPT ![Target(Current)] = bin[kept]]
                  /\ bin' = [bin EXCEPT ![kept] = Nothing]
                  /\ recovery' = recovery
               \/ recovery' = recovery \cup {BinOf(kept)} /\ UNCHANGED <<file, bin>>
         \/ /\ ~plan.soft /\ bin' = bin
            /\ \/ /\ file' = [file EXCEPT ![Target(Current)] = aside[Current]]
                  /\ aside' = [aside EXCEPT ![Current] = Nothing]
                  /\ recovery' = recovery
               \/ recovery' = recovery \cup {AsideOf(Current)} /\ UNCHANGED <<file, aside>>
  BY DEF Restore, StopAs, Goto
<1>2. /\ Current \in Encodes /\ Replaces(Current) /\ committed \in Nat /\ swept = 0 /\ removed = 0
      /\ Current = committed + 1 /\ Current <= Len(plan.encodes) /\ Current \in Index
      /\ Accepted /\ Target(Current) \in Path
  BY <1>1, Facts DEF ComponentInv, Stages, EndPcs, Current, Checked
<1>3. /\ Encodes' = Encodes /\ Removes' = Removes /\ Accepted' = Accepted
      /\ \A i : Target(i)' = Target(i) /\ Replaces(i)' = Replaces(i)
      /\ \A p : Before(p)' = Before(p)
      /\ Targets' = Targets /\ RemovedPaths' = RemovedPaths /\ Current' = Current
  BY <1>1, ReadOffPlan DEF Current
<1>4. Before(Target(Current)) = Audio(Target(Current)) /\ file[Target(Current)] = Nothing
  <2>1. Before(Target(Current)) = Audio(Target(Current))
    BY <1>2, AcceptedPlan
  <2>2. QED
    BY <1>1, <1>2, <2>1, Facts DEF ComponentInv, TargetsFollow, EndPcs
<1>5. plan.soft => /\ kept \in Name /\ bin[kept] = Audio(Target(Current))
                   /\ BinOf(kept) \notin recovery
  BY <1>1 DEF ComponentInv, BinFollows, LandingPcs
<1>6. ~plan.soft => aside[Current] = Audio(Target(Current))
  BY <1>1, <1>2 DEF ComponentInv, AsideFollows
<1>7. /\ \A i \in Index : AsideOf(i) \notin recovery
      /\ \A i \in Index : (i # Current \/ plan.soft) => aside[i] = Nothing
  BY <1>1 DEF ComponentInv, AsideFollows, EndPcs
<1>8. \A m \in Name : \A p \in Path : bin[m] = Audio(p) =>
           BinOf(m) \in recovery \/ (plan.soft /\ m = kept)
  BY DEF ComponentInv, BinFollows
<1>9. Checked' /\ Stages'
  BY <1>1, <1>2, <1>3, Facts DEF ComponentInv, Checked, Stages, EndPcs
<1>10. Verdict'
  BY <1>1, <1>2, <1>3 DEF Verdict, EndPcs
<1>11. StagedFollow'
  <2>1. \A x : TempOf(x) \in recovery' <=> TempOf(x) \in recovery
    BY <1>1, Names
  <2>2. QED
    BY <1>1, <1>3, <2>1 DEF ComponentInv, StagedFollow, LandingPcs
<1>12. \A i \in Encodes : i # Current =>
            \/ i <= committed /\ file[Target(i)] = Output(i)
            \/ i > committed /\ file[Target(i)] = Before(Target(i))
  BY <1>1 DEF ComponentInv, TargetsFollow, Landed, LandingPcs, EndPcs
<1>13. CASE file' = [file EXCEPT ![Target(Current)] = Audio(Target(Current))]
  <2>1. /\ file'[Target(Current)] = Audio(Target(Current))
        /\ \A i \in Encodes : i # Current => file'[Target(i)] = file[Target(i)]
        /\ OthersFollow'
    BY <1>1, <1>2, <1>13, OneTargetMoves
  <2>2. TargetsFollow'
    <3> SUFFICES ASSUME NEW i \in Encodes
                 PROVE  \/ i <= committed /\ file'[Target(i)] = Output(i)
                        \/ i > committed /\ file'[Target(i)] = Before(Target(i))
      BY <1>1, <1>3 DEF TargetsFollow, Landed
    <3>1. CASE i = Current
      BY <1>2, <1>4, <2>1, <3>1
    <3>2. CASE i # Current
      BY <1>12, <2>1, <3>2
    <3>3. QED
      BY <3>1, <3>2
  <2>3. recovery' = recovery
    <3>1. file' # file
      BY <1>4, <2>1, Tags
    <3>2. QED
      BY <1>1, <3>1
  <2>4. AsideFollows'
    <3>1. \A i \in Index : aside'[i] = Nothing
      <4>1. file' # file
        BY <1>4, <2>1, Tags
      <4>2. QED
        BY <1>1, <1>2, <1>7, <4>1, Facts
    <3>2. QED
      BY <1>1, <1>7, <2>3, <3>1 DEF AsideFollows
  <2>5. CASE plan.soft
    <3>1. bin' = [bin EXCEPT ![kept] = Nothing]
      <4>1. file' # file
        BY <1>4, <2>1, Tags
      <4>2. QED
        BY <1>1, <2>5, <4>1
    <3>2. bin'[kept] = Nothing /\ \A m \in Name : m # kept => bin'[m] = bin[m]
      BY <1>5, <2>5, <3>1, Facts
    <3>3. BinFollows'
      <4>1. \A m \in Name : BinOf(m) \in recovery => \E p \in Path : bin'[m] = Audio(p)
        BY <1>5, <2>5, <3>2 DEF ComponentInv, BinFollows
      <4>2. \A m \in Name : \A p \in Path : bin'[m] = Audio(p) => BinOf(m) \in recovery
        BY <1>8, <3>2, Tags
      <4>3. QED
        BY <1>1, <2>3, <4>1, <4>2 DEF BinFollows, LandingPcs
    <3>4. SoftKeeps'
      <4>1. \A m \in Name : BinOf(m) \in recovery => bin'[m] = bin[m]
        BY <1>5, <2>5, <3>2
      <4>2. QED
        BY <1>1, <1>3, <2>3, <4>1 DEF ComponentInv, SoftKeeps
    <3>5. QED
      BY <1>9, <1>10, <1>11, <2>1, <2>2, <2>4, <3>3, <3>4 DEF ComponentInv
  <2>6. CASE ~plan.soft
    <3>1. bin' = bin
      BY <1>1, <2>6
    <3>2. BinFollows' /\ SoftKeeps'
      BY <1>1, <1>8, <2>3, <2>6, <3>1 DEF ComponentInv, BinFollows, SoftKeeps, LandingPcs
    <3>3. QED
      BY <1>9, <1>10, <1>11, <2>1, <2>2, <2>4, <3>2 DEF ComponentInv
  <2>7. QED
    BY <2>5, <2>6
<1>14. CASE file' = file /\ bin' = bin /\ aside' = aside
            /\ recovery' = recovery \cup {IF plan.soft THEN BinOf(kept) ELSE AsideOf(Current)}
  <2>1. ASSUME NEW i \in Encodes, i = Current
        PROVE  Stranded(i)'
    <3>1. CASE plan.soft
      BY <1>3, <1>4, <1>5, <1>14, <2>1, <3>1 DEF Stranded
    <3>2. CASE ~plan.soft
      BY <1>3, <1>4, <1>6, <1>14, <2>1, <3>2 DEF Stranded
    <3>3. QED
      BY <3>1, <3>2
  <2>2. TargetsFollow'
    <3> SUFFICES ASSUME NEW i \in Encodes
                 PROVE  \/ i <= committed /\ file[Target(i)] = Output(i)
                        \/ i > committed /\ file[Target(i)] = Before(Target(i))
                        \/ i = Current /\ Stranded(i)'
      BY <1>1, <1>3, <1>14 DEF TargetsFollow, Landed, EndPcs
    <3>1. QED
      BY <1>12, <2>1
  <2>3. OthersFollow'
    BY <1>1, <1>3, <1>14 DEF ComponentInv, OthersFollow
  <2>4. \A i \in Index : AsideOf(i) \in recovery' <=> (i = Current /\ ~plan.soft)
    BY <1>7, <1>14, Names
  <2>5. \A m \in Name : BinOf(m) \in recovery' <=> BinOf(m) \in recovery \/ (plan.soft /\ m = kept)
    BY <1>14, Names
  <2>6. AsideFollows'
    BY <1>1, <1>2, <1>3, <1>6, <1>7, <1>14, <2>4, Tags DEF AsideFollows, EndPcs
  <2>7. BinFollows'
    <3>1. \A m \in Name : BinOf(m) \in recovery' => \E p \in Path : bin[m] = Audio(p)
      BY <1>2, <1>5, <2>5 DEF ComponentInv, BinFollows
    <3>2. \A m \in Name : \A p \in Path : bin[m] = Audio(p) => BinOf(m) \in recovery'
      BY <1>8, <2>5
    <3>3. QED
      BY <1>1, <1>14, <3>1, <3>2 DEF BinFollows, LandingPcs
  <2>8. SoftKeeps'
    BY <1>1, <1>3, <1>14 DEF ComponentInv, SoftKeeps
  <2>9. QED
    BY <1>9, <1>10, <1>11, <2>2, <2>3, <2>6, <2>7, <2>8 DEF ComponentInv
<1>15. QED
  BY <1>1, <1>5, <1>6, <1>13, <1>14

LEMMA RemoveObsoletePreserves == ASSUME ComponentInv, TypeOK', RemoveObsolete PROVE ComponentInv'
<1>1. /\ plan' = plan /\ UNCHANGED <<phase, kept, swept, committed, temp, aside>>
      /\ pc = "remove" /\ removed < Len(plan.removes)
      /\ \/ /\ plan.soft /\ \E n \in Name : MoveToBin(Obsolete, n) /\ recovery' = recovery \cup {BinOf(n)}
            /\ removed' = removed + 1 /\ UNCHANGED <<pc, status>>
         \/ /\ ~plan.soft /\ file' = [file EXCEPT ![Obsolete] = Nothing]
            /\ removed' = removed + 1 /\ UNCHANGED <<pc, status, recovery, bin>>
         \/ StopAs("failed") /\ UNCHANGED <<removed, recovery, file, bin>>
  BY DEF RemoveObsolete
<1>2. CASE StopAs("failed") /\ UNCHANGED <<removed, recovery, file, bin>>
  BY <1>1, <1>2, StopPreserves DEF StopAs, Goto, disk
<1>3. /\ Encodes' = Encodes /\ Removes' = Removes /\ Accepted' = Accepted
      /\ \A i : Target(i)' = Target(i) /\ Replaces(i)' = Replaces(i)
      /\ \A p : Before(p)' = Before(p)
      /\ Targets' = Targets /\ RemovedPaths' = RemovedPaths /\ Current' = Current
  BY <1>1, ReadOffPlan DEF Current
<1>4. /\ Accepted /\ committed = Len(plan.encodes) /\ removed + 1 \in Removes /\ removed \in Nat
      /\ swept = 0 /\ Obsolete \in Path /\ Obsolete = plan.removes[removed + 1]
  BY <1>1, Facts DEF ComponentInv, Stages, Checked, EndPcs, Obsolete
<1>5. /\ \A k \in Removes : k # removed + 1 => plan.removes[k] # Obsolete
      /\ \A i \in Encodes : Target(i) # Obsolete
      /\ Before(Obsolete) = Audio(Obsolete) /\ Obsolete \in RemovedPaths
  BY <1>4, AcceptedPlan
<1>6. file[Obsolete] = Audio(Obsolete)
  BY <1>4, <1>5 DEF ComponentInv, OthersFollow
<1>7. ASSUME file' = [file EXCEPT ![Obsolete] = Nothing], removed' = removed + 1,
             pc' = pc, status' = status,
             \A x : /\ (AsideOf(x) \in recovery' <=> AsideOf(x) \in recovery)
                    /\ (TempOf(x) \in recovery' <=> TempOf(x) \in recovery),
             BinFollows', SoftKeeps'
      PROVE  ComponentInv'
  <2>1. file'[Obsolete] = Nothing /\ \A p \in Path : p # Obsolete => file'[p] = file[p]
    BY <1>4, <1>7, Facts
  <2>2. Checked' /\ Stages'
    BY <1>1, <1>3, <1>4, <1>7, Facts DEF Checked, Stages, EndPcs, ComponentInv
  <2>3. TargetsFollow'
    <3>1. \A i \in Encodes : file'[Target(i)] = file[Target(i)]
      BY <1>5, <2>1, Facts
    <3>2. QED
      BY <1>1, <1>3, <1>7, <3>1 DEF ComponentInv, TargetsFollow, Landed, LandingPcs, EndPcs
  <2>4. OthersFollow'
    <3>1. ASSUME NEW k \in Removes
          PROVE  file'[plan.removes[k]] = IF k <= removed' THEN Nothing ELSE Before(plan.removes[k])
      <4>1. k \in Nat /\ (k <= removed' <=> k <= removed \/ k = removed + 1)
        BY <1>4, <1>7, Facts
      <4>2. CASE k = removed + 1
        BY <1>4, <2>1, <4>1, <4>2
      <4>3. CASE k # removed + 1
        BY <1>5, <2>1, <4>1, <4>3, Facts DEF ComponentInv, OthersFollow
      <4>4. QED
        BY <4>2, <4>3
    <3>2. QED
      BY <1>1, <1>3, <1>5, <2>1, <3>1 DEF ComponentInv, OthersFollow
  <2>5. StagedFollow'
    BY <1>1, <1>3, <1>7 DEF ComponentInv, StagedFollow
  <2>6. AsideFollows'
    BY <1>1, <1>3, <1>7 DEF ComponentInv, AsideFollows, EndPcs
  <2>7. Verdict'
    BY <1>1, <1>7 DEF ComponentInv, Verdict, EndPcs
  <2>8. QED
    BY <1>7, <2>2, <2>3, <2>4, <2>5, <2>6, <2>7 DEF ComponentInv
<1>8. ASSUME plan.soft, NEW n \in Name, MoveToBin(Obsolete, n), recovery' = recovery \cup {BinOf(n)},
             removed' = removed + 1, pc' = pc, status' = status
      PROVE  ComponentInv'
  <2>1. /\ bin[n] = Nothing /\ bin' = [bin EXCEPT ![n] = Audio(Obsolete)]
        /\ file' = [file EXCEPT ![Obsolete] = Nothing]
    BY <1>6, <1>8, FindsName DEF MoveToBin
  <2>2. bin'[n] = Audio(Obsolete) /\ \A m \in Name : m # n => bin'[m] = bin[m]
    BY <2>1, Facts
  <2>3. \A m \in Name : BinOf(m) \in recovery' <=> BinOf(m) \in recovery \/ m = n
    BY <1>8, Names
  <2>4. BinFollows'
    <3>1. \A m \in Name : BinOf(m) \in recovery' => \E p \in Path : bin'[m] = Audio(p)
      BY <1>4, <2>2, <2>3 DEF ComponentInv, BinFollows
    <3>2. \A m \in Name : \A p \in Path : bin'[m] = Audio(p) => BinOf(m) \in recovery'
      BY <1>1, <2>2, <2>3 DEF ComponentInv, BinFollows, LandingPcs
    <3>3. QED
      BY <1>1, <1>8, <3>1, <3>2 DEF BinFollows, LandingPcs
  <2>5. SoftKeeps'
    <3>1. \A m \in Name : \A p : bin[m] = Audio(p) => bin'[m] = Audio(p)
      BY <2>1, <2>2, Tags
    <3>2. \A i \in Encodes : i <= committed' /\ Replaces(i) =>
             \E m \in Name : bin'[m] = Audio(Target(i)) /\ BinOf(m) \in recovery'
      BY <1>1, <1>8, <3>1 DEF ComponentInv, SoftKeeps
    <3>3. ASSUME NEW k \in Removes, k <= removed'
          PROVE  \E m \in Name : bin'[m] = Audio(plan.removes[k]) /\ BinOf(m) \in recovery'
      <4>1. CASE k = removed + 1
        BY <1>4, <2>2, <2>3, <4>1
      <4>2. CASE k # removed + 1
        <5>1. k <= removed
          BY <1>4, <1>8, <3>3, <4>2, Facts
        <5>2. QED
          BY <1>8, <3>1, <5>1 DEF ComponentInv, SoftKeeps
      <4>3. QED
        BY <4>1, <4>2
    <3>4. QED
      BY <1>1, <1>3, <3>2, <3>3 DEF SoftKeeps
  <2>6. QED
    BY <1>7, <1>8, <2>1, <2>4, <2>5, Names
<1>9. ASSUME ~plan.soft, file' = [file EXCEPT ![Obsolete] = Nothing], removed' = removed + 1,
             UNCHANGED <<pc, status, recovery, bin>>
      PROVE  ComponentInv'
  <2>1. BinFollows' /\ SoftKeeps'
    BY <1>1, <1>9 DEF ComponentInv, BinFollows, SoftKeeps, LandingPcs
  <2>2. QED
    BY <1>7, <1>9, <2>1
<1>10. QED
  BY <1>1, <1>2, <1>8, <1>9

-----------------------------------------------------------------------------
(* The theorems.                                                           *)

LEMMA InvStarts == Init => ComponentInv
<1> SUFFICES ASSUME Init
             PROVE  ComponentInv
  OBVIOUS
<1>1. plan \in Plans /\ plan \in PlanType /\ MaxEncodes \in Nat /\ NoName \notin Name
  BY ComponentAssumption DEF Init
<1>2. TypeOK
  <2>1. Nothing \in Content /\ Earlier \in Content /\ \A p \in Path : Before(p) \in Content
    BY Contents
  <2>2. plan.encodes \in Seq([source : Path, target : Path]) /\ plan.removes \in Seq(Path)
    BY <1>1 DEF PlanType
  <2>3. Len(plan.encodes) \in Nat /\ Len(plan.removes) \in Nat
    BY <2>2
  <2>4. /\ committed \in 0 .. Len(plan.encodes) /\ removed \in 0 .. Len(plan.removes)
        /\ swept \in 0 .. MaxEncodes
    BY <1>1, <2>3 DEF Init
  <2>5. QED
    BY <1>1, <2>1, <2>4 DEF Init, TypeOK, PcValues, StatusValues
<1>3. /\ MaxEncodes \in Nat /\ Len(plan.encodes) \in Nat /\ Len(plan.removes) \in Nat
      /\ Encodes = 1 .. Len(plan.encodes) /\ Encodes \subseteq Index
      /\ Removes = 1 .. Len(plan.removes)
      /\ \A i \in Encodes : Target(i) \in Path
      /\ \A k \in Removes : plan.removes[k] \in Path
  BY <1>1, <1>2, Shapes
<1>4. /\ pc = "prepare" /\ status = "none" /\ recovery = {}
      /\ committed = 0 /\ removed = 0 /\ swept = 0
      /\ phase = [i \in Index |-> "idle"]
      /\ \A p \in Path : file[p] = Before(p)
      /\ \A i \in Index : temp[i] = Nothing /\ aside[i] = Nothing
      /\ \A n \in Name : bin[n] = IF n \in plan.taken THEN Earlier ELSE Nothing
  BY DEF Init
<1>5. Checked /\ Stages
  BY <1>1, <1>3, <1>4 DEF Checked, Untouched, Stages, EndPcs
<1>6. TargetsFollow /\ OthersFollow
  BY <1>3, <1>4 DEF TargetsFollow, OthersFollow
<1>7. StagedFollow
  BY <1>3, <1>4 DEF StagedFollow, LandingPcs, Index
<1>8. AsideFollows /\ Verdict
  BY <1>4 DEF AsideFollows, Verdict, EndPcs
<1>9. BinFollows /\ SoftKeeps
  BY <1>3, <1>4, Tags DEF BinFollows, SoftKeeps, LandingPcs
<1>10. QED
  BY <1>2, <1>5, <1>6, <1>7, <1>8, <1>9 DEF ComponentInv

LEMMA InvStays == ComponentInv /\ [Next]_vars => ComponentInv'
<1>1. ASSUME ComponentInv, Next
      PROVE  ComponentInv'
  <2>1. TypeOK'
    BY <1>1, TypesStay
  <2>2. CASE Prepare
    BY <1>1, <2>1, <2>2, PreparePreserves
  <2>3. CASE Discard
    BY <1>1, <2>1, <2>3, DiscardPreserves
  <2>4. CASE Validate
    BY <1>1, <2>1, <2>4, ValidatePreserves
  <2>5. ASSUME NEW i \in Index, StartEncode(i)
        PROVE  ComponentInv'
    BY <1>1, <2>1, <2>5, StartEncodePreserves
  <2>6. ASSUME NEW i \in Index, EndEncode(i)
        PROVE  ComponentInv'
    BY <1>1, <2>1, <2>6, EndEncodePreserves
  <2>7. CASE CommitFresh
    BY <1>1, <2>1, <2>7, CommitFreshPreserves
  <2>8. CASE Protect
    BY <1>1, <2>1, <2>8, ProtectPreserves
  <2>9. CASE LandReplacement
    BY <1>1, <2>1, <2>9, LandReplacementPreserves
  <2>10. CASE Restore
    BY <1>1, <2>1, <2>10, RestorePreserves
  <2>11. CASE DropAside
    BY <1>1, <2>1, <2>11, DropAsidePreserves
  <2>12. CASE AllCommitted
    BY <1>1, <2>1, <2>12, AllCommittedPreserves
  <2>13. CASE RemoveObsolete
    BY <1>1, <2>1, <2>13, RemoveObsoletePreserves
  <2>14. CASE Succeed
    BY <1>1, <2>1, <2>14, SucceedPreserves
  <2>15. CASE StopBetween
    <3>1. /\ plan' = plan /\ UNCHANGED <<phase, committed, removed, swept, recovery, disk>>
          /\ pc \in {"commit", "remove"} /\ pc' = "clean" /\ status' = "canceled"
          /\ committed < Len(plan.encodes) \/ removed < Len(plan.removes)
      BY <2>15 DEF StopBetween, StopAs, Goto
    <3>2. QED
      BY <1>1, <2>1, <3>1, StopPreserves
  <2>16. CASE CleanTemp
    BY <1>1, <2>1, <2>16, CleanTempPreserves
  <2>17. CASE Cleaned
    BY <1>1, <2>1, <2>17, CleanedPreserves
  <2>18. CASE Cancel
    BY <1>1, <2>1, <2>18, CancelPreserves DEF Cancel
  <2>19. QED
    BY <1>1, <2>2, <2>3, <2>4, <2>5, <2>6, <2>7, <2>8, <2>9, <2>10, <2>11, <2>12, <2>13,
       <2>14, <2>15, <2>16, <2>17, <2>18 DEF Next
<1>2. ASSUME ComponentInv, UNCHANGED vars
      PROVE  ComponentInv'
  <2>1. TypeOK'
    BY <1>2 DEF vars, result, disk, ComponentInv, TypeOK
  <2>2. QED
    BY <1>2, <2>1, CancelPreserves DEF vars
<1>3. QED
  BY <1>1, <1>2

\* The invariant of a run: every content is where the statement that is next
\* expects it, and the report names what will stay (Commit, cleanupTemps).
THEOREM ComponentInvariant == Spec => []ComponentInv
BY InvStarts, InvStays, PTL DEF Spec

\* Every variable of a run keeps its shape: counts stay within the plan, and a
\* replacement under way has a target and a recovery name.
THEOREM ComponentTypeCorrect == Spec => []TypeOK
<1>1. ComponentInv => TypeOK
  BY DEF ComponentInv
<1>2. QED
  BY <1>1, ComponentInvariant, PTL

\* Audio that was on disk is still on disk, in every state and so after a crash,
\* unless hard mode gave it up behind its landed replacement (RunComponent).
THEOREM AudioAlwaysSurvives == Spec => []AudioSurvives
<1>1. ComponentInv => AudioSurvives
  <2> SUFFICES ASSUME ComponentInv, NEW p \in Path, Before(p) = Audio(p)
               PROVE  \/ Kept(p)
                      \/ ~plan.soft /\ \E i \in Encodes : Target(i) = p /\ Landed(i)
                      \/ ~plan.soft /\ p \in RemovedPaths /\ AllLanded
    BY DEF AudioSurvives
  <2>1. CASE Untouched
    BY <2>1 DEF Untouched, Kept
  <2>2. CASE Accepted
    <3>1. CASE p \notin Targets \cup RemovedPaths
      BY <3>1 DEF ComponentInv, OthersFollow, Kept
    <3>2. ASSUME NEW k \in Removes, p = plan.removes[k]
          PROVE  \/ Kept(p)
                 \/ ~plan.soft /\ p \in RemovedPaths /\ AllLanded
      <4>1. CASE k > removed
        BY <3>2, <4>1, Facts DEF ComponentInv, OthersFollow, Kept
      <4>2. CASE k <= removed /\ plan.soft
        BY <3>2, <4>2 DEF ComponentInv, SoftKeeps, Kept
      <4>3. CASE k <= removed /\ ~plan.soft
        <5>1. removed > 0
          BY <4>3, Facts
        <5>2. committed = Len(plan.encodes) /\ pc \in {"remove"} \cup EndPcs
          BY <5>1 DEF ComponentInv, Stages
        <5>3. AllLanded
          BY <5>2, Facts DEF ComponentInv, TargetsFollow, AllLanded, EndPcs, LandingPcs, Current
        <5>4. p \in RemovedPaths
          BY <3>2 DEF RemovedPaths
        <5>5. QED
          BY <4>3, <5>3, <5>4
      <4>4. QED
        BY <4>1, <4>2, <4>3, Facts
    <3>3. ASSUME NEW i \in Encodes, p = Target(i)
          PROVE  \/ Kept(p)
                 \/ ~plan.soft /\ Landed(i)
      <4>1. Replaces(i)
        BY <2>2, <3>3, AcceptedPlan, Tags
      <4>2. CASE i <= committed /\ Landed(i)
        BY <3>3, <4>1, <4>2, Facts DEF ComponentInv, SoftKeeps, Kept
      <4>3. CASE file[Target(i)] = Before(Target(i))
        BY <3>3, <4>3 DEF Kept
      <4>4. CASE i = Current /\ pc \in LandingPcs
        <5>1. CASE plan.soft
          BY <3>3, <4>4, <5>1 DEF ComponentInv, BinFollows, Kept
        <5>2. CASE ~plan.soft
          <6>1. aside[i] = Audio(Target(i))
            BY <4>4, <5>2, Facts DEF ComponentInv, AsideFollows, LandingPcs
          <6>2. QED
            BY <3>3, <6>1 DEF Kept
        <5>3. QED
          BY <5>1, <5>2
      <4>5. CASE pc = "drop" /\ Landed(i)
        BY <4>5 DEF ComponentInv, BinFollows
      <4>6. CASE Stranded(i)
        BY <3>3, <4>6 DEF Stranded, Kept
      <4>7. QED
        BY <4>2, <4>3, <4>4, <4>5, <4>6 DEF ComponentInv, TargetsFollow
    <3>4. p \in Targets \cup RemovedPaths =>
            (\E i \in Encodes : p = Target(i)) \/ \E k \in Removes : p = plan.removes[k]
      BY DEF Targets, RemovedPaths
    <3>5. QED
      BY <3>1, <3>2, <3>3, <3>4
  <2>3. QED
    BY <2>1, <2>2 DEF ComponentInv, Checked
<1>2. QED
  BY <1>1, ComponentInvariant, PTL

\* A recovery file is never overwritten, and disappears only into the place it
\* was taken from (softRemove, uniqueRecoveryPath, commitOutput).
THEOREM RecoveryAlwaysKept == Spec => RecoveryKept
<1> DEFINE Keeps == \A n \in Name : bin[n] # Nothing =>
          \/ bin'[n] = bin[n]
          \/ bin'[n] = Nothing /\ \E p \in Path : bin[n] = Audio(p) /\ file'[p] = Audio(p)
<1>1. ASSUME ComponentInv, NEW p, NEW n \in Name, MoveToBin(p, n)
      PROVE  Keeps
  BY <1>1, FindsName, Facts DEF MoveToBin
<1>2. ASSUME ComponentInv, Restore
      PROVE  Keeps
  <2>1. CASE bin' = bin
    BY <2>1
  <2>2. CASE /\ plan.soft /\ file' = [file EXCEPT ![Target(Current)] = bin[kept]]
             /\ bin' = [bin EXCEPT ![kept] = Nothing]
    <3>1. kept \in Name /\ bin[kept] = Audio(Target(Current)) /\ Target(Current) \in Path
      BY <1>2, <2>2, Facts DEF ComponentInv, BinFollows, Stages, LandingPcs, Restore
    <3>2. bin'[kept] = Nothing /\ \A n \in Name : n # kept => bin'[n] = bin[n]
      BY <1>2, <2>2, <3>1, Facts
    <3>3. file'[Target(Current)] = Audio(Target(Current))
      BY <1>2, <2>2, <3>1, Facts
    <3>4. QED
      BY <3>1, <3>2, <3>3
  <2>3. QED
    BY <1>2, <2>1, <2>2 DEF Restore
<1>3. ASSUME ComponentInv, [Next]_vars
      PROVE  Keeps
  <2>1. CASE bin' = bin
    BY <2>1
  <2>2. CASE Protect
    BY <1>1, <1>3, <2>1, <2>2 DEF Protect, ProtectSoft, ProtectHard
  <2>3. CASE RemoveObsolete
    BY <1>1, <1>3, <2>1, <2>3 DEF RemoveObsolete
  <2>4. CASE Restore
    BY <1>2, <1>3, <2>4
  <2>5. Protect \/ RemoveObsolete \/ Restore \/ bin' = bin
    BY <1>3 DEF Next, vars, disk, Prepare, Discard, Validate, StartEncode, EndEncode,
       CommitFresh, LandReplacement, DropAside, AllCommitted, Succeed, StopBetween,
       CleanTemp, Cleaned, Cancel
  <2>6. QED
    BY <2>1, <2>2, <2>3, <2>4, <2>5
<1>4. ComponentInv /\ [Next]_vars => [Keeps]_vars
  BY <1>3
<1>5. QED
  BY <1>4, ComponentInvariant, PTL DEF Spec, RecoveryKept

\* The report of a run that ended is what happened, however it was stopped
\* (ComponentRunResult, remainingOps, cleanupTemps).
THEOREM RunIsAlwaysReported == Spec => []RunIsReported
<1>1. ASSUME ComponentInv, pc = "ended"
      PROVE  RunIsReported
  <2>1. ReportAgrees
    <3>1. ASSUME NEW i \in Encodes
          PROVE  IF i <= committed THEN Landed(i)
                 ELSE file[Target(i)] = Before(Target(i)) \/ Stranded(i)
      BY <1>1, Facts DEF ComponentInv, TargetsFollow, LandingPcs, Current
    <3>2. QED
      BY <1>1, <3>1 DEF ReportAgrees, ComponentInv, OthersFollow
  <2>2. LeftoversNamed
    <3>1. \A i \in Index : temp[i] # Nothing <=> TempOf(i) \in recovery
      <4>1. CASE swept = Len(plan.encodes)
        BY <1>1, <4>1, Facts DEF ComponentInv, StagedFollow, Index
      <4>2. CASE \A i \in Index : temp[i] = Nothing
        BY <1>1, <4>2 DEF ComponentInv, StagedFollow
      <4>3. QED
        BY <1>1, <4>1, <4>2 DEF ComponentInv, StagedFollow
    <3>2. \A i \in Index : aside[i] # Nothing <=> AsideOf(i) \in recovery
      BY <1>1 DEF ComponentInv, AsideFollows
    <3>3. \A n \in Name : (\E p \in Path : bin[n] = Audio(p)) <=> BinOf(n) \in recovery
      BY <1>1 DEF ComponentInv, BinFollows, LandingPcs
    <3>4. QED
      BY <3>1, <3>2, <3>3 DEF LeftoversNamed
  <2>3. CancelLeavesTargetsWhole
    BY <1>1, Tags DEF ComponentInv, TargetsFollow, LandingPcs, CancelLeavesTargetsWhole, Landed
  <2>4. SucceedsWhenDone
    BY <1>1, Facts DEF ComponentInv, Verdict, SucceedsWhenDone, EndPcs, StatusValues
  <2>5. QED
    BY <2>1, <2>2, <2>3, <2>4 DEF RunIsReported
<1>2. pc # "ended" => RunIsReported
  BY DEF RunIsReported, ReportAgrees, LeftoversNamed, CancelLeavesTargetsWhole, SucceedsWhenDone
<1>3. ComponentInv => RunIsReported
  BY <1>1, <1>2
<1>4. QED
  BY <1>3, ComponentInvariant, PTL
=============================================================================
