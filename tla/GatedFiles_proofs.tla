------------------------- MODULE GatedFiles_proofs --------------------------
(***************************************************************************)
(* The admission gate, and the file operations that run under its manual   *)
(* slot.                                                                   *)
(*                                                                         *)
(* The gate: SlotExclusion for any number of scans, file requests and      *)
(* sessions.  It is not inductive alone: BeginManual and BeginMaintenance  *)
(* read the gate's fields and not the callers, so the invariant also says  *)
(* that the fields account for the callers (SlotAccounts).                 *)
(*                                                                         *)
(* A file operation: no file is lost and the report is true, for any tree, *)
(* any request and any other program.  FileInv is what is needed: a claimed *)
(* item is still where it was unless somebody else touched it (SourcesStay), *)
(* what another item landed on is out of the reach of the next (Shape,      *)
(* ItemsLanded), and outside the member the disk only grows (OutsideStays). *)
(***************************************************************************)
EXTENDS AdmissionGate, FileOps, FiniteSetTheorems, SequenceTheorems,
        WellFoundedInduction, TLAPS

GateInv == TypeOK /\ SlotAccounts /\ SlotExclusion

\* The scans that hold the slot are finitely many, so their number is a natural
\* one and zero only when nobody scans (Gate.scans).
LEMMA HeldFacts ==
    /\ IsFiniteSet(Held)
    /\ Cardinality(Held) \in Nat
    /\ Cardinality(Held) = 0 <=> Held = {}
<1>1. Held \subseteq Scans
  BY DEF Held
<1>2. IsFiniteSet(Held)
  BY <1>1, AdmissionAssumption, FS_Subset DEF AdmissionAssumption
<1>. QED
  BY <1>2, FS_CardinalityType, FS_EmptySet

\* A scan that enters or leaves moves the count by one (BeginScan, releaseScan).
LEMMA HeldMoves ==
    ASSUME NEW c \in Scans
    PROVE  /\ c \notin Held => Cardinality(Held \cup {c}) = Cardinality(Held) + 1
           /\ c \in Held => Cardinality(Held \ {c}) = Cardinality(Held) - 1
BY HeldFacts, FS_AddElement, FS_RemoveElement

\* An empty gate with idle callers.
LEMMA GateInit == Init => GateInv
<1>. SUFFICES ASSUME Init PROVE GateInv
  OBVIOUS
<1>1. Held = {} /\ Live = {}
  BY DEF Init, Held, Live
<1>2. TypeOK
  BY DEF Init, TypeOK
<1>3. SlotAccounts
  BY <1>1, FS_EmptySet DEF Init, SlotAccounts
<1>4. SlotExclusion
  BY <1>1 DEF Init, SlotExclusion, Alone
<1>. QED
  BY <1>2, <1>3, <1>4 DEF GateInv

\* Leaving the callers' exclusive work, the held scans and the live sessions as
\* they are keeps the exclusion.
LEMMA Undisturbed ==
    ASSUME GateInv,
           UNCHANGED <<manual, maint, scans, file>>,
           pass' = pass \/ (pass # "batch" /\ pass' # "batch"),
           Held' = Held,
           Live' \subseteq Live
    PROVE  SlotAccounts' /\ SlotExclusion'
<1>1. SlotAccounts'
  BY DEF GateInv, SlotAccounts
<1>2. SlotExclusion'
  BY DEF GateInv, SlotExclusion, Alone
<1>. QED
  BY <1>1, <1>2

\* Every step of a scan keeps the invariant.
LEMMA ScanSteps ==
    ASSUME GateInv, NEW c \in Scans,
           CheckExecutions(c) \/ BeginScan(c) \/ StartScan(c) \/ EndScan(c)
    PROVE  GateInv'
<1>. USE DEF GateInv
<1>l. Live' = Live
  BY DEF Live, CheckExecutions, BeginScan, StartScan, EndScan, ReleaseScan, gate
<1>1. CASE CheckExecutions(c)
  <2>1. TypeOK'
    BY <1>1 DEF CheckExecutions, TypeOK, gate
  <2>2. Held' = Held
    BY <1>1 DEF CheckExecutions, Held, TypeOK
  <2>. QED
    BY <1>1, <1>l, <2>1, <2>2, Undisturbed DEF CheckExecutions, gate
<1>2. CASE BeginScan(c)
  <2>0. c \notin Held
    BY <1>2 DEF BeginScan, MayEnter, Held
  <2>1. TypeOK'
    BY <1>2 DEF BeginScan, TypeOK, gate
  <2>2. CASE manual \/ maint
    <3>1. Held' = Held
      BY <1>2, <2>0, <2>2 DEF BeginScan, Held, TypeOK, gate
    <3>. QED
      BY <1>2, <1>l, <2>1, <2>2, <3>1, Undisturbed DEF BeginScan, gate
  <2>3. CASE ~(manual \/ maint)
    <3>1. Held' = Held \cup {c}
      BY <1>2, <2>3 DEF BeginScan, Held, TypeOK
    <3>2. SlotAccounts'
      <4>1. scans' = scans + 1 /\ UNCHANGED <<manual, maint, file, pass>>
        BY <1>2, <2>3 DEF BeginScan
      <4>2. Cardinality(Held') = Cardinality(Held) + 1
        BY <2>0, <3>1, HeldMoves
      <4>. QED
        BY <4>1, <4>2 DEF SlotAccounts
    <3>3. SlotExclusion'
      <4>1. UNCHANGED <<file, pass>> /\ \A f \in Files : file[f] # "working"
        BY <1>2, <2>3 DEF BeginScan, SlotAccounts
      <4>2. pass # "batch"
        BY <2>3 DEF SlotAccounts
      <4>. QED
        BY <4>1, <4>2 DEF SlotExclusion
    <3>. QED
      BY <2>1, <3>2, <3>3
  <2>. QED
    BY <2>2, <2>3
<1>3. CASE StartScan(c)
  <2>1. TypeOK'
    BY <1>3 DEF StartScan, TypeOK, gate
  <2>2. Held' = Held
    BY <1>3 DEF StartScan, Held, TypeOK
  <2>. QED
    BY <1>3, <1>l, <2>1, <2>2, Undisturbed DEF StartScan, gate
<1>4. CASE EndScan(c)
  <2>0. c \in Held /\ scans > 0
    BY <1>4, HeldFacts DEF EndScan, SlotAccounts
  <2>1. scans' = scans - 1 /\ UNCHANGED <<manual, maint, file, session, pass>>
    BY <1>4, <2>0 DEF EndScan, ReleaseScan
  <2>2. TypeOK'
    BY <1>4, <2>0, <2>1 DEF EndScan, TypeOK
  <2>3. Held' = Held \ {c}
    BY <1>4 DEF EndScan, Held, TypeOK
  <2>4. SlotAccounts'
    <3>1. Cardinality(Held') = Cardinality(Held) - 1
      BY <2>0, <2>3, HeldMoves
    <3>. QED
      BY <2>1, <3>1 DEF SlotAccounts
  <2>5. SlotExclusion'
    BY <1>l, <2>1, <2>3 DEF SlotExclusion, Alone
  <2>. QED
    BY <2>2, <2>4, <2>5
<1>. QED
  BY <1>1, <1>2, <1>3, <1>4

\* Every step of a file request keeps the invariant.
LEMMA FileSteps ==
    ASSUME GateInv, NEW f \in Files, BeginManual(f) \/ EndManual(f)
    PROVE  GateInv'
<1>. USE DEF GateInv
<1>0. Live' = Live /\ Held' = Held
  BY DEF Live, Held, BeginManual, EndManual
<1>1. CASE BeginManual(f)
  <2>1. TypeOK'
    BY <1>1 DEF BeginManual, TypeOK
  <2>2. SlotAccounts'
    <3>1. manual' = TRUE /\ file'[f] = "working"
      BY <1>1 DEF BeginManual, TypeOK
    <3>2. UNCHANGED <<maint, scans, pass>>
      BY <1>1 DEF BeginManual
    <3>. QED
      BY <1>0, <3>1, <3>2 DEF SlotAccounts
  <2>3. SlotExclusion'
    <3>1. Held = {} /\ Live = {}
      BY <1>1, HeldFacts DEF BeginManual, NobodyActive, TasksActive, SlotAccounts
    <3>2. pass # "batch" /\ pass' = pass
      BY <1>1 DEF BeginManual, NobodyActive, SlotAccounts
    <3>3. \A other \in Files : file[other] = "idle"
      BY <1>1 DEF BeginManual, NobodyActive, SlotAccounts, TypeOK
    <3>4. \A other \in Files \ {f} : file'[other] = "idle"
      BY <1>1, <3>3 DEF BeginManual, TypeOK
    <3>. QED
      BY <1>0, <3>1, <3>2, <3>4 DEF SlotExclusion, Alone
  <2>. QED
    BY <2>1, <2>2, <2>3
<1>2. CASE EndManual(f)
  <2>1. TypeOK'
    BY <1>2 DEF EndManual, TypeOK
  <2>2. \A other \in Files : file'[other] = "idle"
    BY <1>2 DEF EndManual, TypeOK, SlotExclusion
  <2>3. SlotAccounts'
    <3>1. manual' = FALSE /\ UNCHANGED <<maint, scans, pass>>
      BY <1>2 DEF EndManual
    <3>. QED
      BY <1>0, <2>2, <3>1 DEF SlotAccounts
  <2>4. SlotExclusion'
    BY <1>0, <1>2, <2>2 DEF EndManual, SlotExclusion, Alone
  <2>. QED
    BY <2>1, <2>3, <2>4
<1>. QED
  BY <1>1, <1>2

\* Every step of a start request and of its row keeps the invariant.
LEMMA SessionSteps ==
    ASSUME GateInv, NEW x \in Sessions,
           \/ CheckScans(x) \/ Enqueue(x) \/ ClaimSession(x)
           \/ RefreshRoots(x) \/ EndSession(x)
    PROVE  GateInv'
<1>. USE DEF GateInv
<1>h. Held' = Held
  BY DEF Held, CheckScans, Enqueue, ClaimSession, RefreshRoots, EndSession
<1>u. UNCHANGED <<manual, maint, scans, scan, file, pass>>
  BY DEF CheckScans, Enqueue, ClaimSession, RefreshRoots, EndSession, gate
<1>t. TypeOK'
  <2>1. session' \in [Sessions -> {"idle", "checked", "queued", "running", "stranded"}]
    BY DEF TypeOK, CheckScans, Enqueue, ClaimSession, RefreshRoots, EndSession
  <2>2. reading' \in SUBSET (Scans \cup Sessions)
    BY DEF TypeOK, CheckScans, Enqueue, ClaimSession, RefreshRoots, EndSession
  <2>. QED
    BY <1>u, <2>1, <2>2 DEF TypeOK
<1>1. CASE Live' \subseteq Live
  BY <1>1, <1>h, <1>u, <1>t, Undisturbed
<1>2. CASE ~(Live' \subseteq Live)
  <2>1. ~manual /\ ~maint
    BY <1>2 DEF Live, TypeOK, CheckScans, Enqueue, ClaimSession, RefreshRoots, EndSession
  <2>2. SlotAccounts'
    BY <1>h, <1>u DEF SlotAccounts
  <2>3. SlotExclusion'
    BY <1>u, <2>1, <2>2 DEF SlotAccounts, SlotExclusion
  <2>. QED
    BY <1>t, <2>2, <2>3
<1>. QED
  BY <1>1, <1>2

\* Every step of the maintenance pass keeps the invariant.
LEMMA PassSteps ==
    ASSUME GateInv, BeginMaintenance \/ DropSlot \/ AbandonPass
    PROVE  GateInv'
<1>. USE DEF GateInv
<1>0. Live' = Live /\ Held' = Held
  BY DEF Live, Held, BeginMaintenance, DropSlot, AbandonPass
<1>t. TypeOK'
  BY DEF TypeOK, BeginMaintenance, DropSlot, AbandonPass, gate
<1>1. CASE BeginMaintenance /\ NobodyActive
  <2>1. maint' = TRUE /\ pass' = "batch" /\ UNCHANGED <<manual, scans, file>>
    BY <1>1 DEF BeginMaintenance
  <2>2. SlotAccounts'
    BY <1>0, <2>1 DEF SlotAccounts
  <2>3. Held = {} /\ Live = {}
    BY <1>1, HeldFacts DEF NobodyActive, TasksActive, SlotAccounts
  <2>4. \A f \in Files : file[f] # "working"
    BY <1>1 DEF NobodyActive, SlotAccounts
  <2>5. SlotExclusion'
    BY <1>0, <2>1, <2>3, <2>4 DEF SlotExclusion, Alone
  <2>. QED
    BY <1>t, <2>2, <2>5
<1>2. CASE (BeginMaintenance /\ ~NobodyActive) \/ AbandonPass
  <2>1. UNCHANGED <<manual, maint, scans, file>> /\ pass # "batch" /\ pass' # "batch"
    BY <1>2 DEF BeginMaintenance, AbandonPass, gate
  <2>. QED
    BY <1>0, <1>t, <2>1, Undisturbed
<1>3. CASE DropSlot
  <2>1. maint' = FALSE /\ pass' # "batch" /\ UNCHANGED <<manual, scans, file>>
    BY <1>3 DEF DropSlot
  <2>2. SlotAccounts'
    BY <1>0, <2>1 DEF SlotAccounts
  <2>3. SlotExclusion'
    BY <1>0, <2>1 DEF SlotExclusion, Alone
  <2>. QED
    BY <1>t, <2>2, <2>3
<1>. QED
  BY <1>1, <1>2, <1>3

\* A restart empties the gate; rows that could not be ended stay live.
LEMMA RestartStep ==
    ASSUME GateInv, Restart
    PROVE  GateInv'
<1>1. TypeOK'
  <2>1. session' \in [Sessions -> {"idle", "checked", "queued", "running", "stranded"}]
    BY DEF Restart, Leftover
  <2>2. reading' \in SUBSET (Scans \cup Sessions)
    BY DEF Restart, GateInv, TypeOK
  <2>. QED
    BY <2>1, <2>2 DEF Restart, TypeOK
<1>2. Held' = {}
  BY DEF Restart, Held
<1>3. SlotAccounts'
  BY <1>2, FS_EmptySet DEF Restart, SlotAccounts
<1>4. SlotExclusion'
  BY DEF Restart, SlotExclusion
<1>. QED
  BY <1>1, <1>3, <1>4 DEF GateInv

LEMMA GateNext == GateInv /\ [Next]_vars => GateInv'
<1>. SUFFICES ASSUME GateInv, [Next]_vars PROVE GateInv'
  OBVIOUS
<1>1. ASSUME NEW c \in Scans,
             CheckExecutions(c) \/ BeginScan(c) \/ StartScan(c) \/ EndScan(c)
      PROVE  GateInv'
  BY <1>1, ScanSteps
<1>2. ASSUME NEW f \in Files, BeginManual(f) \/ EndManual(f)
      PROVE  GateInv'
  BY <1>2, FileSteps
<1>3. ASSUME NEW x \in Sessions,
             \/ CheckScans(x) \/ Enqueue(x) \/ ClaimSession(x)
             \/ RefreshRoots(x) \/ EndSession(x)
      PROVE  GateInv'
  BY <1>3, SessionSteps
<1>4. CASE BeginMaintenance \/ DropSlot \/ AbandonPass
  BY <1>4, PassSteps
<1>5. CASE Restart
  BY <1>5, RestartStep
<1>6. CASE UNCHANGED vars
  <2>1. Held' = Held /\ Live' = Live
    BY <1>6 DEF vars, callers, Held, Live
  <2>2. TypeOK'
    BY <1>6 DEF GateInv, TypeOK, vars, gate, callers
  <2>. QED
    BY <1>6, <2>1, <2>2, Undisturbed DEF GateInv, vars, gate, callers
<1>. QED
  BY <1>1, <1>2, <1>3, <1>4, <1>5, <1>6 DEF Next

\* Whoever holds an exclusive slot works alone, for any number of scans, file
\* requests and sessions (admission/gate.go).
THEOREM GateExclusion == Spec => []SlotExclusion
<1>1. Init => GateInv
  BY GateInit
<1>2. GateInv /\ [Next]_vars => GateInv'
  BY GateNext
<1>3. GateInv => SlotExclusion
  BY DEF GateInv
<1>. QED
  BY <1>1, <1>2, <1>3, PTL DEF Spec

\* The gate's fields always say who is inside: no slot is held by nobody, no
\* scan is unregistered (admission/gate.go, the releases).
THEOREM GateAccounts == Spec => []SlotAccounts
<1>1. GateInv => SlotAccounts
  BY DEF GateInv
<1>. QED
  BY <1>1, GateInit, GateNext, PTL DEF Spec

\* Both together: the slots of the gate are kept (admission/gate.go).
THEOREM GateKeepsSlots == Spec => []SlotsAreKept
<1>. QED
  BY GateExclusion, GateAccounts, PTL DEF SlotsAreKept

\* The count of scans never goes below zero, and nobody reads for who is gone
\* (Gate.releaseScan).
THEOREM GateTypeCorrect == Spec => []TypeOK
<1>1. GateInv => TypeOK
  BY DEF GateInv
<1>. QED
  BY <1>1, GateInit, GateNext, PTL DEF Spec

-----------------------------------------------------------------------------
(* Paths.                                                                  *)

\* What is under what, name by name.
LEMMA UnderIndexes ==
    ASSUME NEW p \in Seq(Name), NEW b \in Seq(Name)
    PROVE  Under(p, b) <=> Len(b) <= Len(p) /\ \A i \in 1 .. Len(b) : p[i] = b[i]
<1>1. ASSUME Under(p, b) PROVE Len(b) <= Len(p) /\ \A i \in 1 .. Len(b) : p[i] = b[i]
    <2>1. Len(b) <= Len(p) /\ SubSeq(b, 1, Len(b)) = SubSeq(p, 1, Len(b))
        BY <1>1 DEF Under, IsPrefix
    <2>2. \A i \in 1 .. Len(b) : SubSeq(b, 1, Len(b))[i] = b[i] /\ SubSeq(p, 1, Len(b))[i] = p[i]
        BY <2>1
    <2> QED BY <2>1, <2>2
<1>2. ASSUME Len(b) <= Len(p), \A i \in 1 .. Len(b) : p[i] = b[i] PROVE Under(p, b)
    <2>1. SubSeq(b, 1, Len(b)) = [i \in 1 .. Len(b) |-> b[i]] /\ SubSeq(p, 1, Len(b)) = [i \in 1 .. Len(b) |-> p[i]]
        BY <1>2
    <2> QED BY <1>2, <2>1 DEF Under, IsPrefix
<1> QED BY <1>1, <1>2

LEMMA FirstOf ==
    ASSUME NEW p \in Seq(Name), NEW n \in 0 .. Len(p)
    PROVE  /\ SubSeq(p, 1, n) \in Seq(Name) /\ Len(SubSeq(p, 1, n)) = n
           /\ \A i \in 1 .. n : SubSeq(p, 1, n)[i] = p[i]
<1>1. \A i \in 1 .. n : p[i] \in Name
    OBVIOUS
<1>2. SubSeq(p, 1, n) \in Seq(Name)
    <2>1. 1 \in Int /\ n \in Int
        OBVIOUS
    <2> QED BY <1>1, <2>1, SubSeqProperties, Zenon
<1>3. Len(SubSeq(p, 1, n)) = n
    OBVIOUS
<1>4. \A i \in 1 .. n : SubSeq(p, 1, n)[i] = p[i]
    OBVIOUS
<1> QED BY <1>2, <1>3, <1>4

LEMMA SamePath ==
    ASSUME NEW p \in Seq(Name), NEW q \in Seq(Name), Len(p) = Len(q), \A i \in 1 .. Len(p) : p[i] = q[i]
    PROVE  p = q
OBVIOUS

LEMMA UnderOrder ==
    ASSUME NEW p \in Seq(Name), NEW q \in Seq(Name), NEW r \in Seq(Name)
    PROVE  /\ Under(p, p)
           /\ Under(p, q) /\ Under(q, r) => Under(p, r)
           /\ Under(p, q) /\ Under(q, p) => p = q
           /\ Under(p, q) /\ Under(p, r) => Under(q, r) \/ Under(r, q)
           /\ Under(p, q) /\ p # q => Len(q) < Len(p)
<1>1. Under(p, p)
    BY UnderIndexes
<1>2. Under(p, q) /\ Under(q, r) => Under(p, r)
    BY UnderIndexes
<1>3. ASSUME Under(p, q), Len(p) = Len(q) PROVE p = q
    BY <1>3, UnderIndexes, SamePath
<1>4. Under(p, q) /\ Under(q, p) => p = q
    BY <1>3, UnderIndexes
<1>5. Under(p, q) /\ Under(p, r) => Under(q, r) \/ Under(r, q)
    BY UnderIndexes
<1>6. Under(p, q) /\ p # q => Len(q) < Len(p)
    BY <1>3, UnderIndexes
<1> QED BY <1>1, <1>2, <1>4, <1>5, <1>6

LEMMA BelowUnder ==
    ASSUME NEW p \in Seq(Name), NEW q \in Seq(Name)
    PROVE  Below(p, q) <=> Under(p, q) /\ p # q
BY DEF Below, Under, IsStrictPrefix

\* The folder something is in.
LEMMA ParentOf ==
    ASSUME NEW p \in Seq(Name), NEW q \in Seq(Name), Len(p) > 0
    PROVE  /\ Parent(p) \in Seq(Name) /\ Len(Parent(p)) = Len(p) - 1
           /\ \A i \in 1 .. Len(p) - 1 : Parent(p)[i] = p[i]
           /\ Under(p, Parent(p)) /\ p # Parent(p)
           /\ Under(p, q) /\ p # q => Under(Parent(p), q)
<1>1. /\ Parent(p) \in Seq(Name) /\ Len(Parent(p)) = Len(p) - 1
      /\ \A i \in 1 .. Len(p) - 1 : Parent(p)[i] = p[i]
    <2>1. Len(p) - 1 \in 0 .. Len(p)
        OBVIOUS
    <2> QED BY <2>1, FirstOf DEF Parent, Front
<1>2. Under(p, Parent(p)) /\ p # Parent(p)
    BY <1>1, UnderIndexes
<1>3. Under(p, q) /\ p # q => Under(Parent(p), q)
    BY <1>1, UnderIndexes, UnderOrder
<1> QED BY <1>1, <1>2, <1>3

LEMMA InFolder ==
    ASSUME NEW d \in Seq(Name), NEW n \in Name
    PROVE  /\ Append(d, n) \in Path /\ Len(Append(d, n)) = Len(d) + 1
           /\ Parent(Append(d, n)) = d
           /\ Len(d) > 0 => Append(d, n)[1] = d[1]
<1> DEFINE p == Append(d, n)
<1>1. p \in Path /\ p \in Seq(Name) /\ Len(p) = Len(d) + 1 /\ \A i \in 1 .. Len(d) : p[i] = d[i]
    BY AppendProperties DEF Path
<1> HIDE DEF p
<1>2. Parent(p) = d
    <2>1. /\ Parent(p) \in Seq(Name) /\ Len(Parent(p)) = Len(d)
          /\ \A i \in 1 .. Len(d) : Parent(p)[i] = d[i]
        <3>1. Len(p) > 0 /\ Len(p) - 1 = Len(d)
            BY <1>1
        <3> QED BY <1>1, <3>1, ParentOf
    <2> QED BY <2>1, SamePath
<1> QED BY <1>1, <1>2 DEF p

\* The first names of a path are the paths it is under.
LEMMA FirstNames ==
    ASSUME NEW p \in Seq(Name), NEW n \in 1 .. Len(p)
    PROVE  /\ SubSeq(p, 1, n) \in Path /\ Len(SubSeq(p, 1, n)) = n /\ Under(p, SubSeq(p, 1, n))
           /\ SubSeq(p, 1, Len(p)) = p
           /\ \A i \in 1 .. n : SubSeq(p, 1, n)[i] = p[i]
<1> DEFINE q == SubSeq(p, 1, n)
<1>1. q \in Seq(Name) /\ Len(q) = n /\ \A i \in 1 .. n : q[i] = p[i]
    <2>1. n \in 0 .. Len(p)
        OBVIOUS
    <2> QED BY <2>1, FirstOf
<1>2. SubSeq(p, 1, Len(p)) = p
    OBVIOUS
<1> HIDE DEF q
<1>3. q \in Path
    BY <1>1 DEF Path
<1>4. Under(p, q)
    BY <1>1, UnderIndexes
<1> QED BY <1>1, <1>2, <1>3, <1>4 DEF q

LEMMA PrefixIs ==
    ASSUME NEW p \in Seq(Name), NEW b \in Path, Under(p, b)
    PROVE  b = SubSeq(p, 1, Len(b)) /\ Len(b) \in 1 .. Len(p)
<1>1. Len(b) \in 1 .. Len(p) /\ \A i \in 1 .. Len(b) : p[i] = b[i]
    BY UnderIndexes DEF Path
<1>2. /\ SubSeq(p, 1, Len(b)) \in Seq(Name) /\ Len(SubSeq(p, 1, Len(b))) = Len(b)
      /\ \A i \in 1 .. Len(b) : SubSeq(p, 1, Len(b))[i] = p[i]
    BY <1>1, FirstNames DEF Path
<1> QED BY <1>1, <1>2, SamePath DEF Path

-----------------------------------------------------------------------------
(* Trees.                                                                  *)

\* What is above something is a folder.
LEMMA Above ==
    ASSUME NEW t, IsTree(t), NEW p \in DOMAIN t, NEW b \in Path, Under(p, b)
    PROVE  b \in DOMAIN t /\ (b # p => t[b] = Folder)
<1>1. CASE b = p
    BY <1>1
<1>2. CASE b # p
    <2>1. p \in Seq(Name) /\ b \in Seq(Name)
        BY DEF IsTree, Path
    <2>2. b = SubSeq(p, 1, Len(b)) /\ Len(b) \in 1 .. Len(p) - 1
        BY <1>2, <2>1, PrefixIs, UnderOrder
    <2> QED BY <2>2 DEF IsTree
<1> QED BY <1>1, <1>2

LEMMA TreeIs ==
    ASSUME NEW t, t = [p \in DOMAIN t |-> t[p]], DOMAIN t \subseteq Path,
           \A p \in DOMAIN t : \A b \in Path : Under(p, b) /\ b # p => b \in DOMAIN t /\ t[b] = Folder,
           \A p, q \in DOMAIN t : t[p] = t[q] /\ t[p] \notin {Folder, Link} => p = q
    PROVE  IsTree(t)
<1> SUFFICES ASSUME NEW p \in DOMAIN t, NEW n \in 1 .. Len(p) - 1
             PROVE  SubSeq(p, 1, n) \in DOMAIN t /\ t[SubSeq(p, 1, n)] = Folder
    BY DEF IsTree
<1>1. p \in Seq(Name) /\ n \in 1 .. Len(p) /\ n # Len(p)
    BY DEF Path
<1>2. SubSeq(p, 1, n) \in Path /\ Under(p, SubSeq(p, 1, n)) /\ SubSeq(p, 1, n) # p
    BY <1>1, FirstNames
<1> QED BY <1>2

-----------------------------------------------------------------------------
(* A rename.                                                               *)

\* Where something under src goes when src goes to dst.
Moved(p, src, dst) == dst \o SubSeq(p, Len(src) + 1, Len(p))

LEMMA MovedNames ==
    ASSUME NEW src \in Path, NEW dst \in Path, NEW p \in Seq(Name), Under(p, src)
    PROVE  LET m == Moved(p, src, dst)
           IN  /\ m \in Seq(Name) /\ Len(m) = Len(dst) + Len(p) - Len(src) /\ Len(src) <= Len(p)
               /\ \A i \in 1 .. Len(dst) : m[i] = dst[i]
               /\ \A i \in Len(src) + 1 .. Len(p) : m[Len(dst) + i - Len(src)] = p[i]
<1> DEFINE rest == SubSeq(p, Len(src) + 1, Len(p))
           m == dst \o rest
<1>1. src \in Seq(Name) /\ dst \in Seq(Name) /\ Len(src) <= Len(p)
    BY UnderIndexes DEF Path
<1>2. rest \in Seq(Name)
    <2>1. Len(src) + 1 \in Int /\ Len(p) \in Int /\ \A i \in Len(src) + 1 .. Len(p) : p[i] \in Name
        BY <1>1
    <2> QED BY <2>1, SubSeqProperties, Zenon
<1>3. Len(rest) = Len(p) - Len(src) /\ \A i \in 1 .. Len(p) - Len(src) : rest[i] = p[Len(src) + i]
    BY <1>1
<1> HIDE DEF rest
<1>4. /\ m \in Seq(Name) /\ Len(m) = Len(dst) + Len(rest)
      /\ \A i \in 1 .. Len(dst) + Len(rest) : m[i] = IF i <= Len(dst) THEN dst[i] ELSE rest[i - Len(dst)]
    BY <1>1, <1>2, ConcatProperties
<1>5. \A i \in 1 .. Len(dst) : m[i] = dst[i]
    BY <1>1, <1>2, <1>4
<1>6. ASSUME NEW i \in Len(src) + 1 .. Len(p) PROVE m[Len(dst) + i - Len(src)] = p[i]
    <2> DEFINE j == i - Len(src)
    <2>1. j \in 1 .. Len(p) - Len(src) /\ i = Len(src) + j /\ Len(dst) + i - Len(src) = Len(dst) + j
        BY <1>1
    <2>2. rest[j] = p[i]
        BY <1>3, <2>1
    <2> HIDE DEF j
    <2>3. m[Len(dst) + j] = rest[j]
        BY <1>1, <1>3, <1>4, <2>1
    <2> QED BY <2>1, <2>2, <2>3
<1> QED BY <1>1, <1>3, <1>4, <1>5, <1>6 DEF Moved, rest

LEMMA MovedUnder ==
    ASSUME NEW src \in Path, NEW dst \in Path, NEW p \in Seq(Name), Under(p, src)
    PROVE  /\ Moved(p, src, dst) \in Path
           /\ Under(Moved(p, src, dst), dst)
           /\ Moved(src, src, dst) = dst
<1>1. src \in Seq(Name) /\ dst \in Seq(Name) /\ Len(dst) > 0
    BY DEF Path
<1>2. Moved(p, src, dst) \in Seq(Name) /\ Len(Moved(p, src, dst)) >= Len(dst)
    BY <1>1, MovedNames
<1>3. Moved(p, src, dst) \in Path
    BY <1>1, <1>2 DEF Path
<1>4. Under(Moved(p, src, dst), dst)
    <2>1. \A i \in 1 .. Len(dst) : Moved(p, src, dst)[i] = dst[i]
        BY MovedNames
    <2> QED BY <1>1, <1>2, <2>1, UnderIndexes
<1>5. Moved(src, src, dst) = dst
    <2>1. Under(src, src)
        BY <1>1, UnderOrder
    <2>2. Moved(src, src, dst) \in Seq(Name) /\ Len(Moved(src, src, dst)) = Len(dst)
        BY <1>1, <2>1, MovedNames
    <2>3. \A i \in 1 .. Len(dst) : Moved(src, src, dst)[i] = dst[i]
        BY <1>1, <2>1, MovedNames
    <2> QED BY <1>1, <2>2, <2>3, SamePath
<1> QED BY <1>3, <1>4, <1>5

LEMMA MovedOnce ==
    ASSUME NEW src \in Path, NEW dst \in Path, NEW p \in Seq(Name), NEW q \in Seq(Name),
           Under(p, src), Under(q, src), Moved(p, src, dst) = Moved(q, src, dst)
    PROVE  p = q
<1> DEFINE m == Moved(p, src, dst)
<1>1. src \in Seq(Name) /\ dst \in Seq(Name)
    BY DEF Path
<1>2. /\ Len(m) = Len(dst) + Len(p) - Len(src) /\ Len(src) <= Len(p)
      /\ \A i \in Len(src) + 1 .. Len(p) : m[Len(dst) + i - Len(src)] = p[i]
    BY MovedNames
<1>3. /\ Len(m) = Len(dst) + Len(q) - Len(src) /\ Len(src) <= Len(q)
      /\ \A i \in Len(src) + 1 .. Len(q) : m[Len(dst) + i - Len(src)] = q[i]
    <2> DEFINE c == Moved(q, src, dst)
    <2>1. /\ Len(c) = Len(dst) + Len(q) - Len(src) /\ Len(src) <= Len(q)
          /\ \A i \in Len(src) + 1 .. Len(q) : c[Len(dst) + i - Len(src)] = q[i]
        BY MovedNames
    <2>2. c = m
        OBVIOUS
    <2> HIDE DEF c, m
    <2> QED BY <2>1, <2>2
<1> HIDE DEF m
<1>4. Len(p) = Len(q)
    BY <1>1, <1>2, <1>3
<1>5. \A i \in 1 .. Len(src) : p[i] = q[i]
    BY <1>1, UnderIndexes
<1>6. \A i \in Len(src) + 1 .. Len(p) : p[i] = q[i]
    BY <1>2, <1>3, <1>4
<1>7. \A i \in 1 .. Len(p) : p[i] = q[i]
    BY <1>1, <1>5, <1>6
<1> QED BY <1>4, <1>7, SamePath

\* What is above a thing that was moved, and not above the place it was moved to, was
\* moved with it.
LEMMA MovedAbove ==
    ASSUME NEW src \in Path, NEW dst \in Path, NEW p \in Seq(Name), Under(p, src),
           NEW b \in Path, Under(Moved(p, src, dst), b), Under(b, dst)
    PROVE  \E q \in Path : Under(p, q) /\ Under(q, src) /\ Moved(q, src, dst) = b
<1> DEFINE m == Moved(p, src, dst)
           n == Len(src) + Len(b) - Len(dst)
           q == SubSeq(p, 1, n)
<1>1. src \in Seq(Name) /\ dst \in Seq(Name) /\ b \in Seq(Name) /\ Len(src) > 0
    BY DEF Path
<1>2. /\ m \in Seq(Name) /\ Len(m) = Len(dst) + Len(p) - Len(src) /\ Len(src) <= Len(p)
      /\ \A i \in 1 .. Len(dst) : m[i] = dst[i]
      /\ \A i \in Len(src) + 1 .. Len(p) : m[Len(dst) + i - Len(src)] = p[i]
    BY MovedNames
<1>3. Len(b) <= Len(m) /\ \A i \in 1 .. Len(b) : m[i] = b[i]
    BY <1>1, <1>2, UnderIndexes
<1>4. Len(dst) <= Len(b) /\ \A i \in 1 .. Len(dst) : b[i] = dst[i]
    BY <1>1, UnderIndexes
<1>5. n \in 1 .. Len(p) /\ Len(src) <= n
    BY <1>1, <1>2, <1>3, <1>4
<1>6. q \in Path /\ Len(q) = n /\ Under(p, q) /\ \A i \in 1 .. n : q[i] = p[i]
    BY <1>5, FirstNames
<1>7. q \in Seq(Name)
    BY <1>6 DEF Path
<1> HIDE DEF q, m
<1>8. Under(q, src)
    BY <1>1, <1>5, <1>6, <1>7, UnderIndexes
<1>9. Moved(q, src, dst) = b
    <2> DEFINE c == Moved(q, src, dst)
    <2>1. /\ c \in Seq(Name) /\ Len(c) = Len(dst) + Len(q) - Len(src)
          /\ \A i \in 1 .. Len(dst) : c[i] = dst[i]
          /\ \A i \in Len(src) + 1 .. Len(q) : c[Len(dst) + i - Len(src)] = q[i]
        BY <1>7, <1>8, MovedNames
    <2>2. Len(c) = Len(b)
        BY <1>1, <1>4, <1>6, <2>1
    <2>3. ASSUME NEW i \in 1 .. Len(b) PROVE c[i] = b[i]
        <3>1. CASE i <= Len(dst)
            BY <1>1, <1>4, <2>1, <3>1
        <3>2. CASE i > Len(dst)
            <4> DEFINE j == i + Len(src) - Len(dst)
            <4>1. j \in Len(src) + 1 .. n /\ i = Len(dst) + j - Len(src)
                BY <1>1, <1>4, <3>2
            <4> HIDE DEF j
            <4>2. c[i] = q[j] /\ m[i] = p[j] /\ q[j] = p[j]
                BY <1>1, <1>2, <1>5, <1>6, <2>1, <4>1
            <4> QED BY <1>3, <4>2
        <3> QED BY <1>1, <3>1, <3>2
    <2> HIDE DEF c
    <2> QED BY <1>1, <2>1, <2>2, <2>3, SamePath DEF c
<1> QED BY <1>6, <1>8, <1>9

\* What a rename leaves where.
LEMMA RenamedIs ==
    ASSUME NEW src \in Path, NEW dst \in Path, DOMAIN tree \subseteq Path
    PROVE  LET t == Renamed(src, dst)
               moved == {p \in DOMAIN tree : Under(p, src)}
           IN  /\ DOMAIN t = (DOMAIN tree \ moved) \cup {Moved(q, src, dst) : q \in moved}
               /\ t = [p \in DOMAIN t |-> t[p]]
               /\ \A q \in moved : t[Moved(q, src, dst)] = tree[q]
               /\ \A p \in DOMAIN tree \ moved :
                    (\A q \in moved : Moved(q, src, dst) # p) => t[p] = tree[p]
<1> DEFINE moved == {p \in DOMAIN tree : Under(p, src)}
           New(p) == Moved(p, src, dst)
           paths == (DOMAIN tree \ moved) \cup {New(q) : q \in moved}
           t == [p \in paths |-> IF \E q \in moved : New(q) = p
                                 THEN tree[CHOOSE q \in moved : New(q) = p] ELSE tree[p]]
<1>1. Renamed(src, dst) = t
    BY DEF Renamed, Moved
<1>2. ASSUME NEW q \in moved PROVE t[New(q)] = tree[q]
    <2>1. New(q) \in paths
        OBVIOUS
    <2>2. \A r \in moved : New(r) = New(q) => r = q
        BY MovedOnce DEF Path
    <2>3. (CHOOSE r \in moved : New(r) = New(q)) = q
        BY <2>2
    <2> HIDE DEF moved, New, paths
    <2> QED BY <2>1, <2>3
<1>3. \A p \in DOMAIN tree \ moved : (\A q \in moved : New(q) # p) => t[p] = tree[p]
    OBVIOUS
<1> HIDE DEF t
<1>4. DOMAIN t = paths /\ t = [p \in DOMAIN t |-> t[p]]
    BY DEF t
<1> QED BY <1>1, <1>2, <1>3, <1>4

\* A rename that can be: below no part of itself, and over no folder.
Movable(src, dst) ==
    /\ src \in Path /\ dst \in Path
    /\ Exists(src) /\ IsFolder(Parent(dst)) /\ Len(dst) > 1
    /\ ~Under(Parent(dst), src)
    /\ Exists(dst) => tree[dst] # Folder /\ tree[src] # Folder

LEMMA RenamedApart ==
    ASSUME IsTree(tree), NEW src, NEW dst, Movable(src, dst),
           NEW p \in DOMAIN tree, ~Under(p, src), NEW q \in DOMAIN tree, Under(q, src),
           p = Moved(q, src, dst)
    PROVE  p = dst /\ q = src /\ Exists(dst)
<1>1. src \in Path /\ dst \in Path /\ p \in Path /\ q \in Path /\ DOMAIN tree \subseteq Path
    BY DEF Movable, IsTree
<1>2. p \in Seq(Name) /\ q \in Seq(Name) /\ src \in Seq(Name) /\ dst \in Seq(Name)
    BY <1>1 DEF Path
<1>3. Under(p, dst) /\ Moved(src, src, dst) = dst
    BY <1>1, <1>2, MovedUnder
<1>4. Exists(dst)
    BY <1>1, <1>3, Above DEF Exists
<1>5. q = src
    <2> SUFFICES ASSUME q # src PROVE FALSE
        OBVIOUS
    <2>1. tree[src] = Folder
        BY <1>1, Above
    <2> QED BY <1>4, <2>1 DEF Movable
<1> QED BY <1>3, <1>4, <1>5

\* Where everything is after a rename.
LEMMA RenamedTo ==
    ASSUME IsTree(tree), NEW src, NEW dst, Movable(src, dst)
    PROVE  LET t == Renamed(src, dst)
           IN  /\ t = [p \in DOMAIN t |-> t[p]] /\ DOMAIN t \subseteq Path
               /\ \A p \in DOMAIN tree : ~Under(p, src) /\ p # dst => p \in DOMAIN t /\ t[p] = tree[p]
               /\ \A q \in DOMAIN tree : Under(q, src) =>
                    Moved(q, src, dst) \in DOMAIN t /\ t[Moved(q, src, dst)] = tree[q]
               /\ \A p \in DOMAIN t :
                    \/ p \in DOMAIN tree /\ ~Under(p, src) /\ t[p] = tree[p] /\ p # dst
                    \/ \E q \in DOMAIN tree : Under(q, src) /\ p = Moved(q, src, dst) /\ t[p] = tree[q]
<1> DEFINE t == Renamed(src, dst)
           moved == {p \in DOMAIN tree : Under(p, src)}
           New(q) == Moved(q, src, dst)
<1>1. src \in Path /\ dst \in Path /\ src \in Seq(Name) /\ dst \in Seq(Name) /\ DOMAIN tree \subseteq Path
    BY DEF Movable, IsTree, Path
<1>2. /\ DOMAIN t = (DOMAIN tree \ moved) \cup {New(q) : q \in moved}
      /\ t = [p \in DOMAIN t |-> t[p]]
      /\ \A q \in moved : t[New(q)] = tree[q]
      /\ \A p \in DOMAIN tree \ moved : (\A q \in moved : New(q) # p) => t[p] = tree[p]
    BY <1>1, RenamedIs
<1>3. \A q \in moved : q \in Seq(Name) /\ New(q) \in Path
    BY <1>1, MovedUnder DEF Path
<1>4. \A p \in DOMAIN tree \ moved : \A q \in moved : New(q) = p => p = dst
    BY RenamedApart
<1>5. src \in moved /\ New(src) = dst
    BY <1>1, UnderOrder, MovedUnder DEF Movable, Exists
<1> HIDE DEF t, New
<1>6. DOMAIN t \subseteq Path
    BY <1>1, <1>2, <1>3
<1>7. \A p \in DOMAIN tree : ~Under(p, src) /\ p # dst => p \in DOMAIN t /\ t[p] = tree[p]
    BY <1>2, <1>4
<1>8. \A q \in DOMAIN tree : Under(q, src) => New(q) \in DOMAIN t /\ t[New(q)] = tree[q]
    BY <1>2
<1>9. ASSUME NEW p \in DOMAIN t
      PROVE  \/ p \in DOMAIN tree /\ ~Under(p, src) /\ t[p] = tree[p] /\ p # dst
             \/ \E q \in DOMAIN tree : Under(q, src) /\ p = New(q) /\ t[p] = tree[q]
    <2>1. CASE \E q \in moved : p = New(q)
        BY <1>2, <2>1
    <2>2. CASE ~\E q \in moved : p = New(q)
        <3>1. p \in DOMAIN tree \ moved /\ p # dst
            BY <1>2, <1>5, <2>2
        <3> QED BY <1>2, <2>2, <3>1
    <2> QED BY <2>1, <2>2
<1> QED BY <1>2, <1>6, <1>7, <1>8, <1>9 DEF t, New

LEMMA RenamedTree ==
    ASSUME IsTree(tree), NEW src, NEW dst, Movable(src, dst)
    PROVE  IsTree(Renamed(src, dst))
<1> DEFINE t == Renamed(src, dst)
           New(q) == Moved(q, src, dst)
<1>1. src \in Path /\ dst \in Path /\ src \in Seq(Name) /\ dst \in Seq(Name) /\ DOMAIN tree \subseteq Path
    BY DEF Movable, IsTree, Path
<1>2. /\ t = [p \in DOMAIN t |-> t[p]] /\ DOMAIN t \subseteq Path
      /\ \A p \in DOMAIN tree : ~Under(p, src) /\ p # dst => p \in DOMAIN t /\ t[p] = tree[p]
      /\ \A q \in DOMAIN tree : Under(q, src) => New(q) \in DOMAIN t /\ t[New(q)] = tree[q]
      /\ \A p \in DOMAIN t :
           \/ p \in DOMAIN tree /\ ~Under(p, src) /\ t[p] = tree[p] /\ p # dst
           \/ \E q \in DOMAIN tree : Under(q, src) /\ p = New(q) /\ t[p] = tree[q]
    BY RenamedTo
<1>3. \A p \in Path : p \in Seq(Name)
    BY DEF Path
<1> HIDE DEF t
<1>4. ASSUME NEW p \in DOMAIN t, NEW b \in Path, Under(p, b), b # p
      PROVE  b \in DOMAIN t /\ t[b] = Folder
    <2>1. CASE p \in DOMAIN tree /\ ~Under(p, src)
        <3>1. b \in DOMAIN tree /\ tree[b] = Folder
            BY <1>4, <2>1, Above
        <3>2. ~Under(b, src)
            BY <1>1, <1>2, <1>3, <1>4, <2>1, UnderOrder
        <3>3. b # dst
            BY <3>1 DEF Movable, Exists
        <3> QED BY <1>2, <3>1, <3>2, <3>3
    <2>2. ASSUME NEW q \in DOMAIN tree, Under(q, src), p = New(q) PROVE b \in DOMAIN t /\ t[b] = Folder
        <3>1. q \in Path /\ q \in Seq(Name) /\ Under(p, dst) /\ p \in Seq(Name) /\ b \in Seq(Name)
            BY <1>1, <1>3, <2>2, MovedUnder
        <3>2. CASE Under(b, dst)
            <4>1. PICK r \in Path : Under(q, r) /\ Under(r, src) /\ New(r) = b
                BY <1>1, <1>4, <2>2, <3>1, <3>2, MovedAbove
            <4>2. r # q
                BY <1>4, <2>2, <4>1
            <4>3. r \in DOMAIN tree /\ tree[r] = Folder
                BY <4>1, <4>2, Above
            <4> QED BY <1>2, <4>1, <4>3
        <3>3. CASE ~Under(b, dst)
            <4>1. Under(dst, b) /\ b # dst
                BY <1>1, <1>4, <3>1, <3>3, UnderOrder
            <4>2. Len(dst) > 0 /\ Parent(dst) \in Seq(Name) /\ Under(Parent(dst), b)
                BY <1>1, <3>1, <4>1, ParentOf DEF Movable
            <4>3. Parent(dst) \in DOMAIN tree /\ tree[Parent(dst)] = Folder
                BY DEF Movable, IsFolder, Exists
            <4>4. b \in DOMAIN tree /\ tree[b] = Folder
                BY <4>2, <4>3, Above
            <4>5. ~Under(b, src)
                BY <1>1, <3>1, <4>2, UnderOrder DEF Movable
            <4> QED BY <1>2, <4>1, <4>4, <4>5
        <3> QED BY <3>2, <3>3
    <2> QED BY <1>2, <2>1, <2>2
<1>5. ASSUME NEW p \in DOMAIN t, NEW q \in DOMAIN t, t[p] = t[q], t[p] \notin {Folder, Link} PROVE p = q
    <2> DEFINE From(x, y) == \/ x = y /\ ~Under(y, src)
                             \/ x = New(y) /\ Under(y, src)
    <2>1. PICK x \in DOMAIN tree : From(p, x) /\ t[p] = tree[x]
        BY <1>2
    <2>2. PICK y \in DOMAIN tree : From(q, y) /\ t[q] = tree[y]
        BY <1>2
    <2>3. x = y
        BY <1>5, <2>1, <2>2 DEF IsTree
    <2> QED BY <2>1, <2>2, <2>3
<1> QED BY <1>2, <1>4, <1>5, TreeIs DEF t

\* A rename to a free name loses no file.
LEMMA RenamedKeeps ==
    ASSUME IsTree(tree), NEW src, NEW dst, Movable(src, dst), ~Exists(dst)
    PROVE  FilesOf(tree) \subseteq FilesOf(Renamed(src, dst))
<1> DEFINE t == Renamed(src, dst)
<1> SUFFICES ASSUME NEW p \in DOMAIN tree, tree[p] \notin {Folder, Link}
             PROVE  \E q \in DOMAIN t : t[q] = tree[p]
    BY DEF FilesOf, Range
<1>1. CASE Under(p, src)
    BY <1>1, RenamedTo
<1>2. CASE ~Under(p, src)
    BY <1>2, RenamedTo DEF Exists
<1> QED BY <1>1, <1>2

-----------------------------------------------------------------------------
(* Folders that are made, and what another program does.                   *)

LEMMA MadeTree ==
    ASSUME IsTree(tree), NEW dir \in Path,
           \A n \in 1 .. Len(dir) : Exists(SubSeq(dir, 1, n)) => IsFolder(SubSeq(dir, 1, n))
    PROVE  LET t == MkdirAll(dir)
           IN  /\ IsTree(t)
               /\ \A p \in DOMAIN tree : p \in DOMAIN t /\ t[p] = tree[p]
               /\ \A p \in DOMAIN t \ DOMAIN tree : t[p] = Folder
               /\ dir \in DOMAIN t /\ t[dir] = Folder
<1> DEFINE made == {SubSeq(dir, 1, n) : n \in 1 .. Len(dir)} \ DOMAIN tree
           t == [p \in DOMAIN tree \cup made |-> IF p \in made THEN Folder ELSE tree[p]]
<1>1. dir \in Seq(Name) /\ Len(dir) \in 1 .. Len(dir) /\ DOMAIN tree \subseteq Path
    BY DEF Path, IsTree
<1>2. \A n \in 1 .. Len(dir) : SubSeq(dir, 1, n) \in Path /\ Under(dir, SubSeq(dir, 1, n))
    BY <1>1, FirstNames
<1>3. /\ \A p \in DOMAIN tree : p \in DOMAIN t /\ t[p] = tree[p]
      /\ \A p \in DOMAIN t \ DOMAIN tree : t[p] = Folder
      /\ DOMAIN t = DOMAIN tree \cup made
    OBVIOUS
<1>0. t = [p \in DOMAIN t |-> t[p]]
    OBVIOUS
<1>4. MkdirAll(dir) = t
    BY DEF MkdirAll
<1> HIDE DEF t
<1>10. DOMAIN t \subseteq Path
    BY <1>1, <1>2, <1>3
<1>5. ASSUME NEW b \in Path, Under(dir, b) PROVE b \in DOMAIN t /\ t[b] = Folder
    <2>1. PICK n \in 1 .. Len(dir) : b = SubSeq(dir, 1, n)
        BY <1>1, <1>5, PrefixIs
    <2>2. CASE b \in DOMAIN tree
        BY <1>3, <2>1, <2>2 DEF Exists, IsFolder
    <2>3. CASE b \notin DOMAIN tree
        BY <1>3, <2>1, <2>3
    <2> QED BY <2>2, <2>3
<1>6. ASSUME NEW p \in DOMAIN t, NEW b \in Path, Under(p, b), b # p
      PROVE  b \in DOMAIN t /\ t[b] = Folder
    <2>1. CASE p \in DOMAIN tree
        BY <1>3, <1>6, <2>1, Above
    <2>2. CASE p \notin DOMAIN tree
        <3>1. Under(dir, p) /\ p \in Seq(Name) /\ b \in Seq(Name)
            BY <1>2, <1>3, <1>10, <1>6, <2>2 DEF Path
        <3> QED BY <1>1, <1>5, <1>6, <3>1, UnderOrder
    <2> QED BY <2>1, <2>2
<1>7. \A p, q \in DOMAIN t : t[p] = t[q] /\ t[p] \notin {Folder, Link} => p = q
    BY <1>3 DEF IsTree
<1>8. dir \in DOMAIN t /\ t[dir] = Folder
    BY <1>1, <1>5, UnderOrder
<1>9. IsTree(t)
    BY ONLY <1>0, <1>10, <1>6, <1>7, TreeIs
<1> QED BY <1>3, <1>4, <1>8, <1>9

LEMMA CreatedTree ==
    ASSUME IsTree(tree), NEW p \in Path, ~Exists(p), IsFolder(Parent(p)), Alien \notin Range(tree)
    PROVE  LET t == WithAlien(p)
           IN  /\ IsTree(t)
               /\ \A q \in DOMAIN tree : q \in DOMAIN t /\ t[q] = tree[q]
<1> DEFINE t == WithAlien(p)
<1>1. p \in Seq(Name) /\ Len(p) > 0 /\ DOMAIN tree \subseteq Path
    BY DEF Path, IsTree
<1>2. /\ \A q \in DOMAIN tree : q \in DOMAIN t /\ t[q] = tree[q]
      /\ DOMAIN t = DOMAIN tree \cup {p} /\ t[p] = Alien
      /\ t = [q \in DOMAIN t |-> t[q]]
    BY DEF Exists, WithAlien
<1> HIDE DEF t
<1>3. ASSUME NEW q \in DOMAIN t, NEW b \in Path, Under(q, b), b # q
      PROVE  b \in DOMAIN t /\ t[b] = Folder
    <2>1. CASE q \in DOMAIN tree
        BY <1>2, <1>3, <2>1, Above
    <2>2. CASE q = p
        <3>1. Under(Parent(p), b) /\ Parent(p) \in DOMAIN tree /\ tree[Parent(p)] = Folder
            BY <1>1, <1>3, <2>2, ParentOf DEF IsFolder, Exists, Path
        <3> QED BY <1>2, <3>1, Above
    <2> QED BY <1>2, <2>1, <2>2
<1>4. ASSUME NEW q \in DOMAIN t, NEW r \in DOMAIN t, t[q] = t[r], t[q] \notin {Folder, Link} PROVE q = r
    <2>1. \A x \in DOMAIN tree : tree[x] # Alien
        BY DEF Range
    <2> QED BY <1>2, <1>4, <2>1 DEF IsTree
<1>5. IsTree(t)
    BY <1>1, <1>2, <1>3, <1>4, TreeIs
<1> QED BY <1>2, <1>5 DEF t

LEMMA RemovedTree ==
    ASSUME IsTree(tree), NEW p \in Path
    PROVE  LET t == Without(p)
           IN  /\ IsTree(t) /\ DOMAIN t = {q \in DOMAIN tree : ~Under(q, p)}
               /\ \A q \in DOMAIN t : t[q] = tree[q]
<1> DEFINE t == Without(p)
<1>1. p \in Seq(Name) /\ DOMAIN tree \subseteq Path
    BY DEF Path, IsTree
<1>2. /\ DOMAIN t = {q \in DOMAIN tree : ~Under(q, p)} /\ t = [q \in DOMAIN t |-> t[q]]
      /\ \A q \in DOMAIN t : t[q] = tree[q]
    BY DEF Without
<1> HIDE DEF t
<1>3. ASSUME NEW q \in DOMAIN t, NEW b \in Path, Under(q, b), b # q
      PROVE  b \in DOMAIN t /\ t[b] = Folder
    <2>1. b \in DOMAIN tree /\ tree[b] = Folder
        BY <1>2, <1>3, Above
    <2>2. ~Under(b, p)
        BY <1>1, <1>2, <1>3, UnderOrder DEF Path
    <2> QED BY <1>2, <2>1, <2>2
<1>4. \A q, r \in DOMAIN t : t[q] = t[r] /\ t[q] \notin {Folder, Link} => q = r
    BY <1>2 DEF IsTree
<1>5. IsTree(t)
    BY <1>1, <1>2, <1>3, <1>4, TreeIs
<1> QED BY <1>2, <1>5 DEF t

\* The member's own files.
LEMMA InMember ==
    ASSUME NEW p \in Path
    PROVE  /\ Below(p, Home) <=> p[1] = Member /\ Len(p) > 1
           /\ \A q \in Path : Under(p, q) => p[1] = q[1] /\ Len(q) <= Len(p)
<1>1. p \in Seq(Name) /\ Len(p) > 0 /\ Home \in Seq(Name) /\ Len(Home) = 1 /\ Home[1] = Member
    BY FilesAssumption DEF Path, Home
<1>2. Below(p, Home) <=> p[1] = Member /\ Len(p) > 1
    <2>1. Under(p, Home) <=> Len(Home) <= Len(p) /\ \A i \in 1 .. Len(Home) : p[i] = Home[i]
        BY <1>1, UnderIndexes
    <2>2. Under(p, Home) <=> p[1] = Member
        BY ONLY <1>1, <2>1
    <2>3. Under(p, Home) /\ p # Home => Len(Home) < Len(p)
        BY <1>1, UnderOrder
    <2>4. Below(p, Home) <=> Under(p, Home) /\ p # Home
        BY <1>1, BelowUnder
    <2>5. Len(p) > 1 => p # Home
        <3>1. p = Home => Len(p) = 1
            BY ONLY <1>1
        <3>2. Len(p) = 1 => ~(Len(p) > 1)
            OBVIOUS
        <3> QED BY ONLY <3>1, <3>2
    <2>6. Under(p, Home) /\ p # Home => Len(p) > 1
        BY ONLY <1>1, <2>3
    <2> QED BY ONLY <2>2, <2>4, <2>5, <2>6
<1>3. \A q \in Path : Under(p, q) => p[1] = q[1] /\ Len(q) <= Len(p)
    BY <1>1, UnderIndexes DEF Path
<1> QED BY <1>2, <1>3

Codes == {"", "IO_ERROR", "SOURCE_MISSING", "SYMLINK", "TARGET_EXISTS", "INVALID_TARGET",
          "MOVE_INTO_SELF", "DUPLICATE_ITEM", "COVERED_BY_PARENT"}
Result == [status : {"ok", "failed", "skipped", "not_attempted"}, code : Codes,
           place : Path \cup {<<>>}]
StepType == [at : {"rename", "replace"}, src : Path, dst : Path]

\* A claimed item: the next one, of a request that did not fail; where it goes is no
\* part of it, and was free when it was looked at last.
StepFits ==
    /\ step \in StepType
    /\ Len(results) < Len(request.items) /\ skips[Index] = "no" /\ ~Stopped
    /\ step.src = Item.source
    /\ Len(step.dst) > 1 /\ ~Under(Parent(step.dst), step.src)
    /\ step.dst[1] = IF request.op = "soft_delete" THEN Bin ELSE Member
    /\ step.at = "replace" => ~atomic /\ (Exists(step.dst) => step.dst \in touched)
    /\ aliens = 0 => IsFolder(Parent(step.dst))

Shape ==
    /\ IsTree(tree) /\ IsTree(origin)
    /\ request \in Requests /\ Len(request.items) > 0
    /\ request.op # "soft_delete" => Len(request.items) = 1
    /\ skips = planItems(request.items)
    /\ results \in Seq(Result) /\ Len(results) <= Len(request.items)
    /\ recycled \subseteq {p \in Path : p[1] = Bin /\ Len(p) > 1}
    /\ inventory \subseteq Path
    /\ touched \subseteq Path /\ aliens \in Nat /\ (aliens = 0 => touched = {})
    /\ (step = Idle \/ StepFits)

Source(i) == request.items[i].source
Untouched(p) == \A q \in touched : ~Under(p, q) /\ ~Under(q, p)
Carried(i) == \E j \in DOMAIN results : Status(j) = "ok" /\ Under(Source(i), Source(j))

\* An item is where it was until this request moves it or what is above it.
SourcesStay ==
    \A i \in DOMAIN request.items : Untouched(Source(i)) /\ ~Carried(i) /\ Source(i) \in DOMAIN origin =>
        Exists(Source(i)) /\ tree[Source(i)] = origin[Source(i)]

\* An item that was moved is where the report says.
ItemsLanded ==
    \A i \in DOMAIN results : Status(i) = "ok" =>
        /\ results[i].place \in Path
        /\ request.op = "soft_delete" => results[i].place[1] = Bin
        /\ Untouched(Source(i)) /\ Source(i) \in DOMAIN origin =>
             \/ results[i].place \in DOMAIN tree /\ tree[results[i].place] = origin[Source(i)]
             \/ results[i].place \in touched

FailureStops ==
    \A i, j \in DOMAIN results : Status(i) = "failed" /\ j > i => Status(j) # "ok"

\* Nobody else was there: an item that was not found was never there.
MissingWas ==
    aliens = 0 => \A i \in DOMAIN results :
        results[i].code = "SOURCE_MISSING" => Source(i) \notin DOMAIN origin

\* Nobody else was there: outside the member nothing went, and what came is a
\* directory or was recycled.
OutsideStays ==
    aliens = 0 =>
        /\ \A p \in DOMAIN origin : Below(p, Home) \/ Exists(p)
        /\ \A p \in DOMAIN tree \ DOMAIN origin :
             Below(p, Home) \/ tree[p] = Folder \/ \E r \in recycled : Under(p, r)

\* Below the scopes that were read the inventory is the disk, elsewhere it is as it was.
Read(p) == \E scope \in Scopes \ scopes : Below(p, scope)
InventoryFollows ==
    /\ refresh = "none" => inventory = DOMAIN origin
    /\ refresh \in {"none", "running", "ok", "REFRESH_FAILED"}
    /\ refresh # "none" => step = Idle /\ Len(results) = Len(request.items)
    /\ refresh \in {"running", "ok"} =>
         /\ scopes \subseteq Scopes
         /\ \A p \in Path : Read(p) => (p \in inventory <=> Exists(p))
         /\ \A p \in Path : ~Read(p) => (p \in inventory <=> p \in DOMAIN origin)
    /\ refresh = "ok" => scopes = {}

Reported == SourcesStay /\ ItemsLanded /\ FailureStops /\ MissingWas
FileInv == Shape /\ Reported /\ OutsideStays /\ InventoryFollows

-----------------------------------------------------------------------------
(* The request, and what the checks find.                                  *)

LEMMA RequestIs ==
    ASSUME Shape
    PROVE  /\ request.op \in {"rename", "move", "soft_delete"}
           /\ Len(request.items) \in Nat /\ DOMAIN request.items = 1 .. Len(request.items)
           /\ \A i \in 1 .. Len(request.items) :
                /\ Source(i) \in Path /\ Source(i) \in Seq(Name)
                /\ Source(i)[1] = Member /\ Len(Source(i)) > 1
                /\ IsItem(request.op, request.items[i])
           /\ Len(results) \in Nat /\ DOMAIN results = 1 .. Len(results)
           /\ DOMAIN results \subseteq DOMAIN request.items
           /\ \A i \in DOMAIN results : results[i] \in Result
           /\ Index \in Nat /\ Index \notin DOMAIN results
           /\ Index <= Len(request.items) => Index \in DOMAIN request.items
<1>1. request \in Requests /\ results \in Seq(Result) /\ Len(results) <= Len(request.items)
    BY DEF Shape
<1>2. /\ request.op \in {"rename", "move", "soft_delete"}
      /\ request.items = [i \in 1 .. Len(request.items) |-> request.items[i]]
      /\ Len(request.items) \in Nat
      /\ \A i \in DOMAIN request.items : IsItem(request.op, request.items[i])
    BY <1>1, FilesAssumption
<1>3. DOMAIN request.items = 1 .. Len(request.items)
    BY <1>2
<1>4. \A i \in 1 .. Len(request.items) :
         /\ Source(i) \in Path /\ Source(i)[1] = Member /\ Len(Source(i)) > 1
         /\ IsItem(request.op, request.items[i])
    BY <1>2, <1>3 DEF Source, IsItem
<1>5. \A p \in Path : p \in Seq(Name)
    BY DEF Path
<1>6. /\ Len(results) \in Nat /\ DOMAIN results = 1 .. Len(results)
      /\ \A i \in DOMAIN results : results[i] \in Result
    BY <1>1, LenProperties
<1>7. DOMAIN results \subseteq DOMAIN request.items
    BY <1>1, <1>2, <1>3, <1>6
<1>8. Index \in Nat /\ Index \notin DOMAIN results
    BY <1>6 DEF Index
<1>9. Index <= Len(request.items) => Index \in DOMAIN request.items
    BY <1>2, <1>3, <1>6 DEF Index
<1> QED BY <1>2, <1>3, <1>4, <1>5, <1>6, <1>7, <1>8, <1>9

\* An item that is not skipped is under no item that comes before it.
LEMMA NotCarried ==
    ASSUME Shape, NEW i \in 1 .. Len(request.items), skips[i] = "no",
           NEW j \in 1 .. Len(request.items), j < i
    PROVE  ~Under(Source(i), Source(j))
<1> DEFINE covered(k) == \E m \in DOMAIN request.items : m # k /\ Below(Source(k), Source(m))
           repeated(k) == \E m \in 1 .. k - 1 : Source(m) = Source(k) /\ ~covered(m)
<1>1. DOMAIN request.items = 1 .. Len(request.items) /\ Len(request.items) \in Nat
    BY RequestIs
<1>2. \A k \in 1 .. Len(request.items) : Source(k) \in Seq(Name)
    BY RequestIs
<1>3. skips = [k \in 1 .. Len(request.items) |->
                  IF repeated(k) THEN "DUPLICATE_ITEM"
                  ELSE IF covered(k) THEN "COVERED_BY_PARENT" ELSE "no"]
    BY <1>1 DEF Shape, planItems, Source
<1>4. ~repeated(i) /\ ~covered(i)
    <2> HIDE DEF repeated, covered
    <2> QED BY <1>3
<1>5. ~Below(Source(i), Source(j))
    BY <1>1, <1>4
<1>6. ASSUME Source(i) = Source(j) PROVE FALSE
    <2>1. covered(j)
        <3> HIDE DEF covered
        <3> QED BY <1>1, <1>4, <1>6
    <2>2. PICK m \in DOMAIN request.items : Below(Source(j), Source(m))
        BY <2>1
    <2>3. m # i
        BY <1>1, <1>2, <1>6, <2>2, BelowUnder
    <2> QED BY <1>4, <1>6, <2>2, <2>3
<1> QED BY <1>2, <1>5, <1>6, BelowUnder

\* resolve finds what is there, and misses only what is not.
LEMMA ResolveFinds ==
    ASSUME IsTree(tree), NEW p \in Path, Len(p) > 1
    PROVE  /\ ResolveCode(p) \in {"ok", "SOURCE_MISSING", "SYMLINK"}
           /\ ResolveCode(p) = "ok" => Exists(p)
           /\ ResolveCode(p) = "SOURCE_MISSING" => ~Exists(p)
<1>1. p \in Seq(Name) /\ Len(p) \in 2 .. Len(p)
    BY DEF Path
<1>2. \A n \in 2 .. Len(p) : SubSeq(p, 1, n) \in Path /\ Under(p, SubSeq(p, 1, n))
    BY <1>1, FirstNames
<1>3. p \in Steps(p)
    <2>1. SubSeq(p, 1, Len(p)) = p
        BY <1>1, FirstNames
    <2> QED BY <1>1, <2>1 DEF Steps
<1>4. ResolveCode(p) = "ok" => Exists(p)
    BY <1>3 DEF ResolveCode, Broken
<1>5. ASSUME ResolveCode(p) = "SOURCE_MISSING" PROVE ~Exists(p)
    <2>1. PICK q \in Steps(p) : ~Exists(q)
        BY <1>5 DEF ResolveCode, Broken
    <2>2. q \in Path /\ Under(p, q)
        BY <1>2 DEF Steps
    <2> QED BY <2>1, <2>2, Above DEF Exists
<1> QED BY <1>4, <1>5 DEF ResolveCode

\* The checks of a rename or a move.
LEMMA TargetIsFree ==
    ASSUME Shape, Index <= Len(request.items), request.op # "soft_delete"
    PROVE  LET src == Item.source
               dst == Destination
               code == TargetCode(src, dst)
           IN  /\ dst \in Path /\ Len(dst) > 1 /\ dst[1] = Member
               /\ code \in Codes \cup {"ok"}
               /\ code = "SOURCE_MISSING" => ~Exists(src)
               /\ code = "ok" => /\ Exists(src) /\ ~Exists(dst) /\ IsFolder(Parent(dst))
                                 /\ ~Under(Parent(dst), src)
<1> DEFINE src == Item.source
           dst == Destination
           dir == IF request.op = "rename" THEN Parent(src) ELSE Item.dir
           name == IF request.op = "rename" THEN Item.name ELSE Base(src)
<1>1. Index \in 1 .. Len(request.items) /\ src = Source(Index)
    BY RequestIs DEF Index, Item, Source
<1>2. src \in Path /\ src \in Seq(Name) /\ src[1] = Member /\ Len(src) > 1 /\ IsItem(request.op, Item)
    BY <1>1, RequestIs DEF Item
<1>3. IsTree(tree) /\ request.op \in {"rename", "move"}
    BY RequestIs DEF Shape
<1>4. /\ Parent(src) \in Seq(Name) /\ Len(Parent(src)) = Len(src) - 1 /\ Parent(src)[1] = src[1]
      /\ Under(src, Parent(src)) /\ src # Parent(src)
    <2> HIDE DEF src
    <2>1. /\ Parent(src) \in Seq(Name) /\ Len(Parent(src)) = Len(src) - 1
          /\ \A i \in 1 .. Len(src) - 1 : Parent(src)[i] = src[i]
          /\ Under(src, Parent(src)) /\ src # Parent(src)
        BY <1>2, ParentOf
    <2>2. 1 \in 1 .. Len(src) - 1
        BY <1>2
    <2> QED BY <2>1, <2>2
<1>5. Base(src) \in Name
    BY <1>2 DEF Base, Last
<1>6. dir \in Path /\ dir \in Seq(Name) /\ Len(dir) > 0 /\ dir[1] = Member /\ name \in Name
    BY <1>2, <1>3, <1>4, <1>5 DEF IsItem, Path
<1>7. dst = Append(dir, name)
    BY <1>3 DEF Destination
<1> HIDE DEF dir, name
<1>8. dst \in Path /\ Len(dst) > 1 /\ dst[1] = Member /\ Parent(dst) = dir
    BY <1>6, <1>7, InFolder
<1> HIDE DEF dst, src
<1>9. /\ ResolveCode(src) \in {"ok", "SOURCE_MISSING", "SYMLINK"}
      /\ ResolveCode(src) = "ok" => Exists(src)
      /\ ResolveCode(src) = "SOURCE_MISSING" => ~Exists(src)
    BY <1>2, <1>3, ResolveFinds
<1>10. ResolveCode(dir) \in {"ok", "SOURCE_MISSING", "SYMLINK"}
    BY DEF ResolveCode
<1>11. /\ TargetCode(src, dst) \in Codes \cup {"ok"}
       /\ TargetCode(src, dst) = "SOURCE_MISSING" => ~Exists(src)
    BY <1>8, <1>9, <1>10 DEF TargetCode, Codes
<1>12. ASSUME TargetCode(src, dst) = "ok"
       PROVE  Exists(src) /\ ~Exists(dst) /\ IsFolder(Parent(dst)) /\ ~Under(Parent(dst), src)
    <2>1. ResolveCode(src) = "ok" /\ ~Exists(dst)
        BY <1>12 DEF TargetCode
    <2>2. CASE request.op = "rename"
        <3>1. dir = Parent(src)
            BY <2>2 DEF dir, src
        <3>2. IsFolder(dir)
            BY <1>3, <1>4, <1>6, <1>9, <2>1, <3>1, Above DEF IsFolder, Exists
        <3>3. ~Under(dir, src)
            BY <1>2, <1>4, <3>1, UnderOrder
        <3> QED BY <1>8, <1>9, <2>1, <3>2, <3>3
    <2>3. CASE request.op = "move"
        <3>1. IsFolder(dir) /\ ~(IsFolder(src) /\ Under(dir, src))
            BY <1>8, <1>12, <2>3 DEF TargetCode
        <3>2. ASSUME Under(dir, src) PROVE IsFolder(src)
            BY <1>2, <1>3, <3>1, <3>2, Above DEF IsFolder, Exists
        <3> QED BY <1>8, <1>9, <2>1, <3>1, <3>2
    <2> QED BY <1>3, <2>2, <2>3
<1> QED BY <1>8, <1>11, <1>12 DEF src, dst

\* The recovery directory, and the first name that is free in it.
LEMMA RecoveryIsFree ==
    ASSUME Shape, Index <= Len(request.items), request.op = "soft_delete"
    PROVE  LET src == Item.source
               dir == RecoveryDir(src)
               dst == freeRecoveryPath(dir, Base(src))
           IN  /\ dir \in Path /\ dir[1] = Bin
               /\ \A n \in 0 .. maxAttempts :
                    LET place == Append(dir, RecoveryName(Base(src), n))
                    IN  place \in Path /\ place[1] = Bin /\ Len(place) > 1 /\ Parent(place) = dir
               /\ Free(dir, Base(src)) # {} =>
                    dst \in Path /\ dst[1] = Bin /\ Len(dst) > 1 /\ Parent(dst) = dir /\ ~Exists(dst)
<1> DEFINE src == Item.source
           dir == RecoveryDir(src)
           free == Free(dir, Base(src))
<1>1. Index \in 1 .. Len(request.items) /\ src = Source(Index)
    BY RequestIs DEF Index, Item, Source
<1>2. src \in Path /\ src \in Seq(Name) /\ Len(src) > 1 /\ IsItem(request.op, Item)
    BY <1>1, RequestIs DEF Item
<1>3. Parent(src) \in Seq(Name)
    BY <1>2, ParentOf
<1>4. Bin \in Name
    BY FilesAssumption
<1>5. <<Bin>> \in Seq(Name) /\ Len(<<Bin>>) = 1 /\ <<Bin>>[1] = Bin
    BY <1>4
<1>6. dir \in Seq(Name) /\ Len(dir) = 1 + Len(Parent(src)) /\ dir[1] = Bin
    BY <1>3, <1>5, ConcatProperties DEF RecoveryDir
<1>7. dir \in Path /\ Len(dir) > 0
    BY <1>3, <1>6 DEF Path
<1>8. \A n \in 0 .. maxAttempts : RecoveryName(Base(src), n) \in Name
    BY <1>2 DEF IsItem, Base
<1> HIDE DEF dir, src
<1>9. \A n \in 0 .. maxAttempts :
        LET place == Append(dir, RecoveryName(Base(src), n))
        IN  place \in Path /\ place[1] = Bin /\ Len(place) > 1 /\ Parent(place) = dir
    BY <1>6, <1>7, <1>8, InFolder
<1>10. ASSUME free # {} PROVE Least(free) \in free
    <2>1. free \subseteq Nat
        BY DEF Free
    <2> HIDE DEF free
    <2>2. PICK n \in free : \A k \in free : ~(<<k, n>> \in OpToRel(<, Nat))
        BY <1>10, <2>1, NatLessThanWellFounded, WFMin
    <2>3. \A k \in free : ~(k < n)
        BY <2>1, <2>2 DEF OpToRel
    <2>4. \A k \in free : n <= k
        BY <2>1, <2>3
    <2> QED BY <2>4 DEF Least
<1>11. ASSUME free # {}
       PROVE  LET dst == freeRecoveryPath(dir, Base(src))
              IN  dst \in Path /\ dst[1] = Bin /\ Len(dst) > 1 /\ Parent(dst) = dir /\ ~Exists(dst)
    <2>1. Least(free) \in 0 .. maxAttempts /\ ~Exists(Append(dir, RecoveryName(Base(src), Least(free))))
        BY <1>10, <1>11 DEF Free
    <2> QED BY <1>9, <2>1 DEF freeRecoveryPath
<1> QED BY <1>6, <1>7, <1>9, <1>11 DEF src, dir

-----------------------------------------------------------------------------
(* The report.                                                             *)

\* An item that is next, and not skipped, was carried away by no other.
LEMMA NextIsThere ==
    ASSUME Shape, SourcesStay, Index <= Len(request.items), skips[Index] = "no",
           Untouched(Source(Index)), Source(Index) \in DOMAIN origin
    PROVE  Exists(Source(Index)) /\ tree[Source(Index)] = origin[Source(Index)]
<1>1. Index \in 1 .. Len(request.items) /\ Index \in DOMAIN request.items
    BY RequestIs DEF Index
<1>2. ASSUME NEW j \in DOMAIN results PROVE j \in 1 .. Len(request.items) /\ j < Index
    BY RequestIs DEF Index
<1>3. ~Carried(Index)
    BY <1>1, <1>2, NotCarried DEF Carried
<1> QED BY <1>1, <1>3 DEF SourcesStay

LEMMA NobodyTouched ==
    ASSUME Shape, aliens = 0, NEW p
    PROVE  Untouched(p)
BY DEF Shape, Untouched

LEMMA MissingWasNever ==
    ASSUME Shape, SourcesStay, Index <= Len(request.items), skips[Index] = "no",
           aliens = 0, ~Exists(Source(Index))
    PROVE  Source(Index) \notin DOMAIN origin
BY NextIsThere, NobodyTouched

LEMMA OneMore ==
    ASSUME Shape, NEW r \in Result, results' = Append(results, r)
    PROVE  /\ results' \in Seq(Result) /\ Len(results') = Len(results) + 1
           /\ DOMAIN results' = DOMAIN results \cup {Index}
           /\ \A i \in DOMAIN results : results'[i] = results[i]
           /\ results'[Index] = r
<1>1. results \in Seq(Result) /\ Len(results) \in Nat /\ DOMAIN results = 1 .. Len(results)
    BY RequestIs DEF Shape
<1>2. /\ results' \in Seq(Result) /\ Len(results') = Len(results) + 1
      /\ \A i \in 1 .. Len(results) : results'[i] = results[i]
      /\ results'[Len(results) + 1] = r
    BY <1>1, AppendProperties
<1>3. DOMAIN results' = 1 .. Len(results) + 1
    BY <1>1, <1>2, LenProperties
<1> QED BY <1>1, <1>2, <1>3 DEF Index

\* What a result says of the item it is about.
Told(r) ==
    /\ r.code = "SOURCE_MISSING" /\ aliens = 0 => Source(Index) \notin DOMAIN origin
    /\ r.status = "ok" =>
         /\ ~Stopped
         /\ r.place \in Path
         /\ request.op = "soft_delete" => r.place[1] = Bin
         /\ Untouched(Source(Index)) /\ Source(Index) \in DOMAIN origin =>
              \/ r.place \in DOMAIN tree' /\ tree'[r.place] = origin[Source(Index)]
              \/ r.place \in touched'

\* The report stays true when one true result is added to it, and the step leaves
\* alone what the report is about.
LEMMA ReportedStep ==
    ASSUME Shape, Reported, UNCHANGED <<request, origin>>,
           touched \subseteq touched', aliens' = 0 => aliens = 0,
           \/ results' = results
           \/ \E r \in Result : /\ results' = Append(results, r)
                                /\ Index \in DOMAIN request.items /\ Told(r),
           \A i \in DOMAIN request.items :
              /\ \A q \in touched' : ~Under(Source(i), q) /\ ~Under(q, Source(i))
              /\ ~ \E j \in DOMAIN results' : results'[j].status = "ok" /\ Under(Source(i), Source(j))
              /\ Exists(Source(i))
              => Source(i) \in DOMAIN tree' /\ tree'[Source(i)] = tree[Source(i)],
           \A i \in DOMAIN results :
              Status(i) = "ok" /\ results[i].place \in DOMAIN tree =>
                 \/ results[i].place \in touched'
                 \/ results[i].place \in DOMAIN tree' /\ tree'[results[i].place] = tree[results[i].place]
    PROVE  Reported'
<1>1. /\ DOMAIN results \subseteq DOMAIN results'
      /\ \A i \in DOMAIN results : results'[i] = results[i]
    BY OneMore
<1>2. ASSUME NEW i \in DOMAIN results', i \notin DOMAIN results
      PROVE  i = Index /\ Told(results'[i]) /\ \A j \in DOMAIN results : j < i
    <2>1. PICK r \in Result : results' = Append(results, r) /\ Told(r)
        BY <1>2
    <2>2. i = Index /\ results'[i] = r
        BY <1>2, <2>1, OneMore
    <2>3. \A j \in DOMAIN results : j < Index
        BY RequestIs DEF Index
    <2> QED BY <2>1, <2>2, <2>3
<1>3. \A i : Source(i)' = Source(i)
    BY DEF Source
<1>4. ASSUME NEW i, Untouched(Source(i))' PROVE Untouched(Source(i))
    BY <1>3, <1>4 DEF Untouched
<1>5. SourcesStay'
    <2> SUFFICES ASSUME NEW i \in DOMAIN request.items, Untouched(Source(i))', ~Carried(i)',
                        Source(i) \in DOMAIN origin
                 PROVE  Source(i) \in DOMAIN tree' /\ tree'[Source(i)] = origin[Source(i)]
        BY <1>3 DEF SourcesStay, Exists
    <2>1. ~ \E j \in DOMAIN results' : results'[j].status = "ok" /\ Under(Source(i), Source(j))
        BY <1>3 DEF Carried, Status
    <2>2. ~Carried(i)
        BY <1>1, <2>1 DEF Carried, Status
    <2>3. Exists(Source(i)) /\ tree[Source(i)] = origin[Source(i)]
        BY <1>4, <2>2 DEF Reported, SourcesStay
    <2>4. \A q \in touched' : ~Under(Source(i), q) /\ ~Under(q, Source(i))
        BY <1>3 DEF Untouched
    <2> QED BY <2>1, <2>3, <2>4
<1>6. ItemsLanded'
    <2> SUFFICES ASSUME NEW i \in DOMAIN results', results'[i].status = "ok"
                 PROVE  /\ results'[i].place \in Path
                        /\ request.op = "soft_delete" => results'[i].place[1] = Bin
                        /\ Untouched(Source(i))' /\ Source(i) \in DOMAIN origin =>
                             \/ /\ results'[i].place \in DOMAIN tree'
                                /\ tree'[results'[i].place] = origin[Source(i)]
                             \/ results'[i].place \in touched'
        BY <1>3 DEF ItemsLanded, Status
    <2>1. CASE i \in DOMAIN results
        <3>1. results'[i] = results[i] /\ Status(i) = "ok"
            BY <1>1, <2>1 DEF Status
        <3>2. /\ results[i].place \in Path
              /\ request.op = "soft_delete" => results[i].place[1] = Bin
              /\ Untouched(Source(i)) /\ Source(i) \in DOMAIN origin =>
                   \/ /\ results[i].place \in DOMAIN tree
                      /\ tree[results[i].place] = origin[Source(i)]
                   \/ results[i].place \in touched
            BY <2>1, <3>1 DEF Reported, ItemsLanded
        <3> QED BY <1>4, <2>1, <3>1, <3>2
    <2>2. CASE i \notin DOMAIN results
        BY <1>2, <1>4, <2>2 DEF Told
    <2> QED BY <2>1, <2>2
<1>7. FailureStops'
    <2> SUFFICES ASSUME NEW i \in DOMAIN results', NEW j \in DOMAIN results',
                        results'[i].status = "failed", j > i, results'[j].status = "ok"
                 PROVE  FALSE
        BY DEF FailureStops, Status
    <2>1. CASE j \in DOMAIN results
        <3>1. i \in DOMAIN results
            <4>1. i \notin DOMAIN results => j < i
                BY <1>2, <2>1
            <4>2. i \in Nat /\ j \in Nat
                BY <1>2, <2>1, RequestIs
            <4> QED BY <4>1, <4>2
        <3> QED BY <1>1, <2>1, <3>1 DEF Reported, FailureStops, Status
    <2>2. CASE j \notin DOMAIN results
        <3>1. ~Stopped
            BY <1>2, <2>2 DEF Told
        <3>2. i # j
            BY <1>2, <2>2, RequestIs
        <3>3. i \in DOMAIN results
            BY <1>2, <2>2, <3>2
        <3> QED BY <1>1, <3>1, <3>3 DEF Stopped
    <2> QED BY <2>1, <2>2
<1>8. MissingWas'
    <2> SUFFICES ASSUME aliens' = 0, NEW i \in DOMAIN results', results'[i].code = "SOURCE_MISSING"
                 PROVE  Source(i) \notin DOMAIN origin
        BY <1>3 DEF MissingWas
    <2>1. CASE i \in DOMAIN results
        BY <1>1, <2>1 DEF Reported, MissingWas
    <2>2. CASE i \notin DOMAIN results
        BY <1>2, <2>2 DEF Told
    <2> QED BY <2>1, <2>2
<1> QED BY <1>5, <1>6, <1>7, <1>8 DEF Reported

-----------------------------------------------------------------------------
(* The steps of the service.                                               *)

LEMMA Working ==
    ASSUME FileInv, step # Idle \/ Index <= Len(request.items)
    PROVE  refresh = "none" /\ inventory = DOMAIN origin
<1>1. Index <= Len(request.items) => Len(results) # Len(request.items)
    BY RequestIs DEF FileInv, Index
<1> QED BY <1>1 DEF FileInv, InventoryFollows

\* A step on an item that moves nothing: it may make folders, report that the item was
\* not done, or claim it.
LEMMA ItemStep ==
    ASSUME FileInv, step # Idle \/ Index <= Len(request.items),
           UNCHANGED <<inventory, requestVars, scopes, refresh, alienVars, recycled>>,
           IsTree(tree'),
           \A p \in DOMAIN tree : p \in DOMAIN tree' /\ tree'[p] = tree[p],
           \A p \in DOMAIN tree' \ DOMAIN tree : tree'[p] = Folder,
           \/ results' = results
           \/ \E r \in Result : /\ results' = Append(results, r)
                                /\ Index <= Len(request.items) /\ r.status # "ok"
                                /\ r.code = "SOURCE_MISSING" /\ aliens = 0 =>
                                     Source(Index) \notin DOMAIN origin,
           step' = Idle \/ StepFits'
    PROVE  FileInv'
<1> USE DEF requestVars, alienVars
<1>1. Shape /\ Reported /\ OutsideStays /\ InventoryFollows
    BY DEF FileInv
<1>2. Index \in Nat /\ (Index <= Len(request.items) => Index \in DOMAIN request.items)
    BY <1>1, RequestIs DEF Index
<1>3. Shape'
    <2>1. results' \in Seq(Result) /\ Len(results') <= Len(request.items)
        <3>1. results \in Seq(Result) /\ Len(results) <= Len(request.items)
            BY <1>1 DEF Shape
        <3>2. Len(results) \in Nat /\ Len(request.items) \in Nat
            BY <1>1, RequestIs
        <3>3. ASSUME NEW r \in Result, results' = Append(results, r), Index <= Len(request.items)
              PROVE  results' \in Seq(Result) /\ Len(results') <= Len(request.items)
            BY <1>1, <3>2, <3>3, OneMore DEF Index
        <3> QED BY <3>1, <3>3
    <2> QED BY <1>1, <2>1 DEF Shape, planItems
<1>4. Reported'
    <2>1. \/ results' = results
          \/ \E r \in Result : /\ results' = Append(results, r)
                               /\ Index \in DOMAIN request.items /\ Told(r)
        BY <1>2 DEF Told
    <2>2. UNCHANGED <<request, origin>> /\ touched \subseteq touched' /\ (aliens' = 0 => aliens = 0)
        OBVIOUS
    <2>3. \A i : Exists(Source(i)) => Source(i) \in DOMAIN tree' /\ tree'[Source(i)] = tree[Source(i)]
        BY DEF Exists
    <2> QED BY <1>1, <2>1, <2>2, <2>3, ReportedStep
<1>5. OutsideStays'
    BY <1>1 DEF OutsideStays, Exists
<1>6. InventoryFollows'
    BY <1>1, Working DEF InventoryFollows
<1> QED BY <1>3, <1>4, <1>5, <1>6 DEF FileInv

\* The folders stay as they are.
LEMMA SameTree ==
    ASSUME FileInv, UNCHANGED tree
    PROVE  /\ IsTree(tree')
           /\ \A p \in DOMAIN tree : p \in DOMAIN tree' /\ tree'[p] = tree[p]
           /\ \A p \in DOMAIN tree' \ DOMAIN tree : tree'[p] = Folder
BY DEF FileInv, Shape

\* An item that is refused is told so.
LEMMA RefuseTells ==
    ASSUME NEW code \in Codes, Refuse(code), Index <= Len(request.items),
           code = "SOURCE_MISSING" /\ aliens = 0 => Source(Index) \notin DOMAIN origin
    PROVE  /\ step' = Idle
           /\ \E r \in Result : /\ results' = Append(results, r)
                                /\ Index <= Len(request.items) /\ r.status # "ok"
                                /\ r.code = "SOURCE_MISSING" /\ aliens = 0 =>
                                     Source(Index) \notin DOMAIN origin
<1> DEFINE r == [status |-> "failed", code |-> code, place |-> <<>>]
<1>1. r \in Result
    BY DEF Result
<1>2. results' = Append(results, r) /\ step' = Idle
    BY DEF Refuse, Report
<1> QED BY <1>1, <1>2

LEMMA PassStep ==
    ASSUME FileInv, Pass
    PROVE  FileInv'
<1>1. PICK status \in {"skipped", "not_attempted"}, code \in {skips[Index], ""} :
         Report(status, code, <<>>) /\ (code # "" => status = "skipped" /\ skips[Index] # "no")
    BY DEF Pass
<1>2. Shape /\ Index <= Len(request.items) /\ Index \in DOMAIN request.items
    <2>1. Shape /\ Index <= Len(request.items)
        BY DEF FileInv, Pass
    <2> QED BY <2>1, RequestIs
<1>3. skips[Index] \in {"DUPLICATE_ITEM", "COVERED_BY_PARENT", "no"}
    BY <1>2 DEF Shape, planItems
<1>4. code \in Codes \ {"SOURCE_MISSING"}
    BY <1>1, <1>3 DEF Codes
<1> DEFINE r == [status |-> status, code |-> code, place |-> <<>>]
<1>5. r \in Result /\ r.status # "ok" /\ r.code # "SOURCE_MISSING"
    BY <1>4 DEF Result
<1>6. results' = Append(results, r) /\ step' = Idle
    BY <1>1 DEF Report
<1>7. UNCHANGED <<tree, inventory, requestVars, scopes, refresh, alienVars, recycled>>
    BY DEF Pass, itemOnly
<1> HIDE DEF r
<1> QED BY <1>2, <1>5, <1>6, <1>7, SameTree, ItemStep

\* What a claim leaves: a step that fits.
LEMMA ClaimFits ==
    ASSUME Shape, Index <= Len(request.items), skips[Index] = "no", ~Stopped,
           UNCHANGED <<requestVars, results, alienVars>>,
           NEW dst \in Path, Len(dst) > 1, ~Under(Parent(dst), Item.source),
           dst[1] = IF request.op = "soft_delete" THEN Bin ELSE Member,
           Parent(dst) \in DOMAIN tree' /\ tree'[Parent(dst)] = Folder,
           step' = [at |-> "rename", src |-> Item.source, dst |-> dst]
    PROVE  StepFits'
<1>1. Item.source \in Path /\ Len(results) < Len(request.items)
    BY RequestIs DEF Index, Item, Source
<1>2. step'.at = "rename" /\ step'.src = Item.source /\ step'.dst = dst
    OBVIOUS
<1>3. (step \in StepType)'
    BY <1>1 DEF StepType
<1>4. UNCHANGED <<Index, Item, Stopped>>
    BY DEF requestVars, Index, Item, Stopped
<1> QED BY <1>1, <1>2, <1>3, <1>4 DEF StepFits, IsFolder, Exists, requestVars

LEMMA ClaimStep ==
    ASSUME FileInv, Claim
    PROVE  FileInv'
<1> DEFINE code == TargetCode(Item.source, Destination)
<1>1. /\ Shape /\ SourcesStay
      /\ Index <= Len(request.items) /\ skips[Index] = "no" /\ ~Stopped /\ request.op # "soft_delete"
    BY DEF FileInv, Reported, Claim
<1>2. UNCHANGED <<tree, inventory, requestVars, scopes, refresh, alienVars, recycled>>
    BY DEF Claim, itemOnly
<1>3. Item.source = Source(Index)
    BY DEF Item, Source
<1>4. CASE code = "ok"
    <2>1. step' = [at |-> "rename", src |-> Item.source, dst |-> Destination] /\ UNCHANGED results
        BY <1>4 DEF Claim
    <2>2. /\ Destination \in Path /\ Len(Destination) > 1 /\ Destination[1] = Member
          /\ IsFolder(Parent(Destination)) /\ ~Under(Parent(Destination), Item.source)
        BY <1>1, <1>4, TargetIsFree
    <2>3. StepFits'
        BY <1>1, <1>2, <2>1, <2>2, ClaimFits DEF IsFolder, Exists
    <2> QED BY <1>1, <1>2, <2>1, <2>3, SameTree, ItemStep
<1>5. CASE code # "ok"
    <2>1. Refuse(code)
        BY <1>5 DEF Claim
    <2>2. code \in Codes /\ (code = "SOURCE_MISSING" => ~Exists(Source(Index)))
        BY <1>1, <1>3, <1>5, TargetIsFree
    <2>3. code = "SOURCE_MISSING" /\ aliens = 0 => Source(Index) \notin DOMAIN origin
        BY <1>1, <2>2, MissingWasNever
    <2> HIDE DEF code
    <2> QED BY <1>1, <1>2, <2>1, <2>2, <2>3, RefuseTells, SameTree, ItemStep
<1> QED BY <1>4, <1>5

LEMMA ClaimRecoveryStep ==
    ASSUME FileInv, ClaimRecovery
    PROVE  FileInv'
<1> DEFINE src == Item.source
           dir == RecoveryDir(src)
<1>1. /\ Shape /\ SourcesStay
      /\ Index <= Len(request.items) /\ skips[Index] = "no" /\ ~Stopped /\ request.op = "soft_delete"
    BY DEF FileInv, Reported, ClaimRecovery
<1>2. UNCHANGED <<inventory, requestVars, scopes, refresh, alienVars, recycled>>
    BY DEF ClaimRecovery, itemOnly
<1>3. src = Source(Index) /\ src \in Path /\ src[1] = Member /\ Len(src) > 1 /\ IsTree(tree)
    BY <1>1, RequestIs DEF Item, Source, Index, Shape
<1>4. /\ dir \in Path /\ dir[1] = Bin
      /\ Free(dir, Base(src)) # {} =>
           LET dst == freeRecoveryPath(dir, Base(src))
           IN  dst \in Path /\ dst[1] = Bin /\ Len(dst) > 1 /\ Parent(dst) = dir
    BY <1>1, RecoveryIsFree
<1>5. CASE ResolveCode(src) # "ok"
    <2>1. Refuse(ResolveCode(src)) /\ UNCHANGED tree
        BY <1>5 DEF ClaimRecovery
    <2>2. ResolveCode(src) \in Codes /\ (ResolveCode(src) = "SOURCE_MISSING" => ~Exists(Source(Index)))
        BY <1>3, <1>5, ResolveFinds DEF Codes
    <2>3. ResolveCode(src) = "SOURCE_MISSING" /\ aliens = 0 => Source(Index) \notin DOMAIN origin
        BY <1>1, <2>2, MissingWasNever
    <2> HIDE DEF src
    <2> QED BY <1>1, <1>2, <2>1, <2>2, <2>3, RefuseTells, SameTree, ItemStep
<1>6. CASE Refuse("IO_ERROR") /\ UNCHANGED tree
    BY <1>1, <1>2, <1>6, RefuseTells, SameTree, ItemStep DEF Codes
<1>7. CASE /\ \A n \in 1 .. Len(dir) : Exists(SubSeq(dir, 1, n)) => IsFolder(SubSeq(dir, 1, n))
           /\ tree' = MkdirAll(dir)
           /\ IF Free(dir, Base(src)) = {}
              THEN Refuse("TARGET_EXISTS")
              ELSE /\ step' = [at |-> "rename", src |-> src, dst |-> freeRecoveryPath(dir, Base(src))]
                   /\ UNCHANGED results
    <2> HIDE DEF dir, src
    <2>1. /\ IsTree(tree')
          /\ \A p \in DOMAIN tree : p \in DOMAIN tree' /\ tree'[p] = tree[p]
          /\ \A p \in DOMAIN tree' \ DOMAIN tree : tree'[p] = Folder
          /\ dir \in DOMAIN tree' /\ tree'[dir] = Folder
        BY <1>3, <1>4, <1>7, MadeTree
    <2>2. CASE Free(dir, Base(src)) = {}
        <3>1. Refuse("TARGET_EXISTS")
            BY <1>7, <2>2
        <3> QED BY <1>1, <1>2, <2>1, <3>1, RefuseTells, ItemStep DEF Codes
    <2>3. CASE Free(dir, Base(src)) # {}
        <3> DEFINE dst == freeRecoveryPath(dir, Base(src))
        <3>1. step' = [at |-> "rename", src |-> Item.source, dst |-> dst] /\ UNCHANGED results
            BY <1>7, <2>3 DEF src
        <3>2. dst \in Path /\ dst[1] = Bin /\ Len(dst) > 1 /\ Parent(dst) = dir
            BY <1>4, <2>3
        <3> HIDE DEF dst
        <3>3. ~Under(dir, Item.source)
            <4>1. dir[1] # src[1]
                BY <1>3, <1>4, FilesAssumption
            <4> QED BY <1>3, <1>4, <4>1, InMember DEF src
        <3>4. StepFits'
            BY <1>1, <1>2, <2>1, <3>1, <3>2, <3>3, ClaimFits
        <3> QED BY <1>1, <1>2, <2>1, <3>1, <3>4, ItemStep
    <2> QED BY <2>2, <2>3
<1> QED BY <1>5, <1>6, <1>7 DEF ClaimRecovery

-----------------------------------------------------------------------------
(* The rename.                                                             *)

\* A step in progress works on the next item, which nothing else carried away.
LEMMA StepIs ==
    ASSUME FileInv, step # Idle
    PROVE  /\ Shape /\ StepFits /\ refresh = "none"
           /\ step.src = Source(Index) /\ step.src[1] = Member /\ Len(step.src) > 1
           /\ step.src \in Path /\ step.dst \in Path
           /\ Index \in DOMAIN request.items /\ Index <= Len(request.items)
<1>1. Shape /\ StepFits /\ refresh = "none"
    BY Working DEF FileInv, Shape
<1>2. Index \in DOMAIN request.items /\ Index <= Len(request.items)
    <2>1. Len(results) < Len(request.items)
        BY <1>1 DEF StepFits
    <2> QED BY <1>1, <2>1, RequestIs DEF Index
<1>3. step.src = Source(Index) /\ step.src \in Path /\ step.dst \in Path
    BY <1>1 DEF StepFits, StepType, Item, Source
<1> QED BY <1>1, <1>2, <1>3, RequestIs

\* A rename that is done.
LEMMA LandStep ==
    ASSUME FileInv, step # Idle, Possible, Land, UNCHANGED itemOnly,
           Exists(step.dst) => /\ step.dst \in touched
                               /\ tree[step.dst] # Folder /\ tree[step.src] # Folder
    PROVE  FileInv'
<1> DEFINE src == step.src
           dst == step.dst
<1>1. /\ Shape /\ Reported /\ OutsideStays /\ InventoryFollows /\ StepFits /\ refresh = "none"
      /\ src = Source(Index) /\ src[1] = Member /\ Len(src) > 1 /\ src \in Path /\ dst \in Path
      /\ Index \in DOMAIN request.items /\ Index <= Len(request.items)
    BY StepIs DEF FileInv
<1>2. /\ ~Stopped /\ skips[Index] = "no" /\ Len(dst) > 1 /\ ~Under(Parent(dst), src)
      /\ dst[1] = IF request.op = "soft_delete" THEN Bin ELSE Member
    BY <1>1 DEF StepFits
<1>3. UNCHANGED <<inventory, request, skips, atomic, origin, scopes, refresh, aliens, touched>>
    BY DEF itemOnly, requestVars, alienVars
<1>4. IsTree(tree) /\ Movable(src, dst)
    BY <1>1, <1>2 DEF Shape, Movable, Possible
<1>5. tree' = Renamed(src, dst) /\ step' = Idle
    BY DEF Land, Report
<1> DEFINE r == [status |-> "ok", code |-> "", place |-> dst]
<1>6. r \in Result /\ results' = Append(results, r) /\ r.status = "ok"
    BY <1>1 DEF Result, Codes, Land, Report
<1>7. /\ results' \in Seq(Result) /\ Len(results') = Len(results) + 1
      /\ DOMAIN results' = DOMAIN results \cup {Index} /\ results'[Index] = r
    <2> HIDE DEF r
    <2> QED BY <1>1, <1>6, OneMore
<1>8. recycled \subseteq recycled' /\ (request.op = "soft_delete" => dst \in recycled')
      /\ recycled' \subseteq recycled \cup {dst} /\ (request.op # "soft_delete" => recycled' = recycled)
    BY DEF Land
<1> HIDE DEF r
<1>9. IsTree(tree')
    BY <1>4, <1>5, RenamedTree
<1>10. /\ \A p \in DOMAIN tree : ~Under(p, src) /\ p # dst => p \in DOMAIN tree' /\ tree'[p] = tree[p]
       /\ dst \in DOMAIN tree' /\ tree'[dst] = tree[src]
       /\ \A p \in DOMAIN tree' :
            \/ p \in DOMAIN tree /\ tree'[p] = tree[p] /\ p # dst
            \/ Under(p, dst)
    <2>1. src \in Seq(Name) /\ dst \in Seq(Name) /\ src \in DOMAIN tree /\ DOMAIN tree \subseteq Path
        BY <1>1, <1>4 DEF Path, Movable, Exists, IsTree
    <2>2. Under(src, src) /\ Moved(src, src, dst) = dst
        BY <1>1, <2>1, UnderOrder, MovedUnder
    <2>3. \A q \in DOMAIN tree : Under(q, src) => Under(Moved(q, src, dst), dst)
        BY <1>1, <2>1, MovedUnder DEF Path
    <2> HIDE DEF src, dst
    <2>4. /\ \A p \in DOMAIN tree : ~Under(p, src) /\ p # dst => p \in DOMAIN tree' /\ tree'[p] = tree[p]
          /\ \A q \in DOMAIN tree : Under(q, src) =>
               Moved(q, src, dst) \in DOMAIN tree' /\ tree'[Moved(q, src, dst)] = tree[q]
          /\ \A p \in DOMAIN tree' :
               \/ p \in DOMAIN tree /\ ~Under(p, src) /\ tree'[p] = tree[p] /\ p # dst
               \/ \E q \in DOMAIN tree : Under(q, src) /\ p = Moved(q, src, dst) /\ tree'[p] = tree[q]
        BY <1>4, <1>5, RenamedTo
    <2> QED BY <2>1, <2>2, <2>3, <2>4
<1>11. Exists(dst) => dst \in touched
    OBVIOUS
<1> HIDE DEF src, dst
<1>12. Shape'
    <2>1. Len(results') <= Len(request.items)
        <3>1. Len(results) < Len(request.items)
            BY <1>1 DEF StepFits
        <3> QED BY <1>1, <1>7, <3>1, RequestIs
    <2>2. recycled' \subseteq {p \in Path : p[1] = Bin /\ Len(p) > 1}
        BY <1>1, <1>2, <1>8 DEF Shape
    <2> QED BY <1>1, <1>3, <1>5, <1>7, <1>9, <2>1, <2>2 DEF Shape, planItems
<1>13. Reported'
    <2>1. Told(r)
        <3>1. r.status = "ok" /\ r.code = "" /\ r.place = dst
            BY DEF r
        <3>2. request.op = "soft_delete" => dst[1] = Bin
            BY <1>2
        <3>3. Untouched(Source(Index)) /\ Source(Index) \in DOMAIN origin =>
                 dst \in DOMAIN tree' /\ tree'[dst] = origin[Source(Index)]
            BY <1>1, <1>2, <1>10, NextIsThere DEF Reported
        <3> QED BY <1>1, <1>2, <3>1, <3>2, <3>3 DEF Told
    <2>2. ASSUME NEW i \in DOMAIN request.items,
                 \A q \in touched' : ~Under(Source(i), q) /\ ~Under(q, Source(i)),
                 ~ \E j \in DOMAIN results' : results'[j].status = "ok" /\ Under(Source(i), Source(j)),
                 Exists(Source(i))
          PROVE  Source(i) \in DOMAIN tree' /\ tree'[Source(i)] = tree[Source(i)]
        <3>1. Index \in DOMAIN results' /\ results'[Index].status = "ok"
            BY <1>6, <1>7
        <3>2. ~Under(Source(i), src)
            BY <1>1, <2>2, <3>1
        <3>3. Source(i) # dst
            <4>1. Source(i) \in Seq(Name)
                BY <1>1, RequestIs
            <4>2. ASSUME Source(i) = dst PROVE FALSE
                BY <1>3, <1>11, <2>2, <4>1, <4>2, UnderOrder
            <4> QED BY <4>2
        <3> QED BY <1>10, <2>2, <3>2, <3>3 DEF Exists
    <2>3. ASSUME NEW i \in DOMAIN results, Status(i) = "ok", results[i].place \in DOMAIN tree
          PROVE  \/ results[i].place \in touched'
                 \/ /\ results[i].place \in DOMAIN tree'
                    /\ tree'[results[i].place] = tree[results[i].place]
        <3> DEFINE place == results[i].place
        <3>1. place = dst => place \in touched'
            BY <1>3, <1>11, <2>3 DEF Exists
        <3>2. request.op = "soft_delete"
            <4>1. Len(results) < Len(request.items)
                BY <1>1 DEF StepFits
            <4>2. Len(request.items) # 1
                BY <1>1, <4>1, RequestIs
            <4> QED BY <1>1, <4>2 DEF Shape
        <3>3. place \in Path /\ place[1] = Bin
            BY <1>1, <2>3, <3>2 DEF Reported, ItemsLanded
        <3> HIDE DEF place
        <3>4. ~Under(place, src)
            BY <1>1, <3>3, InMember, FilesAssumption
        <3>5. place # dst => place \in DOMAIN tree' /\ tree'[place] = tree[place]
            BY <1>10, <2>3, <3>4 DEF place
        <3> QED BY <3>1, <3>5 DEF place
    <2>4. UNCHANGED <<request, origin>> /\ touched \subseteq touched' /\ (aliens' = 0 => aliens = 0)
        BY <1>3
    <2> QED BY <1>1, <1>6, <2>1, <2>2, <2>3, <2>4, ReportedStep
<1>14. OutsideStays'
    <2> SUFFICES ASSUME aliens = 0
                 PROVE  /\ \A p \in DOMAIN origin : Below(p, Home) \/ p \in DOMAIN tree'
                        /\ \A p \in DOMAIN tree' \ DOMAIN origin :
                             Below(p, Home) \/ tree'[p] = Folder \/ \E q \in recycled' : Under(p, q)
        BY <1>3 DEF OutsideStays, Exists
    <2>1. ~Exists(dst)
        BY <1>1, <1>11 DEF Shape
    <2>2. ASSUME NEW p \in DOMAIN origin, ~Below(p, Home) PROVE p \in DOMAIN tree'
        <3>1. Exists(p) /\ p \in Path
            BY <1>1, <2>2 DEF OutsideStays, Shape, IsTree
        <3>2. ~Under(p, src)
            <4>1. Under(p, src) => p[1] = src[1] /\ Len(src) <= Len(p)
                BY <1>1, <3>1, InMember
            <4>2. Under(p, src) => Len(p) > 1
                <5>1. Len(p) \in Nat /\ Len(src) \in Nat
                    BY <1>1, <3>1 DEF Path
                <5> QED BY <1>1, <4>1, <5>1
            <4> QED BY <1>1, <2>2, <3>1, <4>1, <4>2, InMember
        <3> QED BY <1>10, <2>1, <3>1, <3>2 DEF Exists
    <2>3. ASSUME NEW p \in DOMAIN tree', p \notin DOMAIN origin
          PROVE  Below(p, Home) \/ tree'[p] = Folder \/ \E q \in recycled' : Under(p, q)
        <3>1. CASE p \in DOMAIN tree /\ tree'[p] = tree[p]
            BY <1>1, <1>8, <2>3, <3>1 DEF OutsideStays
        <3>2. CASE Under(p, dst)
            <4>1. CASE request.op = "soft_delete"
                BY <1>8, <3>2, <4>1
            <4>2. CASE request.op # "soft_delete"
                <5>1. p \in Path
                    BY <1>9 DEF IsTree
                <5>2. p[1] = Member /\ Len(dst) <= Len(p)
                    BY <1>1, <1>2, <3>2, <4>2, <5>1, InMember
                <5>3. Len(p) > 1
                    <6>1. Len(p) \in Nat /\ Len(dst) \in Nat
                        BY <1>1, <5>1 DEF Path
                    <6> QED BY <1>2, <5>2, <6>1
                <5> QED BY <5>1, <5>2, <5>3, InMember
            <4> QED BY <4>1, <4>2
        <3> QED BY <1>10, <3>1, <3>2
    <2> QED BY <2>2, <2>3
<1>15. InventoryFollows'
    BY <1>1, <1>3 DEF InventoryFollows
<1> QED BY <1>12, <1>13, <1>14, <1>15 DEF FileInv

\* A rename that is not done.
LEMMA RefusedStep ==
    ASSUME FileInv, step # Idle, UNCHANGED <<tree, recycled, itemOnly>>,
           NEW code \in Codes, Refuse(code),
           code = "SOURCE_MISSING" => ~Exists(step.src) \/ ~IsFolder(Parent(step.dst))
    PROVE  FileInv'
<1>1. /\ Shape /\ SourcesStay /\ StepFits /\ step.src = Source(Index) /\ Index <= Len(request.items)
      /\ skips[Index] = "no"
    BY StepIs DEF FileInv, Reported, StepFits
<1>2. code = "SOURCE_MISSING" /\ aliens = 0 => Source(Index) \notin DOMAIN origin
    <2>1. aliens = 0 => IsFolder(Parent(step.dst))
        BY <1>1 DEF StepFits
    <2> QED BY <1>1, <2>1, MissingWasNever
<1>3. UNCHANGED <<inventory, requestVars, scopes, refresh, alienVars, recycled>>
    BY DEF itemOnly
<1> QED BY <1>1, <1>2, <1>3, RefuseTells, SameTree, ItemStep

LEMMA RenameStep ==
    ASSUME FileInv, Rename
    PROVE  FileInv'
<1>1. step # Idle /\ UNCHANGED itemOnly
    BY DEF Rename, Idle
<1>2. CASE RefusedRename
    <2>1. PICK code \in {"SOURCE_MISSING", "TARGET_EXISTS"} :
             /\ Refuse(code)
             /\ code = "SOURCE_MISSING" => ~Exists(step.src) \/ ~IsFolder(Parent(step.dst))
        BY <1>2 DEF RefusedRename
    <2> QED BY <1>1, <1>2, <2>1, RefusedStep DEF RefusedRename, Codes
<1>3. CASE Possible /\ ~Exists(step.dst) /\ Land
    BY <1>1, <1>3, LandStep
<1>4. CASE Refuse("IO_ERROR") /\ UNCHANGED <<tree, recycled>>
    BY <1>1, <1>4, RefusedStep DEF Codes
<1> QED BY <1>2, <1>3, <1>4 DEF Rename

LEMMA RenameCheckedStep ==
    ASSUME FileInv, RenameChecked
    PROVE  FileInv'
<1>1. step # Idle /\ UNCHANGED itemOnly /\ UNCHANGED <<tree, recycled>>
    BY DEF RenameChecked, Idle
<1>2. CASE Exists(step.dst)
    <2>1. Refuse("TARGET_EXISTS")
        BY <1>2 DEF RenameChecked
    <2> QED BY <1>1, <2>1, RefusedStep DEF Codes
<1>3. CASE ~Exists(step.dst)
    <2>1. step' = [step EXCEPT !.at = "replace"] /\ UNCHANGED results /\ ~atomic
        BY <1>3 DEF RenameChecked
    <2>2. StepFits /\ step \in StepType
        BY <1>1, StepIs DEF StepFits
    <2>3. step' \in StepType /\ step'.src = step.src /\ step'.dst = step.dst
        BY <2>1, <2>2 DEF StepType
    <2>4. UNCHANGED <<inventory, requestVars, scopes, refresh, alienVars, recycled>>
        BY <1>1 DEF itemOnly
    <2>5. UNCHANGED <<Index, Item, Stopped>>
        BY <2>1, <2>4 DEF requestVars, Index, Item, Stopped
    <2>6. StepFits'
        BY <1>1, <1>3, <2>1, <2>2, <2>3, <2>4, <2>5
        DEF StepFits, StepType, requestVars, alienVars, IsFolder, Exists
    <2> QED BY <1>1, <2>1, <2>4, <2>6, SameTree, ItemStep
<1> QED BY <1>2, <1>3

LEMMA RenameOverStep ==
    ASSUME FileInv, RenameOver
    PROVE  FileInv'
<1>1. step # Idle /\ UNCHANGED itemOnly /\ step.at = "replace"
    BY DEF RenameOver, Idle
<1>2. Exists(step.dst) => step.dst \in touched
    BY <1>1, StepIs DEF StepFits
<1>3. CASE Possible /\ (Exists(step.dst) => tree[step.dst] # Folder /\ tree[step.src] # Folder)
    <2>1. Land
        BY <1>3 DEF RenameOver
    <2> QED BY <1>1, <1>2, <1>3, <2>1, LandStep
<1>4. CASE Refuse("IO_ERROR") /\ UNCHANGED <<tree, recycled>>
    BY <1>1, <1>4, RefusedStep DEF Codes
<1> QED BY <1>3, <1>4 DEF RenameOver

-----------------------------------------------------------------------------
(* The refresh.                                                            *)

\* A step of the refresh leaves alone what the report is about.
LEMMA RefreshStep ==
    ASSUME FileInv, UNCHANGED <<tree, requestVars, results, step, recycled, alienVars>>,
           inventory' \subseteq Path, step = Idle
    PROVE  Shape' /\ Reported' /\ OutsideStays'
<1> USE DEF requestVars, alienVars
<1>1. Shape'
    BY DEF FileInv, Shape, planItems
<1>2. Reported'
    BY ReportedStep DEF FileInv, Exists
<1>3. OutsideStays'
    BY DEF FileInv, OutsideStays, Exists
<1> QED BY <1>1, <1>2, <1>3

LEMMA BeginRefreshStep ==
    ASSUME FileInv, BeginRefresh
    PROVE  FileInv'
<1>1. /\ UNCHANGED <<tree, inventory, requestVars, results, step, recycled, alienVars>>
      /\ step = Idle /\ Index > Len(request.items) /\ scopes' = Scopes /\ refresh' = "running"
      /\ inventory = DOMAIN origin
    BY DEF BeginRefresh, FileInv, InventoryFollows
<1>2. Shape /\ inventory \subseteq Path
    BY DEF FileInv, Shape
<1>3. Len(results) = Len(request.items)
    BY <1>1, <1>2, RequestIs DEF Shape, Index
<1>4. Scopes' = Scopes
    BY <1>1 DEF Scopes
<1>5. \A p : ~Read(p)'
    BY <1>1, <1>4 DEF Read
<1>6. InventoryFollows'
    BY <1>1, <1>3, <1>4, <1>5 DEF InventoryFollows, requestVars
<1>7. Shape' /\ Reported' /\ OutsideStays'
    BY <1>1, <1>2, RefreshStep
<1> QED BY <1>6, <1>7 DEF FileInv

LEMMA RefreshScopeStep ==
    ASSUME FileInv, RefreshScope
    PROVE  FileInv'
<1>1. /\ UNCHANGED <<tree, requestVars, results, step, recycled, alienVars>>
      /\ refresh = "running"
    BY DEF RefreshScope
<1>2. /\ Shape /\ inventory \subseteq Path /\ DOMAIN tree \subseteq Path
      /\ step = Idle /\ Len(results) = Len(request.items) /\ scopes \subseteq Scopes
      /\ \A p \in Path : Read(p) => (p \in inventory <=> Exists(p))
      /\ \A p \in Path : ~Read(p) => (p \in inventory <=> p \in DOMAIN origin)
    BY <1>1 DEF FileInv, InventoryFollows, Shape, IsTree
<1>3. Scopes' = Scopes
    BY <1>1 DEF Scopes
<1>4. ASSUME NEW scope \in scopes,
             inventory' = {p \in inventory : ~Below(p, scope)} \cup {p \in DOMAIN tree : Below(p, scope)},
             scopes' = scopes \ {scope}, refresh' = IF scopes' = {} THEN "ok" ELSE "running"
      PROVE  FileInv'
    <2>1. inventory' \subseteq Path
        BY <1>2, <1>4
    <2>2. \A p \in Path : Read(p)' <=> Read(p) \/ Below(p, scope)
        BY <1>2, <1>3, <1>4 DEF Read
    <2>3. \A p \in Path : Read(p)' => (p \in inventory' <=> p \in DOMAIN tree)
        BY <1>2, <1>4, <2>2 DEF Exists
    <2>4. \A p \in Path : ~Read(p)' => (p \in inventory' <=> p \in DOMAIN origin)
        BY <1>2, <1>4, <2>2
    <2>5. InventoryFollows'
        <3>1. UNCHANGED <<tree, origin, results, request, step>>
            BY <1>1 DEF requestVars
        <3>2. refresh' \in {"running", "ok"} /\ (refresh' = "ok" => scopes' = {})
            BY <1>4
        <3>3. scopes' \subseteq Scopes'
            BY <1>2, <1>3, <1>4
        <3> QED BY <1>2, <2>3, <2>4, <3>1, <3>2, <3>3 DEF InventoryFollows, Exists
    <2> QED BY <1>1, <1>2, <2>1, <2>5, RefreshStep DEF FileInv
<1>5. ASSUME refresh' = "REFRESH_FAILED", UNCHANGED <<inventory, scopes>>
      PROVE  FileInv'
    <2>1. InventoryFollows'
        BY <1>1, <1>2, <1>5 DEF InventoryFollows, requestVars
    <2> QED BY <1>1, <1>2, <1>5, <2>1, RefreshStep DEF FileInv
<1> QED BY <1>4, <1>5 DEF RefreshScope

-----------------------------------------------------------------------------
(* Another program.                                                        *)

\* What another program does while the service works leaves the inventory alone, and
\* the step in progress as it fits.
LEMMA AlienStep ==
    ASSUME FileInv, aliens' = aliens + 1, refresh = "none", touched \subseteq touched', touched' \subseteq Path,
           UNCHANGED <<inventory, requestVars, results, step, recycled, scopes, refresh>>,
           IsTree(tree'),
           \A p \in DOMAIN tree : p \notin touched' => p \in DOMAIN tree' /\ tree'[p] = tree[p],
           \A p \in DOMAIN tree' : p \notin touched' => p \in DOMAIN tree
    PROVE  FileInv'
<1> USE DEF requestVars
<1>1. Shape /\ Reported /\ InventoryFollows
    BY DEF FileInv
<1>2. aliens' \in Nat /\ aliens' # 0
    BY <1>1 DEF Shape
<1>3. ASSUME StepFits PROVE StepFits'
    <2>1. UNCHANGED <<Index, Item, Stopped>>
        BY DEF Index, Item, Stopped
    <2>2. Exists(step.dst)' /\ step.dst \notin touched' => Exists(step.dst)
        BY DEF Exists
    <2> QED BY <1>2, <1>3, <2>1, <2>2 DEF StepFits
<1>4. Shape'
    BY <1>1, <1>2, <1>3 DEF Shape, planItems
<1>5. Reported'
    <2>1. ASSUME NEW i \in DOMAIN request.items,
                 \A q \in touched' : ~Under(Source(i), q) /\ ~Under(q, Source(i)), Exists(Source(i))
          PROVE  Source(i) \in DOMAIN tree' /\ tree'[Source(i)] = tree[Source(i)]
        <3>1. Source(i) \in Seq(Name)
            BY <1>1, RequestIs
        <3>2. Source(i) \notin touched'
            BY <2>1, <3>1, UnderOrder
        <3> QED BY <2>1, <3>2 DEF Exists
    <2>2. UNCHANGED <<request, origin, results>> /\ touched \subseteq touched' /\ (aliens' = 0 => aliens = 0)
        BY <1>2
    <2> QED BY <1>1, <2>1, <2>2, ReportedStep
<1>6. OutsideStays'
    BY <1>2 DEF OutsideStays
<1>7. InventoryFollows'
    BY <1>1 DEF InventoryFollows
<1> QED BY <1>4, <1>5, <1>6, <1>7 DEF FileInv

LEMMA AlienSteps ==
    ASSUME FileInv, NEW p \in Reachable, AlienCreates(p) \/ AlienRemoves(p)
    PROVE  FileInv'
<1>1. IsTree(tree) /\ touched \subseteq Path /\ DOMAIN tree \subseteq Path
    BY DEF FileInv, Shape, IsTree
<1>2. p \in Path
    <2>1. ASSUME NEW q \in DOMAIN tree, NEW n \in Names PROVE Append(q, n) \in Path
        BY <1>1, FilesAssumption, InFolder DEF Path
    <2>2. p \in DOMAIN tree \/ \E q \in DOMAIN tree, n \in Names : p = Append(q, n)
        BY DEF Reachable
    <2> QED BY <1>1, <2>1, <2>2
<1>3. CASE AlienCreates(p)
    <2>1. /\ tree' = WithAlien(p) /\ aliens' = aliens + 1 /\ touched' = touched \cup {p} /\ refresh = "none"
          /\ UNCHANGED <<inventory, requestVars, results, step, recycled, scopes, refresh>>
          /\ ~Exists(p) /\ IsFolder(Parent(p)) /\ Alien \notin Range(tree)
        BY <1>3 DEF AlienCreates
    <2>2. /\ IsTree(tree')
          /\ \A q \in DOMAIN tree : q \in DOMAIN tree' /\ tree'[q] = tree[q]
        BY <1>1, <1>2, <2>1, CreatedTree
    <2>3. DOMAIN tree' = DOMAIN tree \cup {p}
        BY <2>1 DEF WithAlien
    <2> QED BY <1>1, <1>2, <2>1, <2>2, <2>3, AlienStep
<1>4. CASE AlienRemoves(p)
    <2>1. /\ tree' = Without(p) /\ aliens' = aliens + 1 /\ refresh = "none"
          /\ touched' = touched \cup {r \in DOMAIN tree : Under(r, p)}
          /\ UNCHANGED <<inventory, requestVars, results, step, recycled, scopes, refresh>>
        BY <1>4 DEF AlienRemoves
    <2>2. /\ IsTree(tree') /\ DOMAIN tree' = {q \in DOMAIN tree : ~Under(q, p)}
          /\ \A q \in DOMAIN tree' : tree'[q] = tree[q]
        BY <1>1, <1>2, <2>1, RemovedTree
    <2> QED BY <1>1, <2>1, <2>2, AlienStep
<1> QED BY <1>3, <1>4

-----------------------------------------------------------------------------
(* The invariant.                                                          *)

LEMMA FileInvInit == FileInit => FileInv
<1> SUFFICES ASSUME FileInit PROVE FileInv
    OBVIOUS
<1>1. /\ tree \in Trees /\ IsTree(tree) /\ origin = tree /\ inventory = DOMAIN tree
      /\ request \in Requests /\ Admissible(request)
      /\ results = <<>> /\ step = Idle /\ recycled = {} /\ scopes = {} /\ refresh = "none"
      /\ aliens = 0 /\ touched = {} /\ skips = planItems(request.items)
    BY FilesAssumption DEF FileInit
<1>2. Len(request.items) \in Nat /\ request.items = [i \in 1 .. Len(request.items) |-> request.items[i]]
    BY <1>1, FilesAssumption
<1>3. Len(request.items) # 0
    <2>1. ASSUME Len(request.items) = 0 PROVE FALSE
        <3>1. request.items = [i \in {} |-> request.items[i]]
            BY <1>2, <2>1
        <3>2. request.items = <<>>
            BY <3>1
        <3> QED BY <1>1, <3>2 DEF Admissible
    <2> QED BY <2>1
<1>4. results \in Seq(Result) /\ Len(results) = 0 /\ DOMAIN results = {}
    BY <1>1
<1>5. Shape
    BY <1>1, <1>2, <1>3, <1>4 DEF Shape, IsTree, Admissible
<1>6. Reported
    BY <1>1, <1>4 DEF Reported, SourcesStay, ItemsLanded, FailureStops, MissingWas, Exists
<1>7. OutsideStays
    BY <1>1 DEF OutsideStays, Exists
<1>8. InventoryFollows
    BY <1>1 DEF InventoryFollows
<1> QED BY <1>5, <1>6, <1>7, <1>8 DEF FileInv

LEMMA FileInvNext == FileInv /\ [FileNext]_fileVars => FileInv'
<1> SUFFICES ASSUME FileInv, [FileNext]_fileVars PROVE FileInv'
    OBVIOUS
<1>1. CASE System
    BY <1>1, PassStep, ClaimStep, ClaimRecoveryStep, RenameStep, RenameCheckedStep, RenameOverStep,
       BeginRefreshStep, RefreshScopeStep DEF System
<1>2. CASE \E p \in Reachable : AlienCreates(p) \/ AlienRemoves(p)
    BY <1>2, AlienSteps
<1>3. CASE UNCHANGED fileVars
    <2>1. UNCHANGED <<tree, inventory, request, skips, atomic, origin, results, step, recycled, scopes,
                      refresh, aliens, touched>>
        BY <1>3 DEF fileVars, requestVars, alienVars
    <2>2. Shape'
        <3>1. StepFits => StepFits'
            BY <2>1 DEF StepFits, Index, Item, Stopped, IsFolder, Exists
        <3> QED BY <2>1, <3>1 DEF FileInv, Shape, planItems
    <2>3. Reported'
        BY <2>1, ReportedStep DEF FileInv, Exists
    <2>4. OutsideStays'
        BY <2>1 DEF FileInv, OutsideStays, Exists
    <2>5. InventoryFollows'
        BY <2>1 DEF FileInv, InventoryFollows, Read, Scopes, Exists
    <2> QED BY <2>2, <2>3, <2>4, <2>5 DEF FileInv
<1> QED BY <1>1, <1>2, <1>3 DEF FileNext

LEMMA FileInvAlways == FileSpec => []FileInv
BY FileInvInit, FileInvNext, PTL DEF FileSpec

-----------------------------------------------------------------------------
\* The disk stays a tree, and the request is worked off in order.
THEOREM FilesTypeCorrect == FileSpec => []FileTypeOK
<1>1. FileInv => FileTypeOK
    BY DEF FileInv, Shape, StepFits, StepType, FileTypeOK
<1> QED BY <1>1, FileInvAlways, PTL

\* The report of a request is what happened on the disk, whatever another program does
\* meanwhile; no item of a batch is refused for what another item of it did; and a
\* refresh reported done leaves the inventory equal to the disk (service.go:79-237).
THEOREM BatchAlwaysReported == FileSpec => []BatchIsReported
<1> SUFFICES ASSUME FileInv PROVE BatchIsReported
    BY FileInvAlways, PTL
<1>1. /\ Shape /\ SourcesStay /\ ItemsLanded /\ FailureStops /\ MissingWas
      /\ OutsideStays /\ InventoryFollows
    BY DEF FileInv, Reported
<1>2. ReportIsTrue
    <2> SUFFICES ASSUME NEW i \in DOMAIN results
                 PROVE  /\ Status(i) = "ok" /\ Untouched(Source(i)) /\ Source(i) \in DOMAIN origin =>
                             \/ /\ results[i].place \in DOMAIN tree
                                /\ tree[results[i].place] = origin[Source(i)]
                             \/ results[i].place \in touched
                        /\ Untouched(Source(i)) /\ ~Carried(i) /\ Source(i) \in DOMAIN origin =>
                             Exists(Source(i)) /\ tree[Source(i)] = origin[Source(i)]
                        /\ Status(i) = "failed" => \A j \in DOMAIN results : j > i => Status(j) # "ok"
        BY DEF ReportIsTrue, Untouched, Carried, Source
    <2>1. i \in DOMAIN request.items
        BY <1>1, RequestIs
    <2> QED BY <1>1, <2>1 DEF ItemsLanded, SourcesStay, FailureStops
<1>3. BatchIsClean
    BY <1>1 DEF BatchIsClean, MissingWas, Source
<1>4. RefreshTellsDisk
    <2>1. ASSUME refresh = "ok", aliens = 0
          PROVE  /\ inventory \subseteq DOMAIN tree
                 /\ \A p \in DOMAIN tree : tree[p] # Folder \/ Below(p, Home) => p \in inventory
        <3>1. /\ scopes = {} /\ inventory \subseteq Path /\ DOMAIN tree \subseteq Path
              /\ \A p \in Path : Read(p) => (p \in inventory <=> Exists(p))
              /\ \A p \in Path : ~Read(p) => (p \in inventory <=> p \in DOMAIN origin)
            BY <1>1, <2>1 DEF InventoryFollows, Shape, IsTree
        <3>2. \A p : Below(p, Home) => Read(p)
            BY <3>1 DEF Read, Scopes
        <3>3. ASSUME NEW p \in inventory PROVE Exists(p)
            BY <1>1, <2>1, <3>1, <3>2 DEF OutsideStays
        <3>4. ASSUME NEW p \in DOMAIN tree, NEW r \in recycled, Under(p, r) PROVE Read(p)
            <4>1. r \in Path /\ r[1] = Bin /\ Len(r) > 1 /\ p \in Path
                BY <1>1, <3>1 DEF Shape
            <4>2. p[1] = Bin /\ Len(r) <= Len(p) /\ p \in Seq(Name) /\ r \in Seq(Name)
                BY <3>4, <4>1, InMember DEF Path
            <4>3. Below(p, <<Bin>>)
                <5>1. <<Bin>> \in Seq(Name) /\ Len(<<Bin>>) = 1 /\ <<Bin>>[1] = Bin
                    BY FilesAssumption
                <5>2. Len(p) > 1
                    BY <4>1, <4>2
                <5> DEFINE bin == <<Bin>>
                <5> HIDE DEF bin
                <5>3. Under(p, bin) /\ p # bin
                    <6>1. bin \in Seq(Name) /\ Len(bin) = 1 /\ bin[1] = Bin
                        BY <5>1 DEF bin
                    <6>2. Under(p, bin) <=> Len(bin) <= Len(p) /\ \A i \in 1 .. Len(bin) : p[i] = bin[i]
                        BY <4>2, <6>1, UnderIndexes
                    <6>3. 1 <= Len(p) /\ \A i \in 1 .. Len(bin) : p[i] = bin[i]
                        BY <4>2, <5>2, <6>1
                    <6>4. p = bin => Len(p) = 1
                        BY ONLY <6>1
                    <6>5. Under(p, bin)
                        BY ONLY <6>1, <6>2, <6>3
                    <6>6. p # bin
                        BY ONLY <5>2, <6>4
                    <6> QED BY <6>5, <6>6
                <5> QED BY <4>2, <5>1, <5>3, BelowUnder DEF bin
            <4>4. <<r[1]>> \in Scopes
                BY DEF Scopes
            <4> QED BY <3>1, <4>1, <4>3, <4>4 DEF Read
        <3>5. ASSUME NEW p \in DOMAIN tree, tree[p] # Folder \/ Below(p, Home) PROVE p \in inventory
            <4>1. CASE Read(p)
                BY <3>1, <4>1 DEF Exists
            <4>2. CASE ~Read(p)
                <5>1. ~Below(p, Home) /\ tree[p] # Folder /\ ~ \E r \in recycled : Under(p, r)
                    BY <3>2, <3>4, <3>5, <4>2
                <5>2. p \in DOMAIN origin
                    BY <1>1, <2>1, <5>1 DEF OutsideStays
                <5> QED BY <3>1, <4>2, <5>2
            <4> QED BY <4>1, <4>2
        <3> QED BY <3>3, <3>5 DEF Exists
    <2>2. Done => Len(results) = Len(request.items)
        BY <1>1 DEF Done, InventoryFollows
    <2> QED BY <2>1, <2>2 DEF RefreshTellsDisk
<1> QED BY <1>2, <1>3, <1>4 DEF BatchIsReported

\* No request ever destroys a file: only the fallback of a filesystem without an atomic
\* rename may replace one that appeared between its look and its rename
\* (ops.go:88-91, 234-253, rename_noreplace_linux.go:33-42).
THEOREM NothingIsOverwritten == FileSpec => NothingOverwritten
<1> DEFINE Kept == aliens' = aliens =>
                     \/ FilesOf(tree) \subseteq FilesOf(tree')
                     \/ ~atomic /\ step.at = "replace" /\ step.dst \in touched
<1>1. ASSUME FileInv, FileNext PROVE Kept
    <2>1. Shape /\ aliens \in Nat /\ IsTree(tree)
        BY <1>1 DEF FileInv, Shape
    <2>2. CASE UNCHANGED tree
        BY <2>2
    <2>3. CASE aliens' = aliens + 1
        BY <2>1, <2>3
    <2>4. CASE ClaimRecovery
        <3>1. CASE \A p \in DOMAIN tree : p \in DOMAIN tree' /\ tree'[p] = tree[p]
            BY <3>1 DEF FilesOf, Range
        <3>2. CASE tree' = MkdirAll(RecoveryDir(Item.source))
            BY <3>1, <3>2 DEF MkdirAll
        <3>3. UNCHANGED tree \/ tree' = MkdirAll(RecoveryDir(Item.source))
            BY <2>4 DEF ClaimRecovery
        <3> QED BY <2>2, <3>2, <3>3
    <2>5. CASE step # Idle /\ Land /\ Possible
                 /\ (Exists(step.dst) => tree[step.dst] # Folder /\ tree[step.src] # Folder)
                 /\ (step.at # "replace" => ~Exists(step.dst))
        <3>1. StepFits /\ step.src \in Path /\ step.dst \in Path
            BY <1>1, <2>5, StepIs
        <3>2. Movable(step.src, step.dst)
            BY <2>5, <3>1 DEF Movable, Possible, StepFits
        <3>3. tree' = Renamed(step.src, step.dst)
            BY <2>5 DEF Land
        <3>4. CASE ~Exists(step.dst)
            BY <2>1, <3>2, <3>3, <3>4, RenamedKeeps
        <3>5. CASE Exists(step.dst)
            BY <2>5, <3>1, <3>5 DEF StepFits
        <3> QED BY <3>4, <3>5
    <2>6. ASSUME Rename \/ RenameOver PROVE Kept
        <3>1. step # Idle
            BY <2>6 DEF Rename, RenameOver, Idle
        <3> QED BY <2>2, <2>5, <2>6, <3>1 DEF Rename, RenameOver, RefusedRename
    <2>7. ASSUME Pass \/ Claim \/ RenameChecked \/ BeginRefresh \/ RefreshScope PROVE UNCHANGED tree
        BY <2>7 DEF Pass, Claim, RenameChecked, BeginRefresh, RefreshScope
    <2>8. ASSUME NEW p \in Reachable, AlienCreates(p) \/ AlienRemoves(p) PROVE aliens' = aliens + 1
        BY <2>8 DEF AlienCreates, AlienRemoves
    <2> QED BY <1>1, <2>2, <2>3, <2>4, <2>6, <2>7, <2>8 DEF FileNext, System
<1>2. FileInv /\ [FileNext]_fileVars => [Kept]_fileVars
    BY <1>1
<1> QED BY <1>2, FileInvAlways, PTL DEF FileSpec, NothingOverwritten

=============================================================================
