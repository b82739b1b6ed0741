---------------------------- MODULE AdmissionGate ----------------------------
(***************************************************************************)
(* The process-wide admission control, internal/admission/gate.go, and the *)
(* callers that share it: scans (inventory/entry.go), direct file          *)
(* management and library changes (fileops, library), the enqueue of       *)
(* planning and execution sessions (workset), and the maintenance pass     *)
(* (app/maintenance.go).                                                   *)
(*                                                                         *)
(* The gate's own critical sections are one action each.  What a caller    *)
(* reads before it enters one, and the life of a session row after its     *)
(* enqueue, happen outside the mutex.                                      *)
(***************************************************************************)
EXTENDS Naturals, FiniteSets

CONSTANTS Scans,        \* scanning requests
          Refreshes,    \* those of them that re-read one member directory
          Files,        \* file management and library change requests
          Sessions,     \* start requests of planning sessions and executions
          Executions    \* those of them that start an execution

ASSUME AdmissionAssumption ==
    /\ IsFiniteSet(Scans)
    /\ Refreshes \subseteq Scans
    /\ Executions \subseteq Sessions

VARIABLES
    \* Gate
    manual,     \* the direct-file-management slot is held
    maint,      \* the maintenance slot is held
    scans,      \* scanning operations registered
    \* the callers
    scan,       \* the step each scanning request is at
    file,       \* the step each file request is at
    session,    \* the step of each start request, then the status of its row
    pass,       \* the maintenance pass
    reading     \* who has an unfinished row in scan_sessions

gate == <<manual, maint, scans>>
callers == <<scan, file, session, pass, reading>>
vars == <<gate, callers>>

-----------------------------------------------------------------------------
Held == {c \in Scans : scan[c] \in {"admitted", "scanning"}}
Live == {x \in Sessions : session[x] \in {"queued", "running", "stranded"}}

\* Gate.tasks, HasActiveSession: a queued or running row of either kind.
TasksActive == Live # {}

\* Mutant: a running scan is overlooked.
NobodyActiveButScans == ~manual /\ ~maint /\ ~TasksActive
NobodyActive == ~manual /\ ~maint /\ scans = 0 /\ ~TasksActive

Init ==
    /\ manual = FALSE
    /\ maint = FALSE
    /\ scans = 0
    /\ scan = [c \in Scans |-> "idle"]
    /\ file = [f \in Files |-> "idle"]
    /\ session = [x \in Sessions |-> "idle"]
    /\ pass = "idle"
    /\ reading = {}

-----------------------------------------------------------------------------
(* Scans.                                                                  *)

\* AdmitLibraryScan asks the database for executions before it asks the gate.
CheckExecutions(c) ==
    /\ c \notin Refreshes
    /\ scan[c] = "idle"
    /\ Live \cap Executions = {}
    /\ scan' = [scan EXCEPT ![c] = "checked"]
    /\ UNCHANGED <<gate, file, session, pass, reading>>

\* AdmitMemberRefresh asks the gate only.
MayEnter(c) == scan[c] = "checked" \/ (c \in Refreshes /\ scan[c] = "idle")

BeginScan(c) ==
    /\ MayEnter(c)
    /\ IF manual \/ maint
       THEN /\ scan' = [scan EXCEPT ![c] = "idle"]
            /\ UNCHANGED gate
       ELSE /\ scans' = scans + 1
            /\ scan' = [scan EXCEPT ![c] = "admitted"]
            /\ UNCHANGED <<manual, maint>>
    /\ UNCHANGED <<file, session, pass, reading>>

\* CreateScanSession: the row that HasActiveScanForRoot sees.
StartScan(c) ==
    /\ scan[c] = "admitted"
    /\ scan' = [scan EXCEPT ![c] = "scanning"]
    /\ reading' = reading \cup {c}
    /\ UNCHANGED <<gate, file, session, pass>>

\* Mutant: the release is not guarded against a second call.
ReleaseScanTwice ==
    /\ scans' = scans - 2
    /\ UNCHANGED <<manual, maint>>

\* Mutant: the count is left alone.
ReleaseScanForgotten == UNCHANGED gate

\* releaseScan never counts below zero.
ReleaseScan ==
    /\ scans' = IF scans > 0 THEN scans - 1 ELSE scans
    /\ UNCHANGED <<manual, maint>>

\* The scan ends and hands its slot back; a request refused by the stream or by
\* root validation never scanned.  The terminal status of the row may fail to
\* be written, which leaves it unfinished.
EndScan(c) ==
    /\ c \in Held
    /\ scan' = [scan EXCEPT ![c] = "idle"]
    /\ reading' \in {reading, reading \ {c}}
    /\ ReleaseScan
    /\ UNCHANGED <<file, session, pass>>

-----------------------------------------------------------------------------
(* Direct file management, library root changes and library deletion.      *)

BeginManual(f) ==
    /\ file[f] = "idle"
    /\ NobodyActive
    /\ manual' = TRUE
    /\ file' = [file EXCEPT ![f] = "working"]
    /\ UNCHANGED <<maint, scans, scan, session, pass, reading>>

\* The refresh that follows a write runs inside the slot.
EndManual(f) ==
    /\ file[f] = "working"
    /\ manual' = FALSE
    /\ file' = [file EXCEPT ![f] = "idle"]
    /\ UNCHANGED <<maint, scans, scan, session, pass, reading>>

-----------------------------------------------------------------------------
(* Planning sessions and executions.                                       *)

\* StartGeneration and StartExecution look for an unfinished scan of the root
\* well before they enqueue.
CheckScans(x) ==
    /\ session[x] = "idle"
    /\ reading = {}
    /\ session' = [session EXCEPT ![x] = "checked"]
    /\ UNCHANGED <<gate, scan, file, pass, reading>>

\* Enqueue: the insert happens inside the critical section; it may be refused
\* by the database as well.
Enqueue(x) ==
    /\ session[x] = "checked"
    /\ \/ session' = [session EXCEPT ![x] = "idle"]
       \/ ~manual /\ ~maint /\ session' = [session EXCEPT ![x] = "queued"]
    /\ UNCHANGED <<gate, scan, file, pass, reading>>

\* The dispatcher claims a row; executions run one at a time.
ClaimSession(x) ==
    /\ session[x] = "queued"
    /\ x \in Executions => \A y \in Executions : session[y] # "running"
    /\ session' = [session EXCEPT ![x] = "running"]
    /\ UNCHANGED <<gate, scan, file, pass, reading>>

\* refreshRoots: a session re-reads its folders without taking the slot.
RefreshRoots(x) ==
    /\ session[x] = "running"
    /\ \/ reading' = reading \cup {x}
       \/ reading' = reading \ {x}
    /\ UNCHANGED <<gate, scan, file, session, pass>>

\* The row turns terminal after the session's last disk access, or while it is
\* still queued.
EndSession(x) ==
    /\ session[x] = "queued" \/ (session[x] = "running" /\ x \notin reading)
    /\ session' = [session EXCEPT ![x] = "idle"]
    /\ UNCHANGED <<gate, scan, file, pass, reading>>

-----------------------------------------------------------------------------
(* The maintenance pass: one slot per batch.                               *)

BeginMaintenance ==
    /\ pass \in {"idle", "yielding"}
    /\ IF NobodyActive
       THEN maint' = TRUE /\ pass' = "batch"
       ELSE pass' = "idle" /\ UNCHANGED maint
    /\ UNCHANGED <<manual, scans, scan, file, session, reading>>

\* slot.drop, between two batches or at the end of the pass.
DropSlot ==
    /\ pass = "batch"
    /\ maint' = FALSE
    /\ pass' \in {"idle", "yielding"}
    /\ UNCHANGED <<manual, scans, scan, file, session, reading>>

\* A pass whose context ended while it yielded.
AbandonPass ==
    /\ pass = "yielding"
    /\ pass' = "idle"
    /\ UNCHANGED <<gate, scan, file, session, reading>>

\* The process dies and starts again.  interruptStaleSessions ends the rows of
\* the previous process before anything runs; each of its writes may fail, is
\* logged, and leaves its rows behind: a queued one is claimed later, a running
\* one has nobody to end it.
Leftover(status) ==
    CASE status = "queued" -> "queued"
      [] status \in {"running", "stranded"} -> "stranded"
      [] OTHER -> "idle"

Restart ==
    /\ manual' = FALSE /\ maint' = FALSE /\ scans' = 0
    /\ scan' = [c \in Scans |-> "idle"]
    /\ file' = [f \in Files |-> "idle"]
    /\ \E ended \in {{}, Executions, Sessions \ Executions, Sessions} :
         session' = [x \in Sessions |->
                       IF x \in ended THEN "idle" ELSE Leftover(session[x])]
    /\ pass' = "idle"
    /\ reading' \in {reading, {}}

-----------------------------------------------------------------------------
Next ==
    \/ \E c \in Scans : CheckExecutions(c) \/ BeginScan(c) \/ StartScan(c) \/ EndScan(c)
    \/ \E f \in Files : BeginManual(f) \/ EndManual(f)
    \/ \E x \in Sessions :
         \/ CheckScans(x) \/ Enqueue(x) \/ ClaimSession(x)
         \/ RefreshRoots(x) \/ EndSession(x)
    \/ BeginMaintenance \/ DropSlot \/ AbandonPass
    \/ Restart

Spec == Init /\ [][Next]_vars
-----------------------------------------------------------------------------
(* Properties.                                                             *)

\* Every variable keeps its shape; the scan count never goes below zero.
TypeOK ==
    /\ manual \in BOOLEAN
    /\ maint \in BOOLEAN
    /\ scans \in Nat
    /\ scan \in [Scans -> {"idle", "checked", "admitted", "scanning"}]
    /\ file \in [Files -> {"idle", "working"}]
    /\ session \in [Sessions -> {"idle", "checked", "queued", "running", "stranded"}]
    /\ pass \in {"idle", "batch", "yielding"}
    /\ reading \in SUBSET (Scans \cup Sessions)

\* Whoever works under an exclusive slot works alone: no scan, no queued or
\* running session, no maintenance batch and no other file request exists
\* meanwhile (Gate: "a pass can never start alongside the work it would race").
Alone == Held = {} /\ Live = {}

SlotExclusion ==
    /\ \A f \in Files : file[f] = "working" =>
         /\ Alone
         /\ pass # "batch"
         /\ \A other \in Files \ {f} : file[other] = "idle"
    /\ pass = "batch" => Alone

\* The gate's fields say who is inside: a slot nobody works under would refuse
\* every later request, an unregistered scan would be overlooked (every
\* release "must be called exactly once").
SlotAccounts ==
    /\ manual = (\E f \in Files : file[f] = "working")
    /\ maint = (pass = "batch")
    /\ scans = Cardinality(Held)

\* Whoever holds an exclusive slot works alone, and the gate knows who is inside:
\* a check that is right now is right about everybody (Gate.activeLocked).
SlotsAreKept == SlotExclusion /\ SlotAccounts

\* "sessions run one at a time ... and a scan can never overlap an execution"
\* (internal/workset/execution_worker.go:38-40), stated of full scans.
ScanNeverOverlapsExecution ==
    ~ \E c \in Scans \ Refreshes, x \in Executions :
        scan[c] = "scanning" /\ session[x] = "running"
=============================================================================
