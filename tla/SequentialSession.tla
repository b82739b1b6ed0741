-------------------------- MODULE SequentialSession --------------------------
(***************************************************************************)
(* What an execution session promises to whoever reads its row, its        *)
(* component results and the disk, whatever pool and window run it: the    *)
(* frozen units change the disk one at a time and in frozen order, each    *)
(* only after the success of every earlier one is durable, and a terminal  *)
(* status is the end of every change (docs/adr/0007, decisions 3 to 5).    *)
(***************************************************************************)
EXTENDS Naturals

CONSTANT NumUnits

Unit == 1 .. NumUnits

VARIABLES session,          \* status of the execution row
          cancelRequested,  \* the user asked for the stop
          rows,             \* status of each component result row
          disk              \* how much of each unit's commit landed

vars == <<session, cancelRequested, rows, disk>>

Init ==
    /\ session = "queued"
    /\ cancelRequested = FALSE
    /\ rows = [u \in Unit |-> "none"]
    /\ disk = [u \in Unit |-> "untouched"]

Claim ==
    /\ session = "queued"
    /\ session' = "running"
    /\ UNCHANGED <<cancelRequested, rows, disk>>

Cancel ==
    \/ /\ session = "queued"
       /\ session' = "canceled"
       /\ UNCHANGED <<cancelRequested, rows, disk>>
    \/ /\ session = "running"
       /\ cancelRequested' = TRUE
       /\ UNCHANGED <<session, rows, disk>>

\* The turn of u: every earlier unit is durably done, and no later one has a
\* result yet.
Turn(u) ==
    /\ session = "running"
    /\ \A v \in Unit : rows[v] = IF v < u THEN "succeeded" ELSE "none"

Commit(u) ==
    /\ Turn(u)
    /\ disk[u] = "untouched"
    /\ disk' \in {[disk EXCEPT ![u] = d] : d \in {"partial", "landed"}}
    /\ UNCHANGED <<session, cancelRequested, rows>>

\* A unit that landed has succeeded, and one that did not has not.
Record(u, status) ==
    /\ Turn(u)
    /\ (status = "succeeded") <=> (disk[u] = "landed")
    /\ status = "canceled" => cancelRequested \/ \E v \in Unit : v > u
    /\ rows' = [rows EXCEPT ![u] = status]
    /\ UNCHANGED <<session, cancelRequested, disk>>

\* The end of a stopped session: at most one unit that was never committed is
\* named as the failure, the others stay pending.
NameFailure(u) ==
    /\ session = "running"
    /\ disk[u] = "untouched" /\ rows[u] = "none"
    /\ \A v \in Unit : rows[v] # "pending"
    /\ rows' = [rows EXCEPT ![u] = "failed"]
    /\ UNCHANGED <<session, cancelRequested, disk>>

LeavePending(u) ==
    /\ session = "running"
    /\ disk[u] = "untouched" /\ rows[u] = "none"
    /\ rows' = [rows EXCEPT ![u] = "pending"]
    /\ UNCHANGED <<session, cancelRequested, disk>>

Finish ==
    /\ session = "running"
    /\ \/ session' = "succeeded" /\ \A u \in Unit : rows[u] = "succeeded"
       \/ session' = "canceled" /\ cancelRequested /\ \A u \in Unit : rows[u] # "failed"
       \/ session' = "failed"
    /\ UNCHANGED <<cancelRequested, rows, disk>>

Interrupt ==
    /\ session \in {"queued", "running"}
    /\ session' = "interrupted"
    /\ UNCHANGED <<cancelRequested, rows, disk>>

Next ==
    \/ Claim \/ Cancel \/ Finish \/ Interrupt
    \/ \E u \in Unit :
         \/ Commit(u)
         \/ \E status \in {"succeeded", "failed", "canceled"} : Record(u, status)
         \/ NameFailure(u)
         \/ LeavePending(u)

Spec == Init /\ [][Next]_vars
=============================================================================
