-------------------------- MODULE ExecutionSession --------------------------
(***************************************************************************)
(* One execution session of the backend, from the claim of its queued row  *)
(* to the terminal write: internal/workset/execution_worker.go (the        *)
(* coordinator) and execution_pool.go (the encode pool).                   *)
(*                                                                         *)
(* The coordinator prepares frozen units into a window of at most Window   *)
(* open units, hands their encode tasks to Window workers over a FIFO of   *)
(* the same capacity, and commits the units one at a time in frozen order. *)
(* Workers, the watcher of the cancel flag, the user and a crash of the    *)
(* process interleave with it at every step.                               *)
(*                                                                         *)
(* A unit is its position in the frozen worklist, a task a pair of a unit  *)
(* and an index.  What a commit does inside one unit is abstracted to what *)
(* it may leave on disk: nothing, a part of the operations, all of them.   *)
(***************************************************************************)
EXTENDS Naturals, Sequences, FiniteSets

CONSTANTS NumUnits,     \* units in the frozen worklist
          Tasks,        \* encode tasks each unit declares
          Window        \* open units, workers and queue capacity

Unit == 1 .. NumUnits

ASSUME SessionAssumption ==
    /\ NumUnits \in Nat
    /\ Tasks \in [Unit -> Nat]
    /\ Window \in Nat \ {0}

VARIABLES
    \* the coordinator: sessionRun and the locals of executeRun
    pc,         \* the step it is at
    cursor,     \* the frozen position being committed
    next,       \* the next unit to prepare
    open,       \* prepared and uncommitted units, in frozen order
    deliver,    \* the next task of the unit being delivered
    result,     \* what the head's Commit returned
    observed,   \* the stop that ended the loop
    ending,     \* which teardown runs
    verdict,    \* the terminal write it will make
    \* the pool, shared with the workers
    queue,      \* encodePool.jobs
    phase,      \* what became of each task
    delivered,  \* openUnit.delivered
    completed,  \* openUnit.completed
    failure,    \* openUnit.failure
    ended,      \* openUnit.ended
    stop,       \* encodePool.stop
    canceled,   \* the session context is done
    \* the disk
    disk,       \* how much of a unit's commit landed
    staged,     \* tasks whose staged temp may be on disk
    \* the database
    session,    \* status, error code and failing unit of the execution row
    cancelRequested,
    position,   \* current_component_index, 0 for the empty position
    rows,       \* execution_component_results
    inventory   \* units whose disk changes the entries inventory shows

loop == <<cursor, next, open, deliver, result>>
exit == <<observed, ending, verdict>>
coordinator == <<pc, loop, exit>>
trackers == <<delivered, completed, failure, ended>>
pool == <<queue, phase, trackers, stop, canceled>>
files == <<disk, staged>>
db == <<session, cancelRequested, position, rows, inventory>>
vars == <<coordinator, pool, files, db>>

-----------------------------------------------------------------------------
Task == UNION {{<<u, i>> : i \in 1 .. Tasks[u]} : u \in Unit}
TasksOf(u) == {<<u, i>> : i \in 1 .. Tasks[u]}

Stop(u, at) == [unit |-> u, at |-> at]
NoStop == Stop(0, "none")
CancelStop == Stop(0, "cancel")        \* canceledStop: a stop without an error
StopType == {NoStop, CancelStop}
              \cup [unit : Unit, at : {"prepare", "encode", "commit"}]

Verdict(s, c, u) == [status |-> s, code |-> c, unit |-> u]
VerdictType == [status : {"queued", "running", "succeeded", "failed", "canceled",
                          "interrupted"},
                code : {"none", "inputs", "persist", "unit", "canceled", "interrupted"},
                unit : Unit \cup {0}]
Active == {"queued", "running"}

Row(status, synced) == [status |-> status, synced |-> synced]
NoRow == Row("none", FALSE)
RowType == [status : {"none", "pending", "succeeded", "failed", "canceled"},
            synced : BOOLEAN]
NoResult == [unit |-> 0, row |-> NoRow]

PhaseValues == {"idle", "encoding", "refused", "encoded", "reporting", "failed", "aborted"}

PcValues ==
    {"queued", "verify", "top", "fill", "deliver", "count", "wait", "woken",
     "admit", "commit", "sync", "record", "settle", "join", "report",
     "discard", "finish", "done", "crashed", "restarted"}

\* sealLocked runs at every change of ended and completed, and delivered only
\* grows before ended, so the flag is this predicate.
Sealed(u) == ended[u] /\ completed[u] >= delivered[u]

\* Mutant: the permit forgets failed tasks.
CommittableFailed(u) == Sealed(u) /\ delivered[u] = Tasks[u]

Committable(u) ==
    /\ Sealed(u)
    /\ delivered[u] = Tasks[u]
    /\ failure[u] = "none"

\* The stop pending at this instant: the first real failure, or the
\* cancellation when none was recorded.
StopNow ==
    IF stop # NoStop THEN stop
    ELSE IF canceled THEN CancelStop ELSE NoStop

\* requestStop: recorded once, before the context is canceled.
RequestStop(s) ==
    /\ stop' = IF stop = NoStop THEN s ELSE stop
    /\ canceled' = TRUE

Busy == {t \in Task : phase[t] \in {"encoding", "refused", "reporting"}}
Goto(label) == pc' = label

Init ==
    /\ pc = "queued"
    /\ cursor = 1
    /\ next = 1
    /\ open = <<>>
    /\ deliver = 1
    /\ result = NoResult
    /\ observed = NoStop
    /\ ending = "none"
    /\ verdict = Verdict("running", "none", 0)
    /\ queue = <<>>
    /\ phase = [t \in Task |-> "idle"]
    /\ delivered = [u \in Unit |-> 0]
    /\ completed = [u \in Unit |-> 0]
    /\ failure = [u \in Unit |-> "none"]
    /\ ended = [u \in Unit |-> FALSE]
    /\ stop = NoStop
    /\ canceled = FALSE
    /\ disk = [u \in Unit |-> "untouched"]
    /\ staged = {}
    /\ session = Verdict("queued", "none", 0)
    /\ cancelRequested = FALSE
    /\ position = 0
    /\ rows = [u \in Unit |-> NoRow]
    /\ inventory = {}

-----------------------------------------------------------------------------
(* Claim and verification.                                                 *)

\* NextQueuedExecution: the oldest queued row becomes running in one immediate
\* transaction; a session canceled while queued is never claimed.
Claim ==
    /\ pc = "queued"
    /\ session.status = "queued"
    /\ session' = Verdict("running", "none", 0)
    /\ Goto("verify")
    /\ UNCHANGED <<loop, exit, pool, files, cancelRequested, position, rows,
                   inventory>>

EndWith(v) ==
    /\ verdict' = v
    /\ Goto("finish")

\* prepareExecution, verifyInputs and worklistReady: nothing is written before
\* they pass.  An interrupted scan of a canceled session ends it canceled.
VerifyInputs ==
    /\ pc = "verify"
    /\ \/ EndWith(Verdict("failed", "inputs", 0))
       \/ canceled /\ EndWith(Verdict("canceled", "canceled", 0))
       \/ IF NumUnits = 0
          THEN EndWith(Verdict("succeeded", "none", 0))
          ELSE Goto("top") /\ UNCHANGED verdict
    /\ UNCHANGED <<loop, observed, ending, pool, files, db>>

-----------------------------------------------------------------------------
(* The commit loop of executeRun.                                          *)

\* Every way out of the loop closes the queue and cancels the context first
\* (encodePool.shutdown); Join then waits for the workers.
Teardown(s, kind) ==
    /\ observed' = s
    /\ ending' = kind
    /\ canceled' = TRUE
    /\ Goto("join")

\* The head of an iteration: the stop check, and for the first unit the write
\* of its position, whose failure is ignored.
LoopTop ==
    /\ pc = "top"
    /\ IF StopNow # NoStop
       THEN Teardown(StopNow, "stop") /\ UNCHANGED position
       ELSE /\ Goto("fill")
            /\ \/ UNCHANGED position
               \/ cursor = 1 /\ position' = 1
            /\ UNCHANGED <<observed, ending, canceled>>
    /\ UNCHANGED <<loop, verdict, queue, phase, trackers, stop, files, session,
                   cancelRequested, rows, inventory>>

\* Room for one more open unit; the mutant is off by one.
RoomForOneMore == Len(open) <= Window
Room == Len(open) < Window

\* One call of PrepareUnit: it registers the unit, or is refused because the
\* context is done, or fails with an error of this very unit.
PrepareUnit ==
    /\ pc = "fill"
    /\ Room
    /\ next <= NumUnits
    /\ \/ /\ open' = Append(open, next)
          /\ deliver' = 1
          /\ Goto("deliver")
          /\ UNCHANGED <<observed, ending, stop, canceled>>
       \/ /\ canceled
          /\ Teardown(CancelStop, "stop")
          /\ UNCHANGED <<open, deliver, stop>>
       \/ /\ RequestStop(Stop(next, "prepare"))
          /\ Teardown(Stop(next, "prepare"), "stop")
          /\ UNCHANGED <<open, deliver>>
    /\ UNCHANGED <<cursor, next, result, verdict, queue, phase, trackers,
                   files, db>>

\* The window is full or the worklist is exhausted.
FillEnds ==
    /\ pc = "fill"
    /\ ~Room \/ next > NumUnits
    /\ Goto("wait")
    /\ UNCHANGED <<loop, exit, pool, files, db>>

\* The select of deliver: a send into the bounded queue, counted only in the
\* step after it (a worker may have returned the task by then) ...
SendTask ==
    /\ pc = "deliver"
    /\ deliver <= Tasks[next]
    /\ Len(queue) < Window
    /\ queue' = Append(queue, <<next, deliver>>)
    /\ Goto("count")
    /\ UNCHANGED <<loop, exit, phase, trackers, stop, canceled, files, db>>

CountTask ==
    /\ pc = "count"
    /\ delivered' = [delivered EXCEPT ![next] = @ + 1]
    /\ deliver' = deliver + 1
    /\ Goto("deliver")
    /\ UNCHANGED <<cursor, next, open, result, exit, queue, phase, completed,
                   failure, ended, stop, canceled, files, db>>

\* ... or the stop, which ends the delivery short; next is not advanced.
AbortDelivery ==
    /\ pc = "deliver"
    /\ deliver <= Tasks[next]
    /\ canceled
    /\ ended' = [ended EXCEPT ![next] = TRUE]
    /\ Teardown(StopNow, "stop")
    /\ UNCHANGED <<loop, verdict, queue, phase, delivered, completed, failure,
                   stop, files, db>>

\* Mutant: a delivery that ran to its end is not marked ended.
EndDeliveryUnsealed ==
    /\ pc = "deliver"
    /\ deliver > Tasks[next]
    /\ next' = next + 1
    /\ deliver' = 1
    /\ Goto("fill")
    /\ UNCHANGED <<cursor, open, result, exit, pool, files, db>>

EndDelivery ==
    /\ pc = "deliver"
    /\ deliver > Tasks[next]
    /\ ended' = [ended EXCEPT ![next] = TRUE]
    /\ next' = next + 1
    /\ deliver' = 1
    /\ Goto("fill")
    /\ UNCHANGED <<cursor, open, result, exit, queue, phase, delivered,
                   completed, failure, stop, canceled, files, db>>

\* wait: the select on the head's done channel and the session context.
WaitHead ==
    /\ pc = "wait"
    /\ Sealed(Head(open)) \/ canceled
    /\ Goto("woken")
    /\ UNCHANGED <<loop, exit, pool, files, db>>

\* Waking is no commit permit: a stop wins, and a head that was sealed short or
\* with a failed task stops the session even before its error is recorded.
CheckHead ==
    /\ pc = "woken"
    /\ IF StopNow # NoStop THEN Teardown(StopNow, "stop")
       ELSE IF ~Committable(Head(open)) THEN Teardown(CancelStop, "stop")
       ELSE Goto("admit") /\ UNCHANGED <<observed, ending, canceled>>
    /\ UNCHANGED <<loop, verdict, queue, phase, trackers, stop, files, db>>

\* The recheck executeRun itself makes before Commit.
AdmitCommit ==
    /\ pc = "admit"
    /\ IF StopNow # NoStop
       THEN Teardown(StopNow, "stop")
       ELSE Goto("commit") /\ UNCHANGED <<observed, ending, canceled>>
    /\ UNCHANGED <<loop, verdict, queue, phase, trackers, stop, files, db>>

\* What Commit may leave on disk for each of its outcomes: a validation
\* failure touches nothing, a later stop keeps what had already landed.
Landed(status) ==
    IF status = "succeeded" THEN {"landed"} ELSE {"untouched", "partial"}

\* Commit returns; its staged outputs were renamed into place or cleaned, and
\* the head leaves the window.  It answers canceled only for a done context.
CommitReturns ==
    /\ pc = "commit"
    /\ \E status \in {"succeeded", "failed"} \cup (IF canceled THEN {"canceled"} ELSE {}) :
         /\ result' = [unit |-> Head(open), row |-> Row(status, FALSE)]
         /\ \E d \in Landed(status) : disk' = [disk EXCEPT ![Head(open)] = d]
    /\ staged' = staged \ TasksOf(Head(open))
    /\ open' = Tail(open)
    /\ Goto("sync")
    /\ UNCHANGED <<cursor, next, deliver, exit, pool, db>>

\* syncUnitInventory: a transaction of its own before the result row; its
\* failure is disclosed on the row.
SyncInventory ==
    /\ pc = "sync"
    /\ \/ /\ result' = [result EXCEPT !.row.synced = TRUE]
          /\ inventory' = inventory \cup {result.unit}
       \/ UNCHANGED <<result, inventory>>
    /\ Goto("record")
    /\ UNCHANGED <<cursor, next, open, deliver, exit, pool, files, session,
                   cancelRequested, position, rows>>

\* Mutant: the boundary write names one past the end.
UnboundedPosition(u) == u + 1
NextPosition(u) == IF u < NumUnits THEN u + 1 ELSE 0

\* SaveExecutionComponentResult: the row and the position in one transaction.
SaveResult(u, row, at) ==
    /\ rows' = [rows EXCEPT ![u] = row]
    /\ position' = at

\* persistUnitResult retries the write and then gives up: the session stops
\* behind its head with a code of its own (stopAfterHead).
RecordHead ==
    /\ pc = "record"
    /\ \/ /\ SaveResult(result.unit, result.row, NextPosition(cursor))
          /\ Goto("settle")
          /\ UNCHANGED <<observed, ending, canceled, verdict>>
       \/ /\ Teardown(NoStop, "head")
          /\ verdict' = Verdict("failed", "persist", result.unit)
          /\ UNCHANGED <<rows, position>>
    /\ UNCHANGED <<loop, queue, phase, trackers, stop, files, session,
                   cancelRequested, inventory>>

\* settleHead: a failed head enters the one stop path, already reported; a stop
\* recorded while it committed ends the session.  (A canceled entry implies a
\* done context, so its own branch there is never the one taken.)
SettleHead ==
    /\ pc = "settle"
    /\ IF result.row.status = "failed"
       THEN /\ RequestStop(Stop(result.unit, "commit"))
            /\ Teardown(stop', "stop")
            /\ UNCHANGED cursor
       ELSE IF StopNow # NoStop
       THEN Teardown(StopNow, "stop") /\ UNCHANGED <<stop, cursor>>
       ELSE IF cursor = NumUnits
       THEN Teardown(NoStop, "all") /\ UNCHANGED <<stop, cursor>>
       ELSE /\ cursor' = cursor + 1
            /\ Goto("top")
            /\ UNCHANGED <<observed, ending, stop, canceled>>
    /\ UNCHANGED <<next, open, deliver, result, verdict, queue, phase,
                   trackers, files, db>>

-----------------------------------------------------------------------------
(* Teardown.                                                               *)

\* shutdown: the workers have drained the closed queue and returned.  Mutant:
\* only the queue is awaited.
QueueEmpty == queue = <<>>
Drained == queue = <<>> /\ Busy = {}

\* stopSession reads the recorded stop again after the drain.  Mutant: it keeps
\* the observed one.
ObservedStop == observed
FinalStop == IF stop # NoStop THEN stop ELSE observed

Join ==
    /\ pc = "join"
    /\ Drained
    /\ LET s == FinalStop
       IN  \/ /\ ending = "all"
              /\ EndWith(Verdict("succeeded", "none", 0))
              /\ UNCHANGED observed
           \/ /\ ending = "head"
              /\ Goto("discard")
              /\ UNCHANGED <<verdict, observed>>
           \/ /\ ending = "stop"
              /\ observed' = s
              /\ IF s.unit = 0
                 THEN verdict' = Verdict("canceled", "canceled", 0) /\ Goto("discard")
                 ELSE verdict' = Verdict("failed", "unit", s.unit) /\ Goto("report")
    /\ UNCHANGED <<loop, ending, pool, files, db>>

\* Discard removes every staged file of the unit.
TempsOf(u) == TasksOf(u)

\* A discarded unit stays pending.  Mutant: it takes the discarded result.
CanceledRow == Row("canceled", FALSE)
DiscardedRow == Row("pending", FALSE)

\* reportFailedUnit: the failing unit's own entry.  A commit failure already
\* has its row; a failed encode is discarded first; a failed write is logged.
ReportFailedUnit ==
    /\ pc = "report"
    /\ IF observed.at = "commit"
       THEN UNCHANGED <<rows, position>>
       ELSE \/ SaveResult(observed.unit, Row("failed", FALSE), 0)
            \/ UNCHANGED <<rows, position>>
    /\ staged' = IF observed.at = "encode"
                 THEN staged \ TempsOf(observed.unit) ELSE staged
    /\ Goto("discard")
    /\ UNCHANGED <<loop, exit, pool, disk, session, cancelRequested, inventory>>

\* discardOpen: every open unit but the one the stop already reported loses its
\* staged files and stays pending; its unrun operations are stored, or that
\* write fails and is logged.
AlreadyReported(u) == observed = Stop(u, "encode")

DiscardOpen ==
    /\ pc = "discard"
    /\ open # <<>>
    /\ open' = Tail(open)
    /\ IF AlreadyReported(Head(open))
       THEN UNCHANGED <<staged, rows, position>>
       ELSE /\ staged' = staged \ TempsOf(Head(open))
            /\ \/ SaveResult(Head(open), DiscardedRow, 0)
               \/ UNCHANGED <<rows, position>>
    /\ UNCHANGED <<pc, cursor, next, deliver, result, exit, pool, disk,
                   session, cancelRequested, inventory>>

DiscardEnds ==
    /\ pc = "discard"
    /\ open = <<>>
    /\ Goto("finish")
    /\ UNCHANGED <<loop, exit, pool, files, db>>

\* FinishExecution: only an active row takes the terminal status; a failed
\* write is logged and leaves the row running.
Finish ==
    /\ pc = "finish"
    /\ session' \in {session} \cup (IF session.status \in Active THEN {verdict} ELSE {})
    /\ Goto("done")
    /\ UNCHANGED <<loop, exit, pool, files, cancelRequested, position, rows,
                   inventory>>

-----------------------------------------------------------------------------
(* Workers.                                                                *)

Running == pc \notin {"queued", "done", "crashed", "restarted"}

\* A free worker takes the oldest task; EncodeOne refuses it when the context
\* is done, and otherwise starts writing its staged temp.
TakeTask(t) ==
    /\ Running
    /\ queue # <<>> /\ Head(queue) = t
    /\ Cardinality(Busy) < Window
    /\ queue' = Tail(queue)
    /\ phase' = [phase EXCEPT ![t] = IF canceled THEN "refused" ELSE "encoding"]
    /\ staged' = IF canceled THEN staged ELSE staged \cup {t}
    /\ UNCHANGED <<coordinator, trackers, stop, canceled, disk, db>>

\* taskReturned: the unit's first failure wins.
TaskReturned(t, err) ==
    /\ completed' = [completed EXCEPT ![t[1]] = @ + 1]
    /\ failure' = [failure EXCEPT ![t[1]] = IF @ = "none" THEN err ELSE @]

EncodeSucceeds(t) ==
    /\ Running
    /\ phase[t] = "encoding"
    /\ TaskReturned(t, "none")
    /\ phase' = [phase EXCEPT ![t] = "encoded"]
    /\ UNCHANGED <<coordinator, queue, delivered, ended, stop, canceled, files,
                   db>>

EncodeCanceled(t) ==
    /\ Running
    /\ phase[t] \in {"encoding", "refused"}
    /\ canceled
    /\ TaskReturned(t, "canceled")
    /\ phase' = [phase EXCEPT ![t] = "aborted"]
    /\ UNCHANGED <<coordinator, queue, delivered, ended, stop, canceled, files,
                   db>>

\* A real error is counted on the unit first and requests the stop in a later
\* step of the same worker.
EncodeFails(t) ==
    /\ Running
    /\ phase[t] = "encoding"
    /\ TaskReturned(t, "error")
    /\ phase' = [phase EXCEPT ![t] = "reporting"]
    /\ UNCHANGED <<coordinator, queue, delivered, ended, stop, canceled, files,
                   db>>

ReportFailure(t) ==
    /\ Running
    /\ phase[t] = "reporting"
    /\ RequestStop(Stop(t[1], "encode"))
    /\ phase' = [phase EXCEPT ![t] = "failed"]
    /\ UNCHANGED <<coordinator, queue, trackers, files, db>>

WorkerStep(t) ==
    \/ TakeTask(t)
    \/ EncodeSucceeds(t)
    \/ EncodeCanceled(t)
    \/ EncodeFails(t)
    \/ ReportFailure(t)

-----------------------------------------------------------------------------
(* The user, the watcher of the cancel flag, and the process.              *)

\* CancelExecution: a queued row is canceled at once, a running one is flagged.
RequestCancel ==
    /\ session.status \in Active
    /\ pc \notin {"crashed", "restarted"}
    /\ IF session.status = "queued"
       THEN session' = Verdict("canceled", "canceled", 0) /\ UNCHANGED cancelRequested
       ELSE ~cancelRequested /\ cancelRequested' = TRUE /\ UNCHANGED session
    /\ UNCHANGED <<coordinator, pool, files, position, rows, inventory>>

\* watchExecutionCancel: a poll that sees the flag cancels the context.
ObserveCancel ==
    /\ Running
    /\ cancelRequested
    /\ ~canceled
    /\ canceled' = TRUE
    /\ UNCHANGED <<coordinator, queue, phase, trackers, stop, files, db>>

\* The process dies: a commit in flight leaves any prefix of its work, and
\* everything in memory is gone.
Crash ==
    /\ pc \notin {"crashed", "restarted"}
    /\ Goto("crashed")
    /\ IF pc = "commit"
       THEN \E d \in {"untouched", "partial", "landed"} :
              disk' = [disk EXCEPT ![Head(open)] = d]
       ELSE UNCHANGED disk
    /\ open' = <<>> /\ queue' = <<>>
    /\ phase' = [t \in Task |-> "idle"]
    /\ delivered' = [u \in Unit |-> 0] /\ completed' = [u \in Unit |-> 0]
    /\ failure' = [u \in Unit |-> "none"] /\ ended' = [u \in Unit |-> FALSE]
    /\ cursor' = 1 /\ next' = 1 /\ deliver' = 1
    /\ result' = NoResult /\ observed' = NoStop /\ stop' = NoStop
    /\ ending' = "none" /\ verdict' = Verdict("running", "none", 0)
    /\ canceled' = FALSE
    /\ UNCHANGED <<staged, db>>

\* InterruptStaleExecutions at startup, before any worker runs: nothing is
\* resumed, re-encoded or re-deleted.
Restart ==
    /\ pc = "crashed"
    /\ session' = IF session.status \in Active
                  THEN Verdict("interrupted", "interrupted", 0) ELSE session
    /\ Goto("restarted")
    /\ UNCHANGED <<loop, exit, pool, files, cancelRequested, position, rows,
                   inventory>>

-----------------------------------------------------------------------------
Coordinator ==
    \/ Claim \/ VerifyInputs \/ LoopTop \/ PrepareUnit \/ FillEnds
    \/ SendTask \/ CountTask \/ AbortDelivery \/ EndDelivery
    \/ WaitHead \/ CheckHead \/ AdmitCommit \/ CommitReturns
    \/ SyncInventory \/ RecordHead \/ SettleHead
    \/ Join \/ ReportFailedUnit \/ DiscardOpen \/ DiscardEnds \/ Finish

Next ==
    \/ Coordinator
    \/ \E t \in Task : WorkerStep(t)
    \/ RequestCancel
    \/ ObserveCancel
    \/ Crash
    \/ Restart

\* The goroutines run, an encoder child returns (it is killed when the context
\* is done) and the watcher keeps polling.  Nobody has to cancel, nothing has
\* to crash, and a crashed process need not be started again.
Fairness ==
    /\ WF_vars(Coordinator)
    /\ \A t \in Task : WF_vars(WorkerStep(t))
    /\ WF_vars(ObserveCancel)

Spec == Init /\ [][Next]_vars
FairSpec == Spec /\ Fairness
-----------------------------------------------------------------------------
(* Properties.                                                             *)

CoordinatorType ==
    /\ pc \in PcValues
    /\ cursor \in Nat \ {0}
    /\ next \in Nat \ {0}
    /\ open \in Seq(Unit)
    /\ deliver \in Nat \ {0}
    /\ result \in [unit : Unit \cup {0}, row : RowType]
    /\ observed \in StopType
    /\ ending \in {"none", "stop", "head", "all"}
    /\ verdict \in VerdictType

PoolType ==
    /\ queue \in Seq(Task)
    /\ phase \in [Task -> PhaseValues]
    /\ delivered \in [Unit -> Nat]
    /\ completed \in [Unit -> Nat]
    /\ failure \in [Unit -> {"none", "error", "canceled"}]
    /\ ended \in [Unit -> BOOLEAN]
    /\ stop \in StopType
    /\ canceled \in BOOLEAN

FilesType ==
    /\ disk \in [Unit -> {"untouched", "partial", "landed"}]
    /\ staged \in SUBSET Task

DbType ==
    /\ session \in VerdictType
    /\ cancelRequested \in BOOLEAN
    /\ position \in Unit \cup {0}
    /\ rows \in [Unit -> RowType]
    /\ inventory \in SUBSET Unit

\* Every variable keeps its shape; a row, a verdict and a stop name a unit of
\* the frozen worklist.
TypeOK == CoordinatorType /\ PoolType /\ FilesType /\ DbType

\* A unit reaches Commit only when every one of its tasks was sent, returned
\* and encoded, whatever the order in which sends, counts and returns
\* interleave (openUnit.committable).
CommitsOnlyEncoded ==
    pc = "commit" => \A t \in TasksOf(Head(open)) : phase[t] = "encoded"

\* The disk of a unit changes only behind the durable success of every earlier
\* unit of the frozen worklist (executeRun, ADR 0007 decision 3).
FrozenOrder ==
    \A u \in Unit : disk[u] # "untouched" =>
        \A v \in 1 .. u - 1 : rows[v].status = "succeeded"

\* A component shown pending had no filesystem change, except the head whose
\* result is still being written, could not be written, or was lost with the
\* process (discardOpen: "it stays pending, since no filesystem change happened
\* for it").
PendingUntouched ==
    \A u \in Unit : rows[u].status \in {"none", "pending"} /\ disk[u] # "untouched" =>
        \/ pc \in {"sync", "record"} /\ result.unit = u
        \/ verdict.code = "persist" /\ verdict.unit = u
        \/ pc \in {"crashed", "restarted"}

\* A staged file disappears only after the worker that wrote it returned: a
\* commit renames and a discard removes only what no encoder still writes
\* (stopSession, shutdown: "Nothing staged may be cleaned before that").
CleansOnlyReturned ==
    [][\A t \in staged \ staged' : phase[t] \in {"encoded", "failed", "aborted"}]_vars

\* A session that ended in this process leaves no staged file behind, whichever
\* way it ended.
NoOrphanTemps == pc = "done" => staged = {}

\* The staged files of at most Window units exist at a time.
WindowBoundsStaging ==
    Cardinality({t[1] : t \in staged}) <= Window

\* A recorded real error makes the session fail: neither a cancellation that
\* lands beside it nor a completed worklist hides it (stopNow, stopSession).
RealErrorNeverMasked ==
    pc = "done" /\ stop # NoStop => verdict.status = "failed"

\* A row turns failed only for the unit whose own preparation, encode or commit
\* failed, never for a neighbour in the window (ADR 0007 decision 4).
FailureAttributed ==
    [][\A u \in Unit : rows'[u].status = "failed" /\ rows[u].status # "failed" =>
          \/ stop = Stop(u, "prepare") /\ delivered[u] = 0
          \/ stop = Stop(u, "encode") /\ \E t \in TasksOf(u) : phase[t] = "failed"
          \/ result.unit = u /\ result.row.status = "failed"]_vars

\* A unit whose encode failed is still open, and so still discarded, until the
\* teardown names it: it is never committed (openUnit.committable, requestStop).
FailedEncodeStaysOpen ==
    stop.at = "encode" /\ pc \notin {"discard", "finish", "done"} =>
        \E i \in DOMAIN open : open[i] = stop.unit

\* The position of a running session names the head being worked on, never a
\* previous one; only the first unit's own write may be missing (ADR 0007
\* decision 3).
PositionNamesHead ==
    pc \in {"fill", "deliver", "count", "wait", "woken", "admit", "commit"} =>
        position = cursor \/ (cursor = 1 /\ position = 0)

\* A stored result that does not disclose a failed inventory sync is a result
\* whose disk changes the inventory shows (syncUnitInventory before persistEntry).
SyncDisclosed ==
    \A u \in Unit : rows[u].synced => u \in inventory

\* What the rows, the inventory and the verdict say of a session agrees with
\* what it did to the disk, at every step and after every stop, cancellation
\* and death of the process (persistEntry, discardOpen, stopSession).
RowsTellDisk ==
    /\ FrozenOrder
    /\ PendingUntouched
    /\ SyncDisclosed
    /\ PositionNamesHead
    /\ RealErrorNeverMasked

\* Every staged file belongs to a unit of the window until it is renamed or
\* removed, so at most a window of them exists, a commit finds all of its own, and
\* a session that ends leaves none (fillWindow, requestStop, discardOpen).
StagingIsOwned ==
    /\ CommitsOnlyEncoded
    /\ WindowBoundsStaging
    /\ NoOrphanTemps
    /\ FailedEncodeStaysOpen

\* Nothing is blamed on or taken from a unit whose workers still run: a file is
\* cleaned only behind its writer's return, and a row fails only for the unit
\* whose own step failed (shutdown, reportFailedUnit).
StepsAreAttributed == CleansOnlyReturned /\ FailureAttributed

\* Every claimed session ends, whatever fails and whoever stops it: no worker,
\* send, wait or drain blocks for good (ADR 0007 decision 1).
SessionEnds == (pc = "verify") ~> (pc \in {"done", "crashed"})

\* The serial contract, read off the rows and the disk.
Serial == INSTANCE SequentialSession
            WITH session <- session.status,
                 rows <- [u \in Unit |-> rows[u].status]

\* The pool, the window and every interleaving of stops are invisible in the
\* rows and on the disk: the session implements the serial contract.
ImplementsSerial == Serial!Spec

-----------------------------------------------------------------------------
(* What a comment promises and the code does not do: no run checks it.     *)

\* requestStop's comment: "the first recorded error decides the session and a
\* cancellation can never mask it" (internal/workset/execution_pool.go:189): a
\* verdict reached while a stop is recorded names that stop's unit.
FirstErrorDecides ==
    [][stop # NoStop /\ verdict' # verdict /\ pc' # "crashed" =>
          verdict' = Verdict("failed", "unit", stop.unit)]_vars
=============================================================================
