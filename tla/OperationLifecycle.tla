-------------------------- MODULE OperationLifecycle --------------------------
(***************************************************************************)
(* The sessions of one workset operation: internal/workset/generation.go,  *)
(* execution.go, draft.go and worker.go over the tables of                 *)
(* adapters/sqlite/repo_generation.go, repo_execution.go and               *)
(* repo_operation.go.                                                      *)
(*                                                                         *)
(* HTTP requests save the draft, start a planning session or an execution  *)
(* and cancel them; the planning workers and the one execution worker      *)
(* claim queued rows.  A request reads the database several times before   *)
(* its one write, and every read is a step of its own unless the write     *)
(* evaluates the same fact again.                                          *)
(*                                                                         *)
(* Sessions are numbered in the order of their insertion, and a plan has   *)
(* the number of the planning session that made it ("plan-" + the token of *)
(* the generation id).  The history of the draft gives the document each   *)
(* version of the operation held; its length is the version.               *)
(***************************************************************************)
EXTENDS Naturals, Sequences, FiniteSets, SequencesExt

CONSTANTS Requests,     \* HTTP requests
          Workloads,    \* what each of them may ask for, under which key
          NoKey,        \* the empty key
          Drafts,       \* draft documents, told apart by their hash
          Seed,         \* the draft the operation was created with
          MaxSessions,  \* bound: planning sessions ever started
          Workers,      \* planning workers
          MaxCrashes    \* bound: deaths of the process

Kinds == {"generate", "execute", "save", "cancel planning", "cancel execution",
          "nothing"}
Session == 1 .. MaxSessions

ASSUME LifecycleAssumption ==
    /\ \A w \in Workloads : DOMAIN w = Requests /\ \A r \in Requests : w[r].kind \in Kinds
    /\ Seed \in Drafts
    /\ MaxSessions \in Nat
    /\ MaxCrashes \in Nat

VARIABLES
    \* the database
    history,    \* the draft at each version of workset_operations
    current,    \* current_revision_id, 0 for none
    plans,      \* the plans stored with their revision rows
    planning,   \* plan_generations
    execution,  \* plan_executions, by the plan they run
    \* the process
    up,         \* it is running
    wakeC,      \* a token waits in the planning wake channel
    execWakeC,  \* a token waits in the execution wake channel
    worker,     \* the planning workers
    runner,     \* the execution worker
    request,    \* the requests
    crashes

operation == <<history, current, plans>>
sessions == <<planning, execution>>
tokens == <<wakeC, execWakeC>>
machine == <<worker, runner, up, crashes>>
vars == <<operation, sessions, tokens, machine, request>>

-----------------------------------------------------------------------------
Version == Len(history)
Draft == Last(history)

Active == {"queued", "running"}
Planned(s) == planning[s].status # "absent"
Started == {s \in Session : Planned(s)}
ActivePlanning == {s \in Session : planning[s].status \in Active}
ActiveExecution == {s \in Session : execution[s].status \in Active}
QueuedPlanning == {s \in Session : planning[s].status = "queued"}
QueuedExecution == {s \in Session : execution[s].status = "queued"}

\* Rows an idempotency key finds.  A planning row gives its key up when it
\* fails, is canceled or is interrupted; an execution row never does.
KeyHeld == {"queued", "running", "completed"}
PlanningRows(key) ==
    {s \in Session : key # NoKey /\ Planned(s) /\ planning[s].key = key}
ExecutionRows(key) ==
    {s \in Session : key # NoKey /\ execution[s].status \notin {"absent", "deleted"}
                     /\ execution[s].key = key}

NoSession == [status |-> "absent", key |-> NoKey, cancel |-> FALSE,
              draft |-> Seed, version |-> 0]
NoExecution == [status |-> "absent", key |-> NoKey, cancel |-> FALSE]
Idle(at) == [at |-> at, session |-> 0, canceled |-> FALSE]
Fresh(asks) == [kind |-> asks.kind, key |-> asks.key,
                at |-> "new", version |-> 0, plan |-> 0, draft |-> Seed,
                wake |-> FALSE, reply |-> "none"]

Init ==
    /\ history = <<Seed>>
    /\ current = 0
    /\ plans = {}
    /\ planning = [s \in Session |-> NoSession]
    /\ execution = [s \in Session |-> NoExecution]
    /\ up = TRUE
    /\ wakeC = FALSE
    /\ execWakeC = FALSE
    /\ worker = [w \in Workers |-> Idle("top")]
    /\ runner = Idle("claim")
    /\ request \in {[r \in Requests |-> Fresh(w[r])] : w \in Workloads}
    /\ crashes = 0

At(r, kind, at) == up /\ request[r].kind = kind /\ request[r].at = at
MoveTo(r, at) == request' = [request EXCEPT ![r].at = at]

\* The answer of a request.  "session" and "revision" name what they answer with.
Answer(r, reply) ==
    request' = [request EXCEPT ![r].at = "done", ![r].reply = reply]
AnswerSession(r, s) ==
    request' = [request EXCEPT ![r].at = "done", ![r].reply = "session", ![r].plan = s]

\* Any of the many reasons outside this model: an incomplete draft, an orphaned
\* workset, a scan in progress, a busy gate, a database error.
Refuse(r) == Answer(r, "refused")

-----------------------------------------------------------------------------
(* StartGeneration.                                                        *)

LoadOperation(r) ==
    /\ At(r, "generate", "new")
    /\ request' = [request EXCEPT ![r].at = "draft", ![r].version = Version,
                                  ![r].plan = current]
    /\ UNCHANGED <<operation, sessions, tokens, machine>>

LoadDraft(r) ==
    /\ At(r, "generate", "draft")
    /\ \/ request' = [request EXCEPT ![r].at = "executions", ![r].draft = Draft]
       \/ Refuse(r)
    /\ UNCHANGED <<operation, sessions, tokens, machine>>

CheckExecutions(r) ==
    /\ At(r, "generate", "executions")
    /\ IF ActiveExecution # {} THEN Refuse(r) ELSE MoveTo(r, "revision")
    /\ UNCHANGED <<operation, sessions, tokens, machine>>

\* replayCurrentRevision: the plan is stored, was made from this draft, and its
\* inputs did not move on disk (they may).
ReplayRevision(r) ==
    /\ At(r, "generate", "revision")
    /\ \/ /\ request[r].plan \in plans
          /\ planning[request[r].plan].draft = request[r].draft
          /\ Answer(r, "revision")
       \/ MoveTo(r, "key")
    /\ UNCHANGED <<operation, sessions, tokens, machine>>

\* replayGeneration: the query names the key only, so a row that gave its key
\* up may be the one it returns.  Then the version check of the caller's view.
ReplayKey(r) ==
    LET rows == PlanningRows(request[r].key)
        goOn == Refuse(r) \/ MoveTo(r, "active")
    IN  /\ At(r, "generate", "key")
        /\ \/ \E s \in rows :
                IF planning[s].status \notin KeyHeld THEN goOn
                ELSE IF planning[s].draft = request[r].draft THEN AnswerSession(r, s)
                ELSE Refuse(r)
           \/ rows = {} /\ goOn
        /\ UNCHANGED <<operation, sessions, tokens, machine>>

\* rejectActiveSession.
CheckPlanning(r) ==
    /\ At(r, "generate", "active")
    /\ IF ActivePlanning # {} THEN Answer(r, "in progress") ELSE MoveTo(r, "insert")
    /\ UNCHANGED <<operation, sessions, tokens, machine>>

\* The partial unique index of the key: an ended session without a plan frees it.
Taken(key) == \E s \in PlanningRows(key) : planning[s].status \in KeyHeld

\* persistGeneration: the insert is refused by the key's unique index only; the
\* row found afterwards by its key is answered when its request was the same.
CreateGeneration(r) ==
    /\ At(r, "generate", "insert")
    /\ \/ Refuse(r) /\ UNCHANGED planning
       \/ /\ Taken(request[r].key)
          /\ \E s \in PlanningRows(request[r].key) :
               IF planning[s].draft = request[r].draft
               THEN AnswerSession(r, s) ELSE Refuse(r)
          /\ UNCHANGED planning
       \/ /\ ~Taken(request[r].key)
          /\ Cardinality(Started) < MaxSessions
          /\ LET s == Cardinality(Started) + 1
             IN  /\ planning' = [planning EXCEPT ![s] =
                        [status |-> "queued", key |-> request[r].key, cancel |-> FALSE,
                         draft |-> request[r].draft, version |-> request[r].version]]
                 /\ request' = [request EXCEPT ![r].at = "wake", ![r].plan = s]
    /\ UNCHANGED <<operation, execution, tokens, machine>>

\* dispatcher.wake: at most one token is kept.
WakePlanning(r) ==
    /\ up
    /\ request[r].at = "wake"
    /\ request[r].kind \in {"generate", "cancel planning"}
    /\ wakeC' = TRUE
    /\ Answer(r, IF request[r].kind = "generate" THEN "session" ELSE "canceled")
    /\ UNCHANGED <<operation, sessions, execWakeC, machine>>

-----------------------------------------------------------------------------
(* SaveDraft.                                                              *)

\* The caller's view of the operation, which If-Match names.
ViewOperation(r) ==
    /\ At(r, "save", "new")
    /\ request' = [request EXCEPT ![r].at = "active", ![r].version = Version]
    /\ UNCHANGED <<operation, sessions, tokens, machine>>

CheckPlanningIdle(r) ==
    /\ At(r, "save", "active")
    /\ IF ActivePlanning # {} THEN Refuse(r) ELSE MoveTo(r, "executions")
    /\ UNCHANGED <<operation, sessions, tokens, machine>>

CheckExecutionIdle(r) ==
    /\ At(r, "save", "executions")
    /\ IF ActiveExecution # {} THEN Refuse(r) ELSE MoveTo(r, "write")
    /\ UNCHANGED <<operation, sessions, tokens, machine>>

\* Mutant: the version is not compared.
VersionIgnored(r) == TRUE
VersionHolds(r) == Version = request[r].version

\* SaveOperationDraft: document and version in one transaction, guarded by the
\* version alone.
SaveOperationDraft(r) ==
    /\ At(r, "save", "write")
    /\ \/ Refuse(r) /\ UNCHANGED history
       \/ /\ VersionHolds(r)
          /\ \E d \in Drafts : history' = Append(history, d)
          /\ Answer(r, "saved")
    /\ UNCHANGED <<current, plans, sessions, tokens, machine>>

-----------------------------------------------------------------------------
(* StartExecution.                                                         *)

\* The caller names a plan it was shown, which need not be current any more.
LoadForExecution(r) ==
    /\ At(r, "execute", "new")
    /\ \E p \in {s \in Session : planning[s].status = "completed"} :
         request' = [request EXCEPT ![r].version = Version, ![r].plan = p,
                                    ![r].at = IF p = current THEN "key" ELSE "stale"]
    /\ UNCHANGED <<operation, sessions, tokens, machine>>

\* What the row found by a key answers: the same request replays it.
ReplayExecutionRow(r, s) ==
    IF s = request[r].plan THEN AnswerSession(r, s) ELSE Refuse(r)

\* replayExecution, then the checks of the current revision and the version.
ReplayExecution(r) ==
    /\ At(r, "execute", "key") \/ At(r, "execute", "stale")
    /\ \/ \E s \in ExecutionRows(request[r].key) : ReplayExecutionRow(r, s)
       \/ /\ ExecutionRows(request[r].key) = {}
          /\ Refuse(r) \/ (request[r].at = "key" /\ MoveTo(r, "eligible"))
    /\ UNCHANGED <<operation, sessions, tokens, machine>>

\* executionEligibility and scopeExecution.  The guarded insert evaluates every
\* fact read here again, so one step stands for all the reads.
Eligible(p) ==
    /\ p \in plans
    /\ ActiveExecution = {}
    /\ execution[p].status = "absent"
    /\ planning[p].draft = Draft
    /\ ActivePlanning = {}

CheckEligible(r) ==
    /\ At(r, "execute", "eligible")
    /\ \/ Refuse(r)
       \/ /\ Eligible(request[r].plan)
          /\ request' = [request EXCEPT ![r].at = "insert",
                                        ![r].draft = planning[request[r].plan].draft]
    /\ UNCHANGED <<operation, sessions, tokens, machine>>

\* Mutant: the insert does not ask for planning sessions.
GuardsButPlanning(r) ==
    /\ Version = request[r].version
    /\ current = request[r].plan
    /\ Draft = request[r].draft

\* The predicates of the guarded insert.
Guards(r) ==
    /\ Version = request[r].version
    /\ current = request[r].plan
    /\ Draft = request[r].draft
    /\ ActivePlanning = {}

\* The unique indexes: one session per plan, one per key.
Collides(r) ==
    \/ execution[request[r].plan].status \notin {"absent", "deleted"}
    \/ ExecutionRows(request[r].key) # {}

CreateExecutionGuarded(r) ==
    LET p == request[r].plan
    IN  /\ At(r, "execute", "insert")
        /\ \/ Refuse(r) /\ UNCHANGED execution
           \/ /\ Guards(r) /\ Collides(r)
              /\ \E s \in ExecutionRows(request[r].key) : ReplayExecutionRow(r, s)
              /\ UNCHANGED execution
           \/ /\ Guards(r) /\ ~Collides(r)
              /\ execution' = [execution EXCEPT ![p] =
                    [status |-> "queued", key |-> request[r].key, cancel |-> FALSE]]
              /\ MoveTo(r, "wake")
        /\ UNCHANGED <<operation, planning, tokens, machine>>

\* Mutant: a queued execution is not announced.
WakeExecutionNever(r) ==
    /\ up
    /\ request[r].at = "wake"
    /\ request[r].kind \in {"execute", "cancel execution"}
    /\ Answer(r, IF request[r].kind = "execute" THEN "session" ELSE "canceled")
    /\ UNCHANGED <<operation, sessions, tokens, machine>>

\* dispatcher.wakeExecution.
WakeExecution(r) ==
    /\ up
    /\ request[r].at = "wake"
    /\ request[r].kind \in {"execute", "cancel execution"}
    /\ execWakeC' = TRUE
    /\ Answer(r, IF request[r].kind = "execute" THEN "session" ELSE "canceled")
    /\ UNCHANGED <<operation, sessions, wakeC, machine>>

-----------------------------------------------------------------------------
(* Cancellation: two updates, so that a claim between them is still seen.  *)

\* CancelGeneration and CancelExecution load the row first; a terminal one is
\* answered as it is.
CancelTable(r) == IF request[r].kind = "cancel planning" THEN planning ELSE execution

LoadForCancel(r) ==
    /\ up
    /\ request[r].kind \in {"cancel planning", "cancel execution"}
    /\ request[r].at = "new"
    /\ \E s \in {s \in Session : CancelTable(r)[s].status \notin {"absent", "deleted"}} :
         request' = [request EXCEPT
            ![r].plan = s,
            ![r].wake = (CancelTable(r)[s].status = "queued"),
            ![r].at = IF CancelTable(r)[s].status \in Active THEN "queued" ELSE "done",
            ![r].reply = IF CancelTable(r)[s].status \in Active THEN @ ELSE "canceled"]
    /\ UNCHANGED <<operation, sessions, tokens, machine>>

\* The first update takes a queued row, the second flags a running one.
Canceled(row, step) ==
    CASE step = "queued" /\ row.status = "queued" -> [row EXCEPT !.status = "canceled"]
      [] step = "flag" -> [row EXCEPT !.cancel = @ \/ (row.status = "running")]
      [] OTHER -> row

CancelStep(r, step) ==
    /\ up
    /\ request[r].at = step
    /\ \/ /\ request[r].kind = "cancel planning"
          /\ planning' = [planning EXCEPT ![request[r].plan] = Canceled(@, step)]
          /\ UNCHANGED execution
       \/ /\ request[r].kind = "cancel execution"
          /\ execution' = [execution EXCEPT ![request[r].plan] = Canceled(@, step)]
          /\ UNCHANGED planning
    /\ IF step = "queued" THEN MoveTo(r, "flag")
       ELSE IF request[r].wake THEN MoveTo(r, "wake")
       ELSE Answer(r, "canceled")
    /\ UNCHANGED <<operation, tokens, machine>>

\* Either update may fail.
CancelFails(r) ==
    /\ up
    /\ request[r].at \in {"queued", "flag"}
    /\ Refuse(r)
    /\ UNCHANGED <<operation, sessions, tokens, machine>>

Cancel(r) ==
    \/ LoadForCancel(r) \/ CancelStep(r, "queued") \/ CancelStep(r, "flag")
    \/ CancelFails(r)

-----------------------------------------------------------------------------
(* The planning workers.                                                   *)

WorkerAt(w, at) == up /\ worker[w].at = at
WorkerTo(w, at) == worker' = [worker EXCEPT ![w] = Idle(at)]

\* A token that is already there is taken before the queue is read.
Drain(w) ==
    /\ WorkerAt(w, "top")
    /\ wakeC' = FALSE
    /\ WorkerTo(w, "claim")
    /\ UNCHANGED <<operation, sessions, execWakeC, runner, up, crashes, request>>

\* NextQueuedGeneration: the oldest queued row, in one transaction.
ClaimPlanning(w) ==
    /\ WorkerAt(w, "claim")
    /\ \E s \in QueuedPlanning :
         /\ \A t \in QueuedPlanning : s <= t
         /\ planning' = [planning EXCEPT ![s].status = "running"]
         /\ worker' = [worker EXCEPT ![w].at = "work", ![w].session = s]
    /\ UNCHANGED <<operation, execution, tokens, runner, up, crashes, request>>

NothingQueued(w) ==
    /\ WorkerAt(w, "claim")
    /\ QueuedPlanning = {}
    /\ WorkerTo(w, "wait")
    /\ UNCHANGED <<operation, sessions, tokens, runner, up, crashes, request>>

\* A claim refused by the database is tried again on a timer or a token.
ClaimFails(w) ==
    /\ WorkerAt(w, "claim")
    /\ WorkerTo(w, "retry")
    /\ UNCHANGED <<operation, sessions, tokens, runner, up, crashes, request>>

RetryClaim(w) ==
    /\ WorkerAt(w, "retry")
    /\ WorkerTo(w, "top")
    /\ wakeC' \in {wakeC, FALSE}
    /\ UNCHANGED <<operation, sessions, execWakeC, runner, up, crashes, request>>

Woken(w) ==
    /\ WorkerAt(w, "wait")
    /\ wakeC
    /\ wakeC' = FALSE
    /\ WorkerTo(w, "top")
    /\ UNCHANGED <<operation, sessions, execWakeC, runner, up, crashes, request>>

\* checkCancel, between roots: the flag cancels the session's context.
ObserveCancel(w) ==
    /\ WorkerAt(w, "work")
    /\ planning[worker[w].session].cancel
    /\ ~worker[w].canceled
    /\ worker' = [worker EXCEPT ![w].canceled = TRUE]
    /\ UNCHANGED <<operation, sessions, tokens, runner, up, crashes, request>>

\* A session without a plan ends canceled, when its context is done, or failed:
\* only an active row takes the status, and a write that fails is ignored.
EndPlanning(w) ==
    LET s == worker[w].session
        ends == {"failed"} \cup (IF worker[w].canceled THEN {"canceled"} ELSE {})
    IN  /\ WorkerAt(w, "work")
        /\ \/ UNCHANGED planning
           \/ /\ planning[s].status \in Active
              /\ \E status \in ends : planning' = [planning EXCEPT ![s].status = status]
        /\ WorkerTo(w, "top")
        /\ UNCHANGED <<operation, execution, tokens, runner, up, crashes, request>>

\* deletePlanDataTx: the plan and every execution recorded for it.
Retire(p) ==
    execution' = [x \in Session |->
        IF x = p /\ execution[x].status # "absent"
        THEN [NoExecution EXCEPT !.status = "deleted"] ELSE execution[x]]

\* The plan of a session takes the place of the current one.  Mutant: the
\* plan that is replaced stays.
PromotedBeside(s) == plans \cup {s}
Promoted(s) == (plans \ {current}) \cup {s}

\* PersistOperationRevision: the plan, its promotion, the end of the session and
\* the retirement of the plan it replaces, in one transaction.  A session that
\* is not active any more rolls it back.  The last check of the flag was before.
PersistRevision(w) ==
    LET s == worker[w].session
    IN  /\ WorkerAt(w, "work")
        /\ planning[s].status \in Active
        /\ plans' = Promoted(s)
        /\ Retire(current)
        /\ current' = s
        /\ history' = Append(history, Draft)
        /\ planning' = [planning EXCEPT ![s].status = "completed"]
        /\ WorkerTo(w, "top")
        /\ UNCHANGED <<tokens, runner, up, crashes, request>>

-----------------------------------------------------------------------------
(* The execution worker.  What it does with a session is ExecutionSession. *)

RunnerTo(at) == runner' = Idle(at)

ClaimExecution ==
    /\ up
    /\ runner.at = "claim"
    /\ \E p \in QueuedExecution :
         /\ execution' = [execution EXCEPT ![p].status = "running"]
         /\ runner' = [runner EXCEPT !.at = "work", !.session = p]
    /\ UNCHANGED <<operation, planning, tokens, worker, up, crashes, request>>

RunnerIdles ==
    /\ up
    /\ runner.at = "claim"
    /\ \/ QueuedExecution = {} /\ RunnerTo("wait")
       \/ RunnerTo("retry")
    /\ UNCHANGED <<operation, sessions, tokens, worker, up, crashes, request>>

RunnerResumes ==
    /\ up
    /\ \/ /\ runner.at = "wait"
          /\ execWakeC
          /\ execWakeC' = FALSE
       \/ /\ runner.at = "retry"
          /\ execWakeC' \in {execWakeC, FALSE}
    /\ RunnerTo("claim")
    /\ UNCHANGED <<operation, sessions, wakeC, worker, up, crashes, request>>

\* FinishExecution: only an active row takes the terminal status.  Mutant: it
\* does not look.
EndsAnyway(p) == {"succeeded", "failed", "canceled"}
Ends(p) == IF execution[p].status \in Active
           THEN {"succeeded", "failed", "canceled"} ELSE {}

FinishExecution ==
    LET p == runner.session
    IN  /\ up
        /\ runner.at = "work"
        /\ \/ UNCHANGED execution
           \/ \E status \in Ends(p) : execution' = [execution EXCEPT ![p].status = status]
        /\ RunnerTo("claim")
        /\ UNCHANGED <<operation, planning, tokens, worker, up, crashes, request>>

-----------------------------------------------------------------------------
(* The process.                                                            *)

Crash ==
    /\ up
    /\ crashes < MaxCrashes
    /\ up' = FALSE
    /\ crashes' = crashes + 1
    /\ wakeC' = FALSE
    /\ execWakeC' = FALSE
    /\ worker' = [w \in Workers |-> Idle("off")]
    /\ runner' = Idle("off")
    /\ request' = [r \in Requests |->
          IF request[r].at \in {"new", "done"} THEN request[r]
          ELSE [request[r] EXCEPT !.at = "done", !.reply = "lost"]]
    /\ UNCHANGED <<operation, sessions>>

\* Mutant: the sessions a dead process left are dropped.
InterruptStaleDeletes(table) ==
    [s \in Session |-> IF table[s].status \in Active
                       THEN [table[s] EXCEPT !.status = "deleted"] ELSE table[s]]

\* InterruptStaleGenerations and InterruptStaleExecutions; either write may
\* fail and is logged.
InterruptStale(table) ==
    [s \in Session |-> IF table[s].status \in Active
                       THEN [table[s] EXCEPT !.status = "interrupted"] ELSE table[s]]

Restart ==
    /\ ~up
    /\ up' = TRUE
    /\ planning' \in {planning, InterruptStale(planning)}
    /\ execution' \in {execution, InterruptStale(execution)}
    /\ worker' = [w \in Workers |-> Idle("top")]
    /\ runner' = Idle("claim")
    /\ UNCHANGED <<operation, tokens, request, crashes>>

-----------------------------------------------------------------------------
RequestStep(r) ==
    \/ LoadOperation(r) \/ LoadDraft(r) \/ CheckExecutions(r) \/ ReplayRevision(r)
    \/ ReplayKey(r) \/ CheckPlanning(r) \/ CreateGeneration(r) \/ WakePlanning(r)
    \/ ViewOperation(r) \/ CheckPlanningIdle(r) \/ CheckExecutionIdle(r)
    \/ SaveOperationDraft(r)
    \/ LoadForExecution(r) \/ ReplayExecution(r) \/ CheckEligible(r)
    \/ CreateExecutionGuarded(r) \/ WakeExecution(r)
    \/ Cancel(r)

WorkerStep(w) ==
    \/ Drain(w) \/ ClaimPlanning(w) \/ NothingQueued(w) \/ ClaimFails(w)
    \/ RetryClaim(w) \/ Woken(w) \/ EndPlanning(w) \/ PersistRevision(w)

RunnerStep == ClaimExecution \/ RunnerIdles \/ RunnerResumes \/ FinishExecution

Next ==
    \/ \E r \in Requests : RequestStep(r)
    \/ \E w \in Workers : WorkerStep(w) \/ ObserveCancel(w)
    \/ RunnerStep
    \/ Crash
    \/ Restart

\* A handler that inserted a row goes on to wake its worker, the workers run,
\* a session that is worked on ends, and a claim that keeps being possible is
\* not refused by the database for ever.
Fairness ==
    /\ \A r \in Requests : WF_vars(WakePlanning(r) \/ WakeExecution(r))
    /\ \A w \in Workers : WF_vars(WorkerStep(w)) /\ SF_vars(ClaimPlanning(w))
    /\ WF_vars(RunnerStep) /\ SF_vars(ClaimExecution)

Spec == Init /\ [][Next]_vars
FairSpec == Spec /\ Fairness
-----------------------------------------------------------------------------
(* Properties.                                                             *)

PlanningStatus ==
    {"absent", "queued", "running", "completed", "failed", "canceled", "interrupted"}
ExecutionStatus ==
    {"absent", "queued", "running", "succeeded", "failed", "canceled", "interrupted",
     "deleted"}
Keys == {NoKey} \cup UNION {{w[r].key : r \in Requests} : w \in Workloads}
WorkerType == [at : {"top", "claim", "wait", "retry", "work", "off"},
               session : Session \cup {0}, canceled : BOOLEAN]

PlanningType == [status : PlanningStatus, key : Keys, cancel : BOOLEAN,
                 draft : Drafts, version : Nat]
ExecutionType == [status : ExecutionStatus, key : Keys, cancel : BOOLEAN]
Places == {"new", "draft", "executions", "revision", "key", "active", "insert", "wake",
           "write", "stale", "eligible", "queued", "flag", "done"}
Replies == {"none", "refused", "in progress", "session", "revision", "saved", "canceled",
            "lost"}
RequestType == [kind : Kinds, key : Keys, at : Places, version : Nat,
                plan : Session \cup {0}, draft : Drafts, wake : BOOLEAN, reply : Replies]

\* Every variable keeps its shape.
TypeOK ==
    /\ history \in Seq(Drafts) /\ history # <<>>
    /\ current \in Session \cup {0}
    /\ plans \in SUBSET Session
    /\ planning \in [Session -> PlanningType]
    /\ execution \in [Session -> ExecutionType]
    /\ up \in BOOLEAN /\ wakeC \in BOOLEAN /\ execWakeC \in BOOLEAN
    /\ worker \in [Workers -> WorkerType]
    /\ runner \in WorkerType
    /\ request \in [Requests -> RequestType]
    /\ crashes \in 0 .. MaxCrashes

\* "A record keeps exactly one plan - the current one", whichever sessions
\* complete, in whatever order (PersistOperationRevision).
OnePlan == plans = IF current = 0 THEN {} ELSE {current}

\* An execution row never outlives its plan: it would keep answering for a plan
\* that no longer exists (deletePlanDataTx).
ExecutionHasPlan ==
    \A p \in Session :
        execution[p].status \notin {"absent", "deleted"} => p \in plans

\* A plan is executed at most once: its row leaves the queue once, and nothing
\* brings a session of it back - no retry, cancel, restart or replan
\* (StartExecution).
ExecutedOnce ==
    [][\A p \in Session :
         execution'[p].status = "queued" => execution[p].status \in {"absent", "queued"}]_vars

\* A planning session that ended stays as it ended, and a plan's execution stays
\* as it ended until the plan is retired (CancelGeneration, FinishExecution: "a
\* terminal status never regresses").
TerminalStays ==
    [][\A s \in Session :
         /\ planning[s].status \notin {"absent"} \cup Active =>
              planning'[s].status = planning[s].status
         /\ execution[s].status \notin {"absent"} \cup Active =>
              execution'[s].status \in {execution[s].status, "deleted"}]_vars

\* A worker works on a running row no other worker holds: a session canceled in
\* the queue never runs, and none runs twice (NextQueuedGeneration).
WorkerHoldsItsRow ==
    \A w \in Workers : worker[w].at = "work" =>
        /\ planning[worker[w].session].status = "running"
        /\ \A v \in Workers \ {w} :
             worker[v].at = "work" => worker[v].session # worker[w].session

\* An accepted cancel is never lost: its session is not queued any more, and
\* while it runs its flag is set, even when it was claimed in the middle of the
\* cancel (CancelGeneration, CancelExecution).
CancelNotLost ==
    \A r \in Requests : request[r].reply = "canceled" =>
        LET row == CancelTable(r)[request[r].plan]
        IN  row.status # "queued" /\ (row.status = "running" => row.cancel)

\* An execution is created only while everything its request validated still
\* holds: no save, promotion or planning session slips in between the checks
\* and the insert (CreateExecutionGuarded).
CreatedAsValidated ==
    [][\A p \in Session :
         execution'[p].status = "queued" /\ execution[p].status # "queued" =>
            /\ current = p
            /\ Draft = planning[p].draft
            /\ ActivePlanning = {}
            /\ \E r \in Requests : request[r].plan = p /\ request[r].version = Version]_vars

\* Two saves over the same view of the operation never both succeed
\* (SaveOperationDraft, the version guard).
SavesNeverOverwrite ==
    \A r, q \in Requests : r # q /\ request[r].reply = "saved" /\ request[q].reply = "saved"
        => request[r].version # request[q].version

\* Two planning requests with one key are answered with different sessions only
\* when one of those ended without a plan: a retry never plans twice
\* (the partial unique index of plan_generations).
RetryNeverPlansTwice ==
    \A r, q \in Requests :
        /\ request[r].kind = "generate" /\ request[q].kind = "generate"
        /\ request[r].key = request[q].key /\ request[r].key # NoKey
        /\ request[r].reply = "session" /\ request[q].reply = "session"
        /\ request[r].plan # request[q].plan
        => \E x \in {r, q} : planning[request[x].plan].status \notin KeyHeld

\* The tables agree with each other and with who works on them: one plan, no
\* execution without its plan, one worker to a running row, whichever sessions
\* end in whatever order (PersistOperationRevision, NextQueuedGeneration).
TablesAgree == OnePlan /\ ExecutionHasPlan /\ WorkerHoldsItsRow

\* What a client was answered stays true of the tables: a save overwrote nobody,
\* a retry planned nothing twice, a cancel was not lost (SaveDraft,
\* StartGeneration, CancelGeneration).
AnswersHold == SavesNeverOverwrite /\ RetryNeverPlansTwice /\ CancelNotLost

\* A session runs once and ends once: nothing brings a plan's execution back to
\* its queue and no terminal status regresses (StartExecution, FinishExecution).
SessionsEndOnce == ExecutedOnce /\ TerminalStays

\* What a session is created as it runs as, once, and stays: every status of it
\* follows from the one request that made it (StartExecution, FinishExecution).
SessionsKeepOrder == SessionsEndOnce /\ CreatedAsValidated

\* A queued planning session leaves the queue, by a claim or a cancel, as long
\* as the process lives: two workers share one wake token, and it is never the
\* last of them that is lost (dispatcher.wake, dispatcher.run, retryClaim).
PlanningIsTaken ==
    \A s \in Session :
        (planning[s].status = "queued" /\ up) ~> (planning[s].status # "queued" \/ ~up)

\* A queued execution leaves its queue, too: a token sent while the loop runs an
\* execution, or retries a claim, is not forgotten (runExecutionLoop).
ExecutionIsTaken ==
    \A s \in Session :
        (execution[s].status = "queued" /\ up) ~> (execution[s].status # "queued" \/ ~up)

\* Every session that was accepted is taken up or canceled, of both kinds, for
\* as long as the process lives (dispatcher.run, runExecutionLoop).
EverySessionIsTaken == PlanningIsTaken /\ ExecutionIsTaken

-----------------------------------------------------------------------------
(* What the comments of the code promise and its interleavings break.      *)

\* "An active execution owns the operation's disk state; planning must wait for
\* it to reach a terminal status." (internal/workset/generation.go:125-126).
PlanningWaitsForExecution == ActivePlanning = {} \/ ActiveExecution = {}

\* "Reject while a generation is queued/running: the session freezes the draft at
\* enqueue time and must not race a replace" and "editing the draft under it would
\* move the operation version" (internal/workset/draft.go:71-72, 85-87).
DraftStillUnderSessions ==
    [][ActivePlanning \cup ActiveExecution # {} =>
         \A r \in Requests : request'[r].reply = "saved" => request[r].reply = "saved"]_vars

\* "A retried request must observe what it already asked for - the current
\* revision, or its own queued session - rather than a conflict"
\* (internal/workset/generation.go:50-53).
RetryObservesItsSession ==
    [][\A r \in Requests :
         request[r].at = "key" /\ request'[r].at = "active" =>
            \A s \in PlanningRows(request[r].key) :
                planning[s].status \in KeyHeld => planning[s].draft # request[r].draft]_vars
=============================================================================
