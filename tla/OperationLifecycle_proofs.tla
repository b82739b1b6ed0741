---------------------- MODULE OperationLifecycle_proofs ----------------------
(***************************************************************************)
(* The tables of an operation, for any requests, workers, drafts, keys and *)
(* any number of sessions and deaths of the process.  Every safety         *)
(* property of OperationLifecycle compares what a request saw at one of    *)
(* its reads with rows that moved since; what carries it over is that rows *)
(* only move forward (PlanningForward, ExecutionForward).                  *)
(***************************************************************************)
EXTENDS OperationLifecycle, FiniteSetTheorems, TLAPS

CancelKinds == {"cancel planning", "cancel execution"}
BeforeWake == {"key", "stale", "eligible", "insert", "wake"}

\* Sessions are numbered without gaps, so the next number is unused.
Numbered ==
    \E n \in 0 .. MaxSessions : \A s \in Session : Planned(s) <=> s <= n

\* Whatever has a plan or an execution was planned to the end; a retired
\* execution has no plan any more.
PlansCompleted ==
    \A p \in Session :
        /\ p \in plans \/ execution[p].status # "absent" =>
             planning[p].status = "completed"
        /\ execution[p].status = "deleted" => p \notin plans

\* No two rows hold one key.
KeyHeldOnce ==
    \A s, t \in Session :
        /\ planning[s].status \in KeyHeld /\ planning[t].status \in KeyHeld
        /\ planning[s].key = planning[t].key /\ planning[s].key # NoKey
        => s = t

\* Who works has a session.
WorkersFit ==
    /\ \A w \in Workers : worker[w].at = "work" => worker[w].session \in Session
    /\ runner.at = "work" => runner.session \in Session

Tables ==
    /\ Numbered /\ PlansCompleted /\ KeyHeldOnce /\ WorkersFit
    /\ OnePlan /\ ExecutionHasPlan /\ WorkerHoldsItsRow

\* A request that still runs was not answered.
Open(r) == request[r].at # "done" => request[r].reply = "none"

\* A request that saved looked at an older version.
SavedBefore(r) ==
    request[r].reply = "saved" => request[r].version < Version

\* A planning request that is answered with a session shares its key.
SharesKey(r) ==
    request[r].kind = "generate" /\ (request[r].at = "wake" \/ request[r].reply = "session") =>
        /\ request[r].plan \in Session
        /\ Planned(request[r].plan)
        /\ planning[request[r].plan].key = request[r].key

\* An execution request carries the plan it was shown, and its draft.
CarriesPlan(r) ==
    request[r].kind = "execute" /\ request[r].at \in BeforeWake =>
        /\ request[r].plan \in Session
        /\ planning[request[r].plan].status = "completed"
        /\ request[r].at = "insert" =>
             request[r].draft = planning[request[r].plan].draft

\* What a cancel request did to its row so far.
Cancels(r) ==
    LET row == CancelTable(r)[request[r].plan]
    IN  /\ request[r].reply = "canceled" => request[r].kind \in CancelKinds
        /\ request[r].kind \in CancelKinds
             /\ (request[r].at \in {"queued", "flag", "wake"} \/ request[r].reply = "canceled") =>
             /\ request[r].plan \in Session
             /\ row.status # "absent"
             /\ request[r].at # "queued" => row.status # "queued"
             /\ request[r].at \notin {"queued", "flag"} =>
                  (row.status = "running" => row.cancel)

Answered(r) ==
    Open(r) /\ SavedBefore(r) /\ SharesKey(r) /\ CarriesPlan(r) /\ Cancels(r)

Inv == TypeOK /\ Tables /\ (\A r \in Requests : Answered(r)) /\ SavesNeverOverwrite

\* How rows move: a session starts once, leaves its queue once, ends once, and
\* keeps its key and what was asked of it.
PlanningForward ==
    \A s \in Session :
        /\ Planned(s) =>
             /\ planning'[s].status # "absent"
             /\ planning'[s].key = planning[s].key
             /\ planning'[s].draft = planning[s].draft
             /\ planning[s].cancel => planning'[s].cancel
        /\ planning[s].status \notin {"absent", "queued"} => planning'[s].status # "queued"
        /\ planning[s].status \notin {"absent"} \cup Active =>
             planning'[s].status = planning[s].status
        /\ planning'[s].status = "running" => planning[s].status \in Active

ExecutionForward ==
    \A p \in Session :
        /\ execution[p].status # "absent" =>
             /\ execution'[p].status # "absent"
             /\ execution[p].cancel => execution'[p].cancel \/ execution'[p].status = "deleted"
        /\ execution[p].status \notin {"absent", "queued"} => execution'[p].status # "queued"
        /\ execution[p].status \notin {"absent"} \cup Active =>
             execution'[p].status \in {execution[p].status, "deleted"}
        /\ execution'[p].status = "running" => execution[p].status \in Active

\* No version is taken back, and no request saves over an older version.
VersionForward == Version' \in Nat /\ Version <= Version'
SavesOver(r) == request'[r].reply = "saved" => request'[r].version = Version

\* No worker begins to work.
WorkersRest ==
    \A w \in Workers : worker'[w].at = "work" =>
        worker[w].at = "work" /\ worker'[w].session = worker[w].session
RunnerRests ==
    runner'.at = "work" => runner.at = "work" /\ runner'.session = runner.session

\* A step that reads: a check, a refusal, an announcement, a death.
Looks ==
    /\ UNCHANGED <<history, current, plans, planning, execution>>
    /\ WorkersRest /\ RunnerRests

-----------------------------------------------------------------------------
\* The types the cases below start from.
LEMMA LifecycleFacts ==
    ASSUME TypeOK
    PROVE  /\ planning \in [Session -> PlanningType]
           /\ execution \in [Session -> ExecutionType]
           /\ request \in [Requests -> RequestType]
           /\ worker \in [Workers -> WorkerType] /\ runner \in WorkerType
           /\ Draft \in Drafts /\ Version \in Nat \ {0}
           /\ Seed \in Drafts /\ NoKey \in Keys
           /\ Session \subseteq Nat \ {0} /\ current \in Session \cup {0}
           /\ \A r \in Requests : request[r] \in RequestType
<1>1. /\ history \in Seq(Drafts) /\ history # <<>>
      /\ current \in Session \cup {0}
      /\ planning \in [Session -> PlanningType]
      /\ execution \in [Session -> ExecutionType]
      /\ request \in [Requests -> RequestType]
      /\ worker \in [Workers -> WorkerType] /\ runner \in WorkerType
  BY DEF TypeOK
<1>2. Len(history) \in Nat \ {0} /\ history[Len(history)] \in Drafts
  BY <1>1
<1>3. Draft \in Drafts /\ Version \in Nat \ {0}
  BY <1>2 DEF Draft, Version, Last
<1>4. Seed \in Drafts /\ NoKey \in Keys /\ Session \subseteq Nat \ {0}
  <2>1. Seed \in Drafts
    BY LifecycleAssumption
  <2>2. NoKey \in Keys
    BY DEF Keys
  <2>3. Session \subseteq Nat \ {0}
    BY DEF Session
  <2> QED BY <2>1, <2>2, <2>3
<1>5. \A r \in Requests : request[r] \in RequestType
  BY <1>1
<1> QED BY <1>1, <1>3, <1>4, <1>5

\* What an edit of one request leaves alone.
Others(r) == \A q \in Requests \ {r} : request'[q] = request[q]
Asks(r) == /\ request'[r].kind = request[r].kind /\ request'[r].key = request[r].key
           /\ request'[r].version = request[r].version
           /\ request'[r].draft = request[r].draft

\* A request that goes on to its next read.
LEMMA Moves ==
    ASSUME request \in [Requests -> RequestType], NEW r \in Requests,
           NEW at \in Places, MoveTo(r, at)
    PROVE  /\ request' \in [Requests -> RequestType] /\ Others(r) /\ Asks(r)
           /\ request'[r].at = at /\ request'[r].plan = request[r].plan
           /\ request'[r].reply = request[r].reply
<1>1. request[r] \in RequestType
  OBVIOUS
<1>2. [request[r] EXCEPT !.at = at] \in RequestType
  BY <1>1 DEF RequestType
<1>3. request' = [request EXCEPT ![r] = [request[r] EXCEPT !.at = at]]
  BY DEF MoveTo
<1>4. request'[r] = [request[r] EXCEPT !.at = at] /\ Others(r)
  BY <1>3 DEF Others
<1>5. /\ Asks(r) /\ request'[r].at = at /\ request'[r].plan = request[r].plan
      /\ request'[r].reply = request[r].reply
  BY <1>1, <1>4 DEF RequestType, Asks
<1> QED BY <1>2, <1>3, <1>4, <1>5

\* A request that is answered.
LEMMA Answers ==
    ASSUME request \in [Requests -> RequestType], NEW r \in Requests,
           NEW reply \in Replies, Answer(r, reply)
    PROVE  /\ request' \in [Requests -> RequestType] /\ Others(r) /\ Asks(r)
           /\ request'[r].at = "done" /\ request'[r].plan = request[r].plan
           /\ request'[r].reply = reply
<1>1. request[r] \in RequestType /\ "done" \in Places
  BY DEF Places
<1>2. [request[r] EXCEPT !.at = "done", !.reply = reply] \in RequestType
  BY <1>1 DEF RequestType
<1>3. request' = [request EXCEPT ![r] = [request[r] EXCEPT !.at = "done", !.reply = reply]]
  BY DEF Answer
<1>4. request'[r] = [request[r] EXCEPT !.at = "done", !.reply = reply] /\ Others(r)
  BY <1>3 DEF Others
<1>5. /\ Asks(r) /\ request'[r].at = "done" /\ request'[r].plan = request[r].plan
      /\ request'[r].reply = reply
  BY <1>1, <1>4 DEF RequestType, Asks
<1> QED BY <1>2, <1>3, <1>4, <1>5

\* A request that is answered with a session.
LEMMA AnswersSession ==
    ASSUME request \in [Requests -> RequestType], NEW r \in Requests,
           NEW s \in Session, AnswerSession(r, s)
    PROVE  /\ request' \in [Requests -> RequestType] /\ Others(r) /\ Asks(r)
           /\ request'[r].at = "done" /\ request'[r].plan = s
           /\ request'[r].reply = "session"
<1> DEFINE q == [request[r] EXCEPT !.at = "done", !.reply = "session", !.plan = s]
<1>1. request[r] \in RequestType /\ "done" \in Places /\ "session" \in Replies
  BY DEF Places, Replies
<1>2. q \in RequestType
  BY <1>1 DEF RequestType
<1>3. request' = [request EXCEPT ![r] = q]
  BY DEF AnswerSession
<1>4. request'[r] = q /\ Others(r)
  BY <1>3 DEF Others
<1>5. /\ Asks(r) /\ request'[r].at = "done" /\ request'[r].plan = s
      /\ request'[r].reply = "session"
  BY <1>1, <1>4 DEF RequestType, Asks
<1> QED BY <1>2, <1>3, <1>4, <1>5

\* An idle worker is a worker.
LEMMA IdleFits ==
    \A at \in {"top", "claim", "wait", "retry", "off"} :
        /\ Idle(at) \in WorkerType
        /\ Idle(at).at = at
  BY DEF Idle, WorkerType

\* A cancellation keeps a row a row.
LEMMA CancelKeepsType ==
    ASSUME NEW step \in {"queued", "flag"}
    PROVE  /\ \A row \in PlanningType : Canceled(row, step) \in PlanningType
           /\ \A row \in ExecutionType : Canceled(row, step) \in ExecutionType
  BY DEF Canceled, PlanningType, ExecutionType, PlanningStatus, ExecutionStatus

\* The number a new session gets.
LEMMA NextNumber ==
    ASSUME Numbered, Cardinality(Started) < MaxSessions
    PROVE  /\ Cardinality(Started) + 1 \in Session
           /\ planning[Cardinality(Started) + 1].status = "absent"
           /\ \A s \in Session : Planned(s) <=> s < Cardinality(Started) + 1
<1>1. PICK n \in 0 .. MaxSessions : \A s \in Session : Planned(s) <=> s <= n
  BY DEF Numbered
<1>2. Started = 1 .. n
  BY <1>1, LifecycleAssumption DEF Started, Session
<1>3. Cardinality(Started) = n
  <2>1. n \in Int /\ n \in Nat /\ 1 \in Int
    BY LifecycleAssumption
  <2>2. Cardinality(1 .. n) = IF 1 > n THEN 0 ELSE n - 1 + 1
    BY <2>1, FS_Interval
  <2> QED BY <1>2, <2>1, <2>2
<1>4. n + 1 \in Session /\ n \in Nat /\ Session \subseteq Nat
  BY <1>3, LifecycleAssumption DEF Session
<1>5. ~Planned(n + 1) /\ \A s \in Session : Planned(s) <=> s < n + 1
  BY <1>1, <1>4
<1> QED BY <1>3, <1>4, <1>5 DEF Planned

LEMMA TypeInit == Init => TypeOK
<1> SUFFICES ASSUME Init PROVE TypeOK
  OBVIOUS
<1>1. Seed \in Drafts /\ NoKey \in Keys
  <2>1. Seed \in Drafts
    BY LifecycleAssumption
  <2>2. NoKey \in Keys
    BY DEF Keys
  <2> QED BY <2>1, <2>2
<1>2. history \in Seq(Drafts) /\ history # <<>> /\ current \in Session \cup {0}
      /\ plans \in SUBSET Session
  BY <1>1 DEF Init
<1>3. planning \in [Session -> PlanningType] /\ execution \in [Session -> ExecutionType]
  BY <1>1 DEF Init, NoSession, NoExecution, PlanningType, ExecutionType, PlanningStatus,
     ExecutionStatus
<1>4. worker \in [Workers -> WorkerType] /\ runner \in WorkerType
  BY IdleFits DEF Init
<1>5. request \in [Requests -> RequestType]
  <2>1. PICK w \in Workloads : request = [r \in Requests |-> Fresh(w[r])]
    BY DEF Init
  <2>2. ASSUME NEW r \in Requests PROVE Fresh(w[r]) \in RequestType
    <3>1. w[r].kind \in Kinds
      BY LifecycleAssumption
    <3>2. w[r].key \in Keys
      <4>1. w[r].key \in {w[q].key : q \in Requests}
        OBVIOUS
      <4>2. {w[q].key : q \in Requests} \in {{x[q].key : q \in Requests} : x \in Workloads}
        BY <2>1
      <4> QED BY <4>1, <4>2 DEF Keys
    <3>3. "new" \in Places /\ "none" \in Replies
      BY DEF Places, Replies
    <3> QED BY <1>1, <3>1, <3>2, <3>3 DEF Fresh, RequestType
  <2> QED BY <2>1, <2>2
<1> QED
  <2>1. MaxCrashes \in Nat
    BY LifecycleAssumption
  <2>2. crashes = 0 /\ up = TRUE /\ wakeC = FALSE /\ execWakeC = FALSE
    BY DEF Init
  <2>3. up \in BOOLEAN /\ wakeC \in BOOLEAN /\ execWakeC \in BOOLEAN
    BY <2>2
  <2>4. crashes \in 0 .. MaxCrashes
    BY <2>1, <2>2
  <2> QED BY <1>2, <1>3, <1>4, <1>5, <2>3, <2>4 DEF TypeOK

\* Every step keeps the types.
LEMMA TypeNext ==
    ASSUME TypeOK, Tables, \A r \in Requests : Answered(r), [Next]_vars
    PROVE  TypeOK'
<1>a. /\ history \in Seq(Drafts) /\ history # <<>> /\ plans \in SUBSET Session
      /\ up \in BOOLEAN /\ wakeC \in BOOLEAN /\ execWakeC \in BOOLEAN
      /\ crashes \in 0 .. MaxCrashes
  BY DEF TypeOK
<1>b. /\ request \in [Requests -> RequestType] /\ Version \in Nat /\ Draft \in Drafts
      /\ current \in Session \cup {0}
  BY LifecycleFacts
<1>c. planning \in [Session -> PlanningType] /\ execution \in [Session -> ExecutionType]
  BY LifecycleFacts
<1>d. worker \in [Workers -> WorkerType] /\ runner \in WorkerType
  BY LifecycleFacts
<1>1. ASSUME NEW r \in Requests, LoadOperation(r) PROVE TypeOK'
  <2>1. request' \in [Requests -> RequestType]
    <3> DEFINE q == [request[r] EXCEPT !.at = "draft", !.version = Version, !.plan = current]
    <3>1. request[r] \in RequestType /\ "draft" \in Places
      BY <1>b DEF Places
    <3>2. q \in RequestType
      BY <1>b, <3>1 DEF RequestType
    <3>3. request' = [request EXCEPT ![r] = q]
      BY <1>1 DEF LoadOperation
    <3> QED BY <1>b, <3>2, <3>3
  <2>2. UNCHANGED <<history, current, plans, planning, execution, up, wakeC,
     execWakeC, worker, runner, crashes>>
    BY <1>1 DEF LoadOperation, operation, sessions, tokens, machine
  <2> QED BY <1>a, <2>1, <2>2, <1>b, <1>c, <1>d DEF TypeOK
<1>2. ASSUME NEW r \in Requests, LoadDraft(r) PROVE TypeOK'
  <2>1. request' \in [Requests -> RequestType]
    <3> DEFINE q == [request[r] EXCEPT !.at = "executions", !.draft = Draft]
    <3>1. request[r] \in RequestType /\ "executions" \in Places
      BY <1>b DEF Places
    <3>2. q \in RequestType
      BY <1>b, <3>1 DEF RequestType
    <3>3. request' = [request EXCEPT ![r] = q] \/ Refuse(r)
      BY <1>2 DEF LoadDraft
    <3>4. CASE Refuse(r)
      BY <1>b, <3>4, Answers DEF Refuse, Replies
    <3> QED BY <1>b, <3>2, <3>3, <3>4
  <2>2. UNCHANGED <<history, current, plans, planning, execution, up, wakeC,
     execWakeC, worker, runner, crashes>>
    BY <1>2 DEF LoadDraft, operation, sessions, tokens, machine
  <2> QED BY <1>a, <2>1, <2>2, <1>b, <1>c, <1>d DEF TypeOK
<1>3. ASSUME NEW r \in Requests, CheckExecutions(r) PROVE TypeOK'
  <2>1. request' \in [Requests -> RequestType]
    BY <1>b, <1>3, Moves, Answers, AnswersSession DEF CheckExecutions, At,
       Refuse, Places, Replies
  <2>2. UNCHANGED <<history, current, plans, planning, execution, up, wakeC,
     execWakeC, worker, runner, crashes>>
    BY <1>3 DEF CheckExecutions, operation, sessions, tokens, machine
  <2> QED BY <1>a, <2>1, <2>2, <1>b, <1>c, <1>d DEF TypeOK
<1>4. ASSUME NEW r \in Requests, ReplayRevision(r) PROVE TypeOK'
  <2>1. request' \in [Requests -> RequestType]
    BY <1>b, <1>4, Moves, Answers, AnswersSession DEF ReplayRevision, At,
       Refuse, Places, Replies
  <2>2. UNCHANGED <<history, current, plans, planning, execution, up, wakeC,
     execWakeC, worker, runner, crashes>>
    BY <1>4 DEF ReplayRevision, operation, sessions, tokens, machine
  <2> QED BY <1>a, <2>1, <2>2, <1>b, <1>c, <1>d DEF TypeOK
<1>5. ASSUME NEW r \in Requests, ReplayKey(r) PROVE TypeOK'
  <2>1. request' \in [Requests -> RequestType]
    <3>1. Refuse(r) \/ MoveTo(r, "active") \/ \E s \in Session : AnswerSession(r, s)
      BY <1>5 DEF ReplayKey, PlanningRows
    <3> QED BY <1>b, <3>1, Moves, Answers, AnswersSession DEF Refuse, Places, Replies
  <2>2. UNCHANGED <<history, current, plans, planning, execution, up, wakeC,
     execWakeC, worker, runner, crashes>>
    BY <1>5 DEF ReplayKey, operation, sessions, tokens, machine
  <2> QED BY <1>a, <2>1, <2>2, <1>b, <1>c, <1>d DEF TypeOK
<1>6. ASSUME NEW r \in Requests, CheckPlanning(r) PROVE TypeOK'
  <2>1. request' \in [Requests -> RequestType]
    BY <1>b, <1>6, Moves, Answers, AnswersSession DEF CheckPlanning, At, Refuse,
       Places, Replies
  <2>2. UNCHANGED <<history, current, plans, planning, execution, up, wakeC,
     execWakeC, worker, runner, crashes>>
    BY <1>6 DEF CheckPlanning, operation, sessions, tokens, machine
  <2> QED BY <1>a, <2>1, <2>2, <1>b, <1>c, <1>d DEF TypeOK
<1>7. ASSUME NEW r \in Requests, CreateGeneration(r) PROVE TypeOK'
  <2>1. planning' \in [Session -> PlanningType]
    <3>1. CASE UNCHANGED planning
      BY <1>c, <3>1
    <3>2. CASE /\ Cardinality(Started) < MaxSessions
               /\ planning' = [planning EXCEPT ![Cardinality(Started) + 1] =
                      [status |-> "queued", key |-> request[r].key, cancel |-> FALSE,
                       draft |-> request[r].draft, version |-> request[r].version]]
      <4>1. request[r].key \in Keys /\ request[r].draft \in Drafts /\ request[r].version \in Nat
        BY <1>b DEF RequestType
      <4>2. [status |-> "queued", key |-> request[r].key, cancel |-> FALSE,
             draft |-> request[r].draft, version |-> request[r].version] \in PlanningType
        BY <4>1 DEF PlanningType, PlanningStatus
      <4> QED BY <1>c, <3>2, <4>2
    <3> QED BY <1>7, <3>1, <3>2 DEF CreateGeneration
  <2>2. request' \in [Requests -> RequestType]
    <3> DEFINE s == Cardinality(Started) + 1
               q == [request[r] EXCEPT !.at = "wake", !.plan = s]
    <3>1. CASE Refuse(r)
      BY <1>b, <3>1, Answers DEF Refuse, Replies
    <3>2. CASE \E x \in Session : AnswerSession(r, x)
      BY <1>b, <3>2, AnswersSession
    <3>3. CASE Cardinality(Started) < MaxSessions /\ request' = [request EXCEPT ![r] = q]
      <4>1. s \in Session
        BY <3>3, NextNumber DEF Tables
      <4>2. request[r] \in RequestType /\ "wake" \in Places
        BY <1>b DEF Places
      <4> HIDE DEF s
      <4>3. q \in RequestType
        BY <4>1, <4>2 DEF RequestType
      <4> QED BY <1>b, <3>3, <4>3
    <3> QED BY <1>7, <3>1, <3>2, <3>3 DEF CreateGeneration, PlanningRows
  <2>3. UNCHANGED <<history, current, plans, execution, up, wakeC, execWakeC,
     worker, runner, crashes>>
    BY <1>7 DEF CreateGeneration, operation, sessions, tokens, machine
  <2> QED BY <1>a, <2>1, <2>2, <2>3, <1>b, <1>c, <1>d DEF TypeOK
<1>8. ASSUME NEW r \in Requests, WakePlanning(r) PROVE TypeOK'
  <2>1. wakeC' \in BOOLEAN
    BY <1>a, <1>8 DEF WakePlanning, Answer
  <2>2. request' \in [Requests -> RequestType]
    BY <1>b, <1>8, Moves, Answers, AnswersSession DEF WakePlanning, Refuse,
       Places, Replies
  <2>3. UNCHANGED <<history, current, plans, planning, execution, up, execWakeC,
     worker, runner, crashes>>
    BY <1>8 DEF WakePlanning, operation, sessions, tokens, machine
  <2> QED BY <1>a, <2>1, <2>2, <2>3, <1>b, <1>c, <1>d DEF TypeOK
<1>9. ASSUME NEW r \in Requests, ViewOperation(r) PROVE TypeOK'
  <2>1. request' \in [Requests -> RequestType]
    <3> DEFINE q == [request[r] EXCEPT !.at = "active", !.version = Version]
    <3>1. request[r] \in RequestType /\ "active" \in Places
      BY <1>b DEF Places
    <3>2. q \in RequestType
      BY <1>b, <3>1 DEF RequestType
    <3>3. request' = [request EXCEPT ![r] = q]
      BY <1>9 DEF ViewOperation
    <3> QED BY <1>b, <3>2, <3>3
  <2>2. UNCHANGED <<history, current, plans, planning, execution, up, wakeC,
     execWakeC, worker, runner, crashes>>
    BY <1>9 DEF ViewOperation, operation, sessions, tokens, machine
  <2> QED BY <1>a, <2>1, <2>2, <1>b, <1>c, <1>d DEF TypeOK
<1>10. ASSUME NEW r \in Requests, CheckPlanningIdle(r) PROVE TypeOK'
  <2>1. request' \in [Requests -> RequestType]
    BY <1>b, <1>10, Moves, Answers, AnswersSession DEF CheckPlanningIdle, At,
       Refuse, Places, Replies
  <2>2. UNCHANGED <<history, current, plans, planning, execution, up, wakeC,
     execWakeC, worker, runner, crashes>>
    BY <1>10 DEF CheckPlanningIdle, operation, sessions, tokens, machine
  <2> QED BY <1>a, <2>1, <2>2, <1>b, <1>c, <1>d DEF TypeOK
<1>11. ASSUME NEW r \in Requests, CheckExecutionIdle(r) PROVE TypeOK'
  <2>1. request' \in [Requests -> RequestType]
    BY <1>b, <1>11, Moves, Answers, AnswersSession DEF CheckExecutionIdle, At,
       Refuse, Places, Replies
  <2>2. UNCHANGED <<history, current, plans, planning, execution, up, wakeC,
     execWakeC, worker, runner, crashes>>
    BY <1>11 DEF CheckExecutionIdle, operation, sessions, tokens, machine
  <2> QED BY <1>a, <2>1, <2>2, <1>b, <1>c, <1>d DEF TypeOK
<1>12. ASSUME NEW r \in Requests, SaveOperationDraft(r) PROVE TypeOK'
  <2>1. history' \in Seq(Drafts) /\ history' # <<>>
    <3>1. \A d \in Drafts : Append(history, d) \in Seq(Drafts) /\ Append(history, d) # <<>>
      BY <1>a
    <3> QED BY <1>a, <3>1, <1>12 DEF SaveOperationDraft
  <2>2. request' \in [Requests -> RequestType]
    BY <1>b, <1>12, Moves, Answers, AnswersSession DEF SaveOperationDraft, At,
       Refuse, VersionHolds, Places, Replies
  <2>3. UNCHANGED <<current, plans, planning, execution, up, wakeC, execWakeC,
     worker, runner, crashes>>
    BY <1>12 DEF SaveOperationDraft, operation, sessions, tokens, machine
  <2> QED BY <1>a, <2>1, <2>2, <2>3, <1>b, <1>c, <1>d DEF TypeOK
<1>13. ASSUME NEW r \in Requests, LoadForExecution(r) PROVE TypeOK'
  <2>1. request' \in [Requests -> RequestType]
    <3> DEFINE q(p) == [request[r] EXCEPT !.version = Version, !.plan = p,
                                         !.at = IF p = current THEN "key" ELSE "stale"]
    <3>1. request[r] \in RequestType /\ "key" \in Places /\ "stale" \in Places
      BY <1>b DEF Places
    <3>2. \A p \in Session : q(p) \in RequestType
      BY <1>b, <3>1 DEF RequestType
    <3>3. PICK p \in Session : request' = [request EXCEPT ![r] = q(p)]
      BY <1>13 DEF LoadForExecution
    <3> QED BY <1>b, <3>2, <3>3
  <2>2. UNCHANGED <<history, current, plans, planning, execution, up, wakeC,
     execWakeC, worker, runner, crashes>>
    BY <1>13 DEF LoadForExecution, operation, sessions, tokens, machine
  <2> QED BY <1>a, <2>1, <2>2, <1>b, <1>c, <1>d DEF TypeOK
<1>14. ASSUME NEW r \in Requests, ReplayExecution(r) PROVE TypeOK'
  <2>1. request' \in [Requests -> RequestType]
    <3>1. Refuse(r) \/ MoveTo(r, "eligible") \/ \E s \in Session : AnswerSession(r, s)
      BY <1>14 DEF ReplayExecution, ExecutionRows, ReplayExecutionRow
    <3> QED BY <1>b, <3>1, Moves, Answers, AnswersSession DEF Refuse, Places, Replies
  <2>2. UNCHANGED <<history, current, plans, planning, execution, up, wakeC,
     execWakeC, worker, runner, crashes>>
    BY <1>14 DEF ReplayExecution, operation, sessions, tokens, machine
  <2> QED BY <1>a, <2>1, <2>2, <1>b, <1>c, <1>d DEF TypeOK
<1>15. ASSUME NEW r \in Requests, CheckEligible(r) PROVE TypeOK'
  <2>1. request' \in [Requests -> RequestType]
    <3> DEFINE d == planning[request[r].plan].draft
               q == [request[r] EXCEPT !.at = "insert", !.draft = d]
    <3>1. CASE Refuse(r)
      BY <1>b, <3>1, Answers DEF Refuse, Replies
    <3>2. CASE Eligible(request[r].plan) /\ request' = [request EXCEPT ![r] = q]
      <4>1. request[r].plan \in Session
        BY <3>2 DEF Eligible, TypeOK
      <4>2. d \in Drafts /\ request[r] \in RequestType /\ "insert" \in Places
        BY <1>b, <1>c, <4>1 DEF PlanningType, Places
      <4> HIDE DEF d
      <4>3. q \in RequestType
        BY <4>2 DEF RequestType
      <4> QED BY <1>b, <3>2, <4>3
    <3> QED BY <1>15, <3>1, <3>2 DEF CheckEligible
  <2>2. UNCHANGED <<history, current, plans, planning, execution, up, wakeC,
     execWakeC, worker, runner, crashes>>
    BY <1>15 DEF CheckEligible, operation, sessions, tokens, machine
  <2> QED BY <1>a, <2>1, <2>2, <1>b, <1>c, <1>d DEF TypeOK
<1>16. ASSUME NEW r \in Requests, CreateExecutionGuarded(r) PROVE TypeOK'
  <2>1. execution' \in [Session -> ExecutionType]
    <3>1. request[r].key \in Keys
      BY <1>b DEF RequestType
    <3>2. [status |-> "queued", key |-> request[r].key, cancel |-> FALSE] \in ExecutionType
      BY <3>1 DEF ExecutionType, ExecutionStatus
    <3> QED BY <1>c, <3>2, <1>16 DEF CreateExecutionGuarded
  <2>2. request' \in [Requests -> RequestType]
    <3>1. Refuse(r) \/ MoveTo(r, "wake") \/ \E s \in Session : AnswerSession(r, s)
      BY <1>16 DEF CreateExecutionGuarded, ExecutionRows, ReplayExecutionRow
    <3> QED BY <1>b, <3>1, Moves, Answers, AnswersSession DEF Refuse, Places, Replies
  <2>3. UNCHANGED <<history, current, plans, planning, up, wakeC, execWakeC,
     worker, runner, crashes>>
    BY <1>16 DEF CreateExecutionGuarded, operation, sessions, tokens, machine
  <2> QED BY <1>a, <2>1, <2>2, <2>3, <1>b, <1>c, <1>d DEF TypeOK
<1>17. ASSUME NEW r \in Requests, WakeExecution(r) PROVE TypeOK'
  <2>1. execWakeC' \in BOOLEAN
    BY <1>a, <1>17 DEF WakeExecution, Answer
  <2>2. request' \in [Requests -> RequestType]
    BY <1>b, <1>17, Moves, Answers, AnswersSession DEF WakeExecution, Refuse,
       Places, Replies
  <2>3. UNCHANGED <<history, current, plans, planning, execution, up, wakeC,
     worker, runner, crashes>>
    BY <1>17 DEF WakeExecution, operation, sessions, tokens, machine
  <2> QED BY <1>a, <2>1, <2>2, <2>3, <1>b, <1>c, <1>d DEF TypeOK
<1>18. ASSUME NEW r \in Requests, LoadForCancel(r) PROVE TypeOK'
  <2>1. request' \in [Requests -> RequestType]
    <3> DEFINE st(s) == CancelTable(r)[s].status
               q(s) == [request[r] EXCEPT !.plan = s, !.wake = (st(s) = "queued"),
                           !.at = IF st(s) \in Active THEN "queued" ELSE "done",
                           !.reply = IF st(s) \in Active THEN request[r].reply ELSE "canceled"]
    <3>1. /\ request[r] \in RequestType /\ "queued" \in Places /\ "done" \in Places
          /\ "canceled" \in Replies
      BY <1>b DEF Places, Replies
    <3>2. \A s \in Session : q(s) \in RequestType
      <4> HIDE DEF st
      <4> QED BY <3>1 DEF RequestType
    <3>3. PICK s \in Session : request' = [request EXCEPT
             ![r].plan = s,
             ![r].wake = (st(s) = "queued"),
             ![r].at = IF st(s) \in Active THEN "queued" ELSE "done",
             ![r].reply = IF st(s) \in Active THEN @ ELSE "canceled"]
      BY <1>18 DEF LoadForCancel
    <3>4. request' = [request EXCEPT ![r] = q(s)]
      <4> HIDE DEF st
      <4> QED BY <1>b, <3>1, <3>3 DEF RequestType
    <3> QED BY <1>b, <3>2, <3>4
  <2>2. UNCHANGED <<history, current, plans, planning, execution, up, wakeC,
     execWakeC, worker, runner, crashes>>
    BY <1>18 DEF LoadForCancel, operation, sessions, tokens, machine
  <2> QED BY <1>a, <2>1, <2>2, <1>b, <1>c, <1>d DEF TypeOK
<1>19. ASSUME NEW r \in Requests, CancelStep(r, "queued") PROVE TypeOK'
  <2>1. planning' \in [Session -> PlanningType]
    <3>1. \A s \in Session : Canceled(planning[s], "queued") \in PlanningType
      BY <1>c, CancelKeepsType
    <3>2. \/ UNCHANGED planning
          \/ planning' = [planning EXCEPT ![request[r].plan] = Canceled(@, "queued")]
      BY <1>19 DEF CancelStep
    <3> QED BY <1>c, <3>1, <3>2
  <2>2. execution' \in [Session -> ExecutionType]
    <3>1. \A s \in Session : Canceled(execution[s], "queued") \in ExecutionType
      BY <1>c, CancelKeepsType
    <3>2. \/ UNCHANGED execution
          \/ execution' = [execution EXCEPT ![request[r].plan] = Canceled(@, "queued")]
      BY <1>19 DEF CancelStep
    <3> QED BY <1>c, <3>1, <3>2
  <2>3. request' \in [Requests -> RequestType]
    BY <1>b, <1>19, Moves, Answers, AnswersSession DEF CancelStep, Refuse,
       Places, Replies
  <2>4. UNCHANGED <<history, current, plans, up, wakeC, execWakeC, worker,
     runner, crashes>>
    BY <1>19 DEF CancelStep, operation, sessions, tokens, machine
  <2> QED BY <1>a, <2>1, <2>2, <2>3, <2>4, <1>b, <1>c, <1>d DEF TypeOK
<1>20. ASSUME NEW r \in Requests, CancelStep(r, "flag") PROVE TypeOK'
  <2>1. planning' \in [Session -> PlanningType]
    <3>1. \A s \in Session : Canceled(planning[s], "flag") \in PlanningType
      BY <1>c, CancelKeepsType
    <3>2. \/ UNCHANGED planning
          \/ planning' = [planning EXCEPT ![request[r].plan] = Canceled(@, "flag")]
      BY <1>20 DEF CancelStep
    <3> QED BY <1>c, <3>1, <3>2
  <2>2. execution' \in [Session -> ExecutionType]
    <3>1. \A s \in Session : Canceled(execution[s], "flag") \in ExecutionType
      BY <1>c, CancelKeepsType
    <3>2. \/ UNCHANGED execution
          \/ execution' = [execution EXCEPT ![request[r].plan] = Canceled(@, "flag")]
      BY <1>20 DEF CancelStep
    <3> QED BY <1>c, <3>1, <3>2
  <2>3. request' \in [Requests -> RequestType]
    BY <1>b, <1>20, Moves, Answers, AnswersSession DEF CancelStep, Refuse,
       Places, Replies
  <2>4. UNCHANGED <<history, current, plans, up, wakeC, execWakeC, worker,
     runner, crashes>>
    BY <1>20 DEF CancelStep, operation, sessions, tokens, machine
  <2> QED BY <1>a, <2>1, <2>2, <2>3, <2>4, <1>b, <1>c, <1>d DEF TypeOK
<1>21. ASSUME NEW r \in Requests, CancelFails(r) PROVE TypeOK'
  <2>1. request' \in [Requests -> RequestType]
    BY <1>b, <1>21, Moves, Answers, AnswersSession DEF CancelFails, Refuse,
       Places, Replies
  <2>2. UNCHANGED <<history, current, plans, planning, execution, up, wakeC,
     execWakeC, worker, runner, crashes>>
    BY <1>21 DEF CancelFails, operation, sessions, tokens, machine
  <2> QED BY <1>a, <2>1, <2>2, <1>b, <1>c, <1>d DEF TypeOK
<1>22. ASSUME NEW w \in Workers, Drain(w) PROVE TypeOK'
  <2>1. wakeC' \in BOOLEAN
    BY <1>a, <1>22 DEF Drain, WorkerAt, WorkerTo
  <2>2. worker' \in [Workers -> WorkerType]
    BY <1>d, <1>22, IdleFits DEF Drain, WorkerAt, WorkerTo, WorkerType
  <2>3. UNCHANGED <<history, current, plans, planning, execution, up, execWakeC,
     runner, request, crashes>>
    BY <1>22 DEF Drain, operation, sessions, tokens, machine
  <2> QED BY <1>a, <2>1, <2>2, <2>3, <1>b, <1>c, <1>d DEF TypeOK
<1>23. ASSUME NEW w \in Workers, ClaimPlanning(w) PROVE TypeOK'
  <2>1. planning' \in [Session -> PlanningType]
    <3>1. \A s \in Session : [planning[s] EXCEPT !.status = "running"] \in PlanningType
      BY <1>c DEF PlanningType, PlanningStatus
    <3> QED BY <1>c, <3>1, <1>23 DEF ClaimPlanning, QueuedPlanning
  <2>2. worker' \in [Workers -> WorkerType]
    <3>1. PICK s \in Session :
             worker' = [worker EXCEPT ![w].at = "work", ![w].session = s]
      BY <1>23 DEF ClaimPlanning, QueuedPlanning
    <3> QED BY <1>d, <3>1 DEF WorkerType
  <2>3. UNCHANGED <<history, current, plans, execution, up, wakeC, execWakeC,
     runner, request, crashes>>
    BY <1>23 DEF ClaimPlanning, operation, sessions, tokens, machine
  <2> QED BY <1>a, <2>1, <2>2, <2>3, <1>b, <1>c, <1>d DEF TypeOK
<1>24. ASSUME NEW w \in Workers, NothingQueued(w) PROVE TypeOK'
  <2>1. worker' \in [Workers -> WorkerType]
    BY <1>d, <1>24, IdleFits DEF NothingQueued, WorkerAt, WorkerTo, WorkerType
  <2>2. UNCHANGED <<history, current, plans, planning, execution, up, wakeC,
     execWakeC, runner, request, crashes>>
    BY <1>24 DEF NothingQueued, operation, sessions, tokens, machine
  <2> QED BY <1>a, <2>1, <2>2, <1>b, <1>c, <1>d DEF TypeOK
<1>25. ASSUME NEW w \in Workers, ClaimFails(w) PROVE TypeOK'
  <2>1. worker' \in [Workers -> WorkerType]
    BY <1>d, <1>25, IdleFits DEF ClaimFails, WorkerAt, WorkerTo, WorkerType
  <2>2. UNCHANGED <<history, current, plans, planning, execution, up, wakeC,
     execWakeC, runner, request, crashes>>
    BY <1>25 DEF ClaimFails, operation, sessions, tokens, machine
  <2> QED BY <1>a, <2>1, <2>2, <1>b, <1>c, <1>d DEF TypeOK
<1>26. ASSUME NEW w \in Workers, RetryClaim(w) PROVE TypeOK'
  <2>1. wakeC' \in BOOLEAN
    BY <1>a, <1>26 DEF RetryClaim, WorkerAt, WorkerTo
  <2>2. worker' \in [Workers -> WorkerType]
    BY <1>d, <1>26, IdleFits DEF RetryClaim, WorkerAt, WorkerTo, WorkerType
  <2>3. UNCHANGED <<history, current, plans, planning, execution, up, execWakeC,
     runner, request, crashes>>
    BY <1>26 DEF RetryClaim, operation, sessions, tokens, machine
  <2> QED BY <1>a, <2>1, <2>2, <2>3, <1>b, <1>c, <1>d DEF TypeOK
<1>27. ASSUME NEW w \in Workers, Woken(w) PROVE TypeOK'
  <2>1. wakeC' \in BOOLEAN
    BY <1>a, <1>27 DEF Woken, WorkerAt, WorkerTo
  <2>2. worker' \in [Workers -> WorkerType]
    BY <1>d, <1>27, IdleFits DEF Woken, WorkerAt, WorkerTo, WorkerType
  <2>3. UNCHANGED <<history, current, plans, planning, execution, up, execWakeC,
     runner, request, crashes>>
    BY <1>27 DEF Woken, operation, sessions, tokens, machine
  <2> QED BY <1>a, <2>1, <2>2, <2>3, <1>b, <1>c, <1>d DEF TypeOK
<1>28. ASSUME NEW w \in Workers, EndPlanning(w) PROVE TypeOK'
  <2>1. planning' \in [Session -> PlanningType]
    <3>1. \A s \in Session, status \in {"failed", "canceled"} :
             [planning[s] EXCEPT !.status = status] \in PlanningType
      BY <1>c DEF PlanningType, PlanningStatus
    <3>2. \/ UNCHANGED planning
          \/ \E status \in {"failed", "canceled"} :
                planning' = [planning EXCEPT ![worker[w].session].status = status]
      BY <1>28 DEF EndPlanning
    <3> QED BY <1>c, <3>1, <3>2
  <2>2. worker' \in [Workers -> WorkerType]
    BY <1>d, <1>28, IdleFits DEF EndPlanning, WorkerAt, WorkerTo, WorkerType
  <2>3. UNCHANGED <<history, current, plans, execution, up, wakeC, execWakeC,
     runner, request, crashes>>
    BY <1>28 DEF EndPlanning, operation, sessions, tokens, machine
  <2> QED BY <1>a, <2>1, <2>2, <2>3, <1>b, <1>c, <1>d DEF TypeOK
<1>29. ASSUME NEW w \in Workers, PersistRevision(w) PROVE TypeOK'
  <2>a. worker[w].session \in Session
    BY <1>29 DEF PersistRevision, WorkerAt, Tables, WorkersFit
  <2>1. history' \in Seq(Drafts) /\ history' # <<>>
    <3>1. Append(history, Draft) \in Seq(Drafts) /\ Append(history, Draft) # <<>>
      BY <1>a, <1>b
    <3> QED BY <3>1, <1>29 DEF PersistRevision
  <2>2. current' \in Session \cup {0}
    BY <2>a, <1>29 DEF PersistRevision
  <2>3. plans' \in SUBSET Session
    BY <1>a, <2>a, <1>29 DEF PersistRevision, Promoted
  <2>4. planning' \in [Session -> PlanningType]
    <3>1. [planning[worker[w].session] EXCEPT !.status = "completed"] \in PlanningType
      BY <1>c, <2>a DEF PlanningType, PlanningStatus
    <3> QED BY <1>c, <3>1, <1>29 DEF PersistRevision
  <2>5. execution' \in [Session -> ExecutionType]
    <3>1. [NoExecution EXCEPT !.status = "deleted"] \in ExecutionType
      <4>1. NoKey \in Keys
        BY LifecycleFacts
      <4> QED BY <4>1 DEF NoExecution, ExecutionType, ExecutionStatus
    <3>2. execution' = [x \in Session |->
            IF x = current /\ execution[x].status # "absent"
            THEN [NoExecution EXCEPT !.status = "deleted"] ELSE execution[x]]
      BY <1>29 DEF PersistRevision, Retire
    <3> QED BY <1>c, <3>1, <3>2
  <2>6. worker' \in [Workers -> WorkerType]
    BY <1>d, <1>29, IdleFits DEF PersistRevision, WorkerAt, WorkerTo, WorkerType
  <2>7. UNCHANGED <<up, wakeC, execWakeC, runner, request, crashes>>
    BY <1>29 DEF PersistRevision, operation, sessions, tokens, machine
  <2> QED BY <1>a, <2>1, <2>2, <2>3, <2>4, <2>5, <2>6, <2>7, <1>b, <1>c, <1>d
     DEF TypeOK
<1>30. ASSUME NEW w \in Workers, ObserveCancel(w) PROVE TypeOK'
  <2>1. worker' \in [Workers -> WorkerType]
    BY <1>d, <1>30, IdleFits DEF ObserveCancel, WorkerAt, WorkerType
  <2>2. UNCHANGED <<history, current, plans, planning, execution, up, wakeC,
     execWakeC, runner, request, crashes>>
    BY <1>30 DEF ObserveCancel, operation, sessions, tokens, machine
  <2> QED BY <1>a, <2>1, <2>2, <1>b, <1>c, <1>d DEF TypeOK
<1>31. ASSUME ClaimExecution PROVE TypeOK'
  <2>1. execution' \in [Session -> ExecutionType]
    <3>1. \A s \in Session : [execution[s] EXCEPT !.status = "running"] \in ExecutionType
      BY <1>c DEF ExecutionType, ExecutionStatus
    <3> QED BY <1>c, <3>1, <1>31 DEF ClaimExecution, QueuedExecution
  <2>2. runner' \in WorkerType
    <3>1. PICK s \in Session : runner' = [runner EXCEPT !.at = "work", !.session = s]
      BY <1>31 DEF ClaimExecution, QueuedExecution
    <3> QED BY <1>d, <3>1 DEF WorkerType
  <2>3. UNCHANGED <<history, current, plans, planning, up, wakeC, execWakeC,
     worker, request, crashes>>
    BY <1>31 DEF ClaimExecution, operation, sessions, tokens, machine
  <2> QED BY <1>a, <2>1, <2>2, <2>3, <1>b, <1>c, <1>d DEF TypeOK
<1>32. ASSUME RunnerIdles PROVE TypeOK'
  <2>1. runner' \in WorkerType
    BY <1>d, <1>32, IdleFits DEF RunnerIdles, RunnerTo, WorkerType
  <2>2. UNCHANGED <<history, current, plans, planning, execution, up, wakeC,
     execWakeC, worker, request, crashes>>
    BY <1>32 DEF RunnerIdles, operation, sessions, tokens, machine
  <2> QED BY <1>a, <2>1, <2>2, <1>b, <1>c, <1>d DEF TypeOK
<1>33. ASSUME RunnerResumes PROVE TypeOK'
  <2>1. execWakeC' \in BOOLEAN
    BY <1>a, <1>33 DEF RunnerResumes, RunnerTo
  <2>2. runner' \in WorkerType
    BY <1>d, <1>33, IdleFits DEF RunnerResumes, RunnerTo, WorkerType
  <2>3. UNCHANGED <<history, current, plans, planning, execution, up, wakeC,
     worker, request, crashes>>
    BY <1>33 DEF RunnerResumes, operation, sessions, tokens, machine
  <2> QED BY <1>a, <2>1, <2>2, <2>3, <1>b, <1>c, <1>d DEF TypeOK
<1>34. ASSUME FinishExecution PROVE TypeOK'
  <2>1. execution' \in [Session -> ExecutionType]
    <3>1. \A s \in Session, status \in {"succeeded", "failed", "canceled"} :
             [execution[s] EXCEPT !.status = status] \in ExecutionType
      BY <1>c DEF ExecutionType, ExecutionStatus
    <3>2. \/ UNCHANGED execution
          \/ \E status \in {"succeeded", "failed", "canceled"} :
                execution' = [execution EXCEPT ![runner.session].status = status]
      BY <1>34 DEF FinishExecution, Ends
    <3> QED BY <1>c, <3>1, <3>2
  <2>2. runner' \in WorkerType
    BY <1>d, <1>34, IdleFits DEF FinishExecution, RunnerTo, WorkerType
  <2>3. UNCHANGED <<history, current, plans, planning, up, wakeC, execWakeC,
     worker, request, crashes>>
    BY <1>34 DEF FinishExecution, operation, sessions, tokens, machine
  <2> QED BY <1>a, <2>1, <2>2, <2>3, <1>b, <1>c, <1>d DEF TypeOK
<1>35. ASSUME Crash PROVE TypeOK'
  <2>1. up' \in BOOLEAN
    BY <1>a, <1>35 DEF Crash
  <2>2. wakeC' \in BOOLEAN
    BY <1>a, <1>35 DEF Crash
  <2>3. execWakeC' \in BOOLEAN
    BY <1>a, <1>35 DEF Crash
  <2>4. worker' \in [Workers -> WorkerType]
    BY <1>d, <1>35, IdleFits DEF Crash, WorkerType
  <2>5. runner' \in WorkerType
    BY <1>d, <1>35, IdleFits DEF Crash, WorkerType
  <2>6. request' \in [Requests -> RequestType]
    <3>1. ASSUME NEW r \in Requests
          PROVE  (IF request[r].at \in {"new", "done"} THEN request[r]
                  ELSE [request[r] EXCEPT !.at = "done", !.reply = "lost"]) \in RequestType
      <4>1. request[r] \in RequestType /\ "done" \in Places /\ "lost" \in Replies
        BY <1>b DEF Places, Replies
      <4>2. [request[r] EXCEPT !.at = "done", !.reply = "lost"] \in RequestType
        BY <4>1 DEF RequestType
      <4> QED BY <4>1, <4>2
    <3>2. request' = [r \in Requests |->
              IF request[r].at \in {"new", "done"} THEN request[r]
              ELSE [request[r] EXCEPT !.at = "done", !.reply = "lost"]]
      BY <1>35 DEF Crash
    <3> QED BY <3>1, <3>2
  <2>7. crashes' \in 0 .. MaxCrashes
    <3>1. MaxCrashes \in Nat /\ crashes \in 0 .. MaxCrashes
      BY <1>a, LifecycleAssumption
    <3>2. crashes < MaxCrashes /\ crashes' = crashes + 1
      BY <1>35 DEF Crash
    <3> QED BY <3>1, <3>2
  <2>8. UNCHANGED <<history, current, plans, planning, execution>>
    BY <1>35 DEF Crash, operation, sessions, tokens, machine
  <2> QED BY <1>a, <2>1, <2>2, <2>3, <2>4, <2>5, <2>6, <2>7, <2>8, <1>b, <1>c,
     <1>d DEF TypeOK
<1>36. ASSUME Restart PROVE TypeOK'
  <2>1. up' \in BOOLEAN
    BY <1>a, <1>36 DEF Restart
  <2>2. planning' \in [Session -> PlanningType]
    <3>1. \A s \in Session : [planning[s] EXCEPT !.status = "interrupted"] \in PlanningType
      BY <1>c DEF PlanningType, PlanningStatus
    <3> QED BY <1>c, <3>1, <1>36 DEF Restart, InterruptStale
  <2>3. execution' \in [Session -> ExecutionType]
    <3>1. \A s \in Session : [execution[s] EXCEPT !.status = "interrupted"] \in ExecutionType
      BY <1>c DEF ExecutionType, ExecutionStatus
    <3> QED BY <1>c, <3>1, <1>36 DEF Restart, InterruptStale
  <2>4. worker' \in [Workers -> WorkerType]
    BY <1>d, <1>36, IdleFits DEF Restart, WorkerType
  <2>5. runner' \in WorkerType
    BY <1>d, <1>36, IdleFits DEF Restart, WorkerType
  <2>6. UNCHANGED <<history, current, plans, wakeC, execWakeC, request,
     crashes>>
    BY <1>36 DEF Restart, operation, sessions, tokens, machine
  <2> QED BY <1>a, <2>1, <2>2, <2>3, <2>4, <2>5, <2>6, <1>b, <1>c, <1>d DEF
     TypeOK
<1>37. CASE UNCHANGED vars
  BY <1>a, <1>b, <1>c, <1>d, <1>37 DEF TypeOK, vars, operation, sessions, tokens, machine
<1> QED
  BY <1>1, <1>2, <1>3, <1>4, <1>5, <1>6, <1>7, <1>8, <1>9, <1>10, <1>11, <1>12,
     <1>13, <1>14, <1>15, <1>16, <1>17, <1>18, <1>19, <1>20, <1>21, <1>22,
     <1>23, <1>24, <1>25, <1>26, <1>27, <1>28, <1>29, <1>30, <1>31, <1>32,
     <1>33, <1>34, <1>35, <1>36, <1>37 DEF Next, RequestStep, WorkerStep,
     RunnerStep, Cancel

\* A request whose answer says nothing about the tables.
LEMMA Dull ==
    ASSUME NEW r \in Requests,
           request'[r].reply \notin {"saved", "session", "canceled"},
           request'[r].at # "done" => request'[r].reply = "none",
           request'[r].kind = "generate" => request'[r].at # "wake",
           request'[r].kind = "execute" => request'[r].at \notin BeforeWake,
           request'[r].kind \in CancelKinds =>
               request'[r].at \notin {"queued", "flag", "wake"}
    PROVE  SavesOver(r) /\ Answered(r)'
<1>1. SavesOver(r) /\ Open(r)' /\ SavedBefore(r)'
  BY DEF SavesOver, Open, SavedBefore
<1>2. SharesKey(r)' /\ CarriesPlan(r)'
  BY DEF SharesKey, CarriesPlan
<1>3. Cancels(r)'
  BY DEF Cancels
<1> QED BY <1>1, <1>2, <1>3 DEF Answered

\* A planning request answers with what it shares.
LEMMA Generates ==
    ASSUME NEW r \in Requests, request'[r].kind = "generate",
           request'[r].reply \notin {"saved", "canceled"}, Open(r)', SharesKey(r)'
    PROVE  SavesOver(r) /\ Answered(r)'
<1>1. SavesOver(r) /\ SavedBefore(r)' /\ CarriesPlan(r)'
  BY DEF SavesOver, SavedBefore, CarriesPlan
<1>2. Cancels(r)'
  BY DEF Cancels, CancelKinds
<1> QED BY <1>1, <1>2 DEF Answered

\* An execution request answers for the plan it carries.
LEMMA Executes ==
    ASSUME NEW r \in Requests, request'[r].kind = "execute",
           request'[r].reply \notin {"saved", "canceled"}, Open(r)', CarriesPlan(r)'
    PROVE  SavesOver(r) /\ Answered(r)'
<1>1. SavesOver(r) /\ SavedBefore(r)' /\ SharesKey(r)'
  BY DEF SavesOver, SavedBefore, SharesKey
<1>2. Cancels(r)'
  BY DEF Cancels, CancelKinds
<1> QED BY <1>1, <1>2 DEF Answered

\* A cancel request answers for its row.
LEMMA CancelsRow ==
    ASSUME NEW r \in Requests, request'[r].kind \in CancelKinds,
           request'[r].reply # "saved", Open(r)', Cancels(r)'
    PROVE  SavesOver(r) /\ Answered(r)'
<1>1. SavesOver(r) /\ SavedBefore(r)' /\ SharesKey(r)' /\ CarriesPlan(r)'
  BY DEF SavesOver, SavedBefore, SharesKey, CarriesPlan, CancelKinds
<1> QED BY <1>1 DEF Answered

\* What a request does keeps what it was answered true.
LEMMA Acting ==
    ASSUME Inv, NEW r \in Requests, RequestStep(r)
    PROVE  Others(r) /\ SavesOver(r) /\ Answered(r)'
<1> DEFINE Goal == Others(r) /\ SavesOver(r) /\ Answered(r)'
<1>a. /\ request \in [Requests -> RequestType] /\ request[r] \in RequestType
      /\ Answered(r) /\ TypeOK /\ Numbered
  BY LifecycleFacts DEF Inv, Tables
<1>b. /\ planning \in [Session -> PlanningType] /\ execution \in [Session -> ExecutionType]
      /\ Version \in Nat \ {0}
  BY <1>a, LifecycleFacts
<1>1. ASSUME LoadOperation(r) PROVE Goal
  <2>1. request[r].kind = "generate" /\ request[r].reply = "none"
    BY <1>a, <1>1 DEF LoadOperation, At, Answered, Open
  <2>2. /\ Others(r) /\ request'[r].kind = request[r].kind
        /\ (request'[r].at = "draft" /\ request'[r].reply = "none")
    BY <1>a, <2>1, <1>1 DEF LoadOperation, Others, Refuse, Answer, MoveTo, RequestType
  <2> QED BY <2>1, <2>2, Dull
<1>2. ASSUME LoadDraft(r) PROVE Goal
  <2>1. request[r].kind = "generate" /\ request[r].reply = "none"
    BY <1>a, <1>2 DEF LoadDraft, At, Answered, Open
  <2>2. /\ Others(r) /\ request'[r].kind = request[r].kind
        /\ \/ (request'[r].at = "executions" /\ request'[r].reply = "none")
           \/ (request'[r].at = "done" /\ request'[r].reply = "refused")
    BY <1>a, <2>1, <1>2 DEF LoadDraft, Others, Refuse, Answer, MoveTo, RequestType
  <2> QED BY <2>1, <2>2, Dull
<1>3. ASSUME CheckExecutions(r) PROVE Goal
  <2>1. request[r].kind = "generate" /\ request[r].reply = "none"
    BY <1>a, <1>3 DEF CheckExecutions, At, Answered, Open
  <2>2. /\ Others(r) /\ request'[r].kind = request[r].kind
        /\ \/ (request'[r].at = "revision" /\ request'[r].reply = "none")
           \/ (request'[r].at = "done" /\ request'[r].reply = "refused")
    BY <1>a, <2>1, <1>3 DEF CheckExecutions, Others, Refuse, Answer, MoveTo, RequestType
  <2> QED BY <2>1, <2>2, Dull
<1>4. ASSUME ReplayRevision(r) PROVE Goal
  <2>1. request[r].kind = "generate" /\ request[r].reply = "none"
    BY <1>a, <1>4 DEF ReplayRevision, At, Answered, Open
  <2>2. /\ Others(r) /\ request'[r].kind = request[r].kind
        /\ \/ (request'[r].at = "key" /\ request'[r].reply = "none")
           \/ (request'[r].at = "done" /\ request'[r].reply = "revision")
    BY <1>a, <2>1, <1>4 DEF ReplayRevision, Others, Refuse, Answer, MoveTo, RequestType
  <2> QED BY <2>1, <2>2, Dull
<1>5. ASSUME ReplayKey(r) PROVE Goal
  <2>1. request[r].kind = "generate" /\ request[r].reply = "none" /\ UNCHANGED planning
    BY <1>a, <1>5 DEF ReplayKey, At, Answered, Open, sessions
  <2>2. CASE Refuse(r) \/ MoveTo(r, "active")
    <3>1. /\ Others(r) /\ request'[r].kind = request[r].kind
          /\ \/ (request'[r].at = "active" /\ request'[r].reply = "none")
             \/ (request'[r].at = "done" /\ request'[r].reply = "refused")
      BY <1>a, <2>1, <2>2 DEF Others, Refuse, Answer, MoveTo, RequestType
    <3> QED BY <2>1, <3>1, Dull
  <2>3. CASE \E s \in PlanningRows(request[r].key) : AnswerSession(r, s)
    <3>1. PICK s \in Session : /\ AnswerSession(r, s) /\ Planned(s)
                               /\ planning[s].key = request[r].key
      BY <2>3 DEF PlanningRows
    <3>2. /\ Others(r) /\ Asks(r) /\ request'[r].at = "done" /\ request'[r].plan = s
          /\ request'[r].reply = "session"
      BY <1>a, <3>1, AnswersSession
    <3>3. SharesKey(r)' /\ Open(r)'
      BY <2>1, <3>1, <3>2 DEF SharesKey, Open, Planned, Asks
    <3> QED BY <2>1, <3>2, <3>3, Generates DEF Asks
  <2> QED BY <2>2, <2>3, <1>5 DEF ReplayKey
<1>6. ASSUME CheckPlanning(r) PROVE Goal
  <2>1. request[r].kind = "generate" /\ request[r].reply = "none"
    BY <1>a, <1>6 DEF CheckPlanning, At, Answered, Open
  <2>2. CASE Answer(r, "in progress")
    <3>1. /\ Others(r) /\ request'[r].kind = request[r].kind
          /\ request'[r].at = "done" /\ request'[r].reply = "in progress"
      BY <1>a, <2>2 DEF Others, Answer, RequestType
    <3> QED BY <2>1, <3>1, Dull
  <2>3. CASE MoveTo(r, "insert")
    <3>1. /\ Others(r) /\ request'[r].kind = request[r].kind
          /\ request'[r].at = "insert" /\ request'[r].reply = "none"
      BY <1>a, <2>1, <2>3 DEF Others, MoveTo, RequestType
    <3> QED BY <2>1, <3>1, Dull
  <2> QED BY <2>2, <2>3, <1>6 DEF CheckPlanning
<1>7. ASSUME CreateGeneration(r) PROVE Goal
  <2>1. request[r].kind = "generate" /\ request[r].reply = "none"
    BY <1>a, <1>7 DEF CreateGeneration, At, Answered, Open
  <2>2. CASE Refuse(r)
    <3>1. /\ Others(r) /\ request'[r].kind = request[r].kind
          /\ request'[r].at = "done" /\ request'[r].reply = "refused"
      BY <1>a, <2>2 DEF Others, Refuse, Answer, RequestType
    <3> QED BY <2>1, <3>1, Dull
  <2>3. CASE UNCHANGED planning /\ \E s \in PlanningRows(request[r].key) : AnswerSession(r, s)
    <3>1. PICK s \in Session : /\ AnswerSession(r, s) /\ Planned(s)
                               /\ planning[s].key = request[r].key
      BY <2>3 DEF PlanningRows
    <3>2. /\ Others(r) /\ Asks(r) /\ request'[r].at = "done" /\ request'[r].plan = s
          /\ request'[r].reply = "session"
      BY <1>a, <3>1, AnswersSession
    <3>3. SharesKey(r)' /\ Open(r)'
      BY <2>1, <2>3, <3>1, <3>2 DEF SharesKey, Open, Planned, Asks
    <3> QED BY <2>1, <3>2, <3>3, Generates DEF Asks
  <2>4. CASE /\ Cardinality(Started) < MaxSessions
             /\ planning' = [planning EXCEPT ![Cardinality(Started) + 1] =
                    [status |-> "queued", key |-> request[r].key, cancel |-> FALSE,
                     draft |-> request[r].draft, version |-> request[r].version]]
             /\ request' = [request EXCEPT ![r].at = "wake",
                                           ![r].plan = Cardinality(Started) + 1]
    <3> DEFINE s == Cardinality(Started) + 1
    <3>1. s \in Session
      BY <1>a, <2>4, NextNumber
    <3>2. planning'[s].status = "queued" /\ planning'[s].key = request[r].key
      BY <1>b, <2>4, <3>1
    <3> HIDE DEF s
    <3>3. /\ Others(r) /\ request'[r].kind = request[r].kind /\ request'[r].at = "wake"
          /\ request'[r].key = request[r].key /\ request'[r].reply = request[r].reply
          /\ request'[r].plan = s
      BY <1>a, <2>4 DEF Others, RequestType, s
    <3>4. SharesKey(r)' /\ Open(r)'
      BY <2>1, <3>1, <3>2, <3>3 DEF SharesKey, Open, Planned
    <3> QED BY <2>1, <3>3, <3>4, Generates
  <2> QED BY <2>2, <2>3, <2>4, <1>7 DEF CreateGeneration
<1>8. ASSUME WakePlanning(r) PROVE Goal
  <2>1. /\ request[r].at = "wake" /\ request[r].reply = "none"
        /\ request[r].kind \in {"generate", "cancel planning"}
        /\ UNCHANGED <<planning, execution>>
    BY <1>a, <1>8 DEF WakePlanning, Answered, Open, sessions
  <2>2. /\ Others(r) /\ Asks(r) /\ request'[r].plan = request[r].plan
        /\ request'[r].at = "done"
        /\ request'[r].reply = IF request[r].kind = "generate" THEN "session" ELSE "canceled"
    <3>1. (IF request[r].kind = "generate" THEN "session" ELSE "canceled") \in Replies
      BY DEF Replies
    <3> QED BY <1>a, <3>1, <1>8, Answers DEF WakePlanning
  <2>3. CASE request[r].kind = "generate"
    <3>1. SharesKey(r)' /\ Open(r)'
      BY <1>a, <2>1, <2>2, <2>3 DEF SharesKey, Open, Planned, Asks, Answered
    <3> QED BY <2>2, <2>3, <3>1, Generates DEF Asks
  <2>4. CASE request[r].kind = "cancel planning"
    <3>1. CancelTable(r)' = CancelTable(r)
      BY <2>1, <2>2 DEF CancelTable, Asks
    <3>2. Cancels(r)' /\ Open(r)'
      BY <1>a, <2>1, <2>2, <2>4, <3>1 DEF Cancels, Open, Asks, Answered, CancelKinds
    <3> QED BY <2>2, <2>4, <3>2, CancelsRow DEF Asks, CancelKinds
  <2> QED BY <2>1, <2>3, <2>4
<1>9. ASSUME ViewOperation(r) PROVE Goal
  <2>1. request[r].kind = "save" /\ request[r].reply = "none"
    BY <1>a, <1>9 DEF ViewOperation, At, Answered, Open
  <2>2. /\ Others(r) /\ request'[r].kind = request[r].kind
        /\ (request'[r].at = "active" /\ request'[r].reply = "none")
    BY <1>a, <2>1, <1>9 DEF ViewOperation, Others, Refuse, Answer, MoveTo, RequestType
  <2> QED BY <2>1, <2>2, Dull
<1>10. ASSUME CheckPlanningIdle(r) PROVE Goal
  <2>1. request[r].kind = "save" /\ request[r].reply = "none"
    BY <1>a, <1>10 DEF CheckPlanningIdle, At, Answered, Open
  <2>2. /\ Others(r) /\ request'[r].kind = request[r].kind
        /\ \/ (request'[r].at = "executions" /\ request'[r].reply = "none")
           \/ (request'[r].at = "done" /\ request'[r].reply = "refused")
    BY <1>a, <2>1, <1>10 DEF CheckPlanningIdle, Others, Refuse, Answer, MoveTo, RequestType
  <2> QED BY <2>1, <2>2, Dull
<1>11. ASSUME CheckExecutionIdle(r) PROVE Goal
  <2>1. request[r].kind = "save" /\ request[r].reply = "none"
    BY <1>a, <1>11 DEF CheckExecutionIdle, At, Answered, Open
  <2>2. /\ Others(r) /\ request'[r].kind = request[r].kind
        /\ \/ (request'[r].at = "write" /\ request'[r].reply = "none")
           \/ (request'[r].at = "done" /\ request'[r].reply = "refused")
    BY <1>a, <2>1, <1>11 DEF CheckExecutionIdle, Others, Refuse, Answer, MoveTo, RequestType
  <2> QED BY <2>1, <2>2, Dull
<1>12. ASSUME SaveOperationDraft(r) PROVE Goal
  <2>1. request[r].kind = "save" /\ request[r].reply = "none"
    BY <1>a, <1>12 DEF SaveOperationDraft, At, Answered, Open
  <2>2. CASE Refuse(r)
    <3>1. /\ Others(r) /\ request'[r].kind = request[r].kind
          /\ request'[r].at = "done" /\ request'[r].reply = "refused"
      BY <1>a, <2>2 DEF Others, Refuse, Answer, RequestType
    <3> QED BY <2>1, <3>1, Dull
  <2>3. CASE /\ VersionHolds(r) /\ Answer(r, "saved")
             /\ \E d \in Drafts : history' = Append(history, d)
    <3>1. Version' = Version + 1 /\ request[r].version = Version
      BY <1>a, <2>3 DEF Version, VersionHolds, TypeOK
    <3>2. /\ Others(r) /\ Asks(r) /\ request'[r].at = "done" /\ request'[r].reply = "saved"
      <4>1. "saved" \in Replies
        BY DEF Replies
      <4> QED BY <1>a, <2>3, <4>1, Answers
    <3>3. SavesOver(r) /\ Open(r)' /\ SavedBefore(r)'
      BY <1>b, <3>1, <3>2 DEF SavesOver, Open, SavedBefore, Asks
    <3>4. SharesKey(r)' /\ CarriesPlan(r)' /\ Cancels(r)'
      BY <2>1, <3>2 DEF SharesKey, CarriesPlan, Cancels, CancelKinds, Asks
    <3> QED BY <3>2, <3>3, <3>4 DEF Answered
  <2> QED BY <2>2, <2>3, <1>12 DEF SaveOperationDraft
<1>13. ASSUME LoadForExecution(r) PROVE Goal
  <2>1. request[r].kind = "execute" /\ request[r].reply = "none" /\ UNCHANGED planning
    BY <1>a, <1>13 DEF LoadForExecution, At, Answered, Open, sessions
  <2>2. PICK p \in Session :
          /\ planning[p].status = "completed"
          /\ request' = [request EXCEPT ![r].version = Version, ![r].plan = p,
                                        ![r].at = IF p = current THEN "key" ELSE "stale"]
    BY <1>13 DEF LoadForExecution
  <2>3. /\ Others(r) /\ request'[r].kind = request[r].kind /\ request'[r].plan = p
        /\ request'[r].reply = request[r].reply /\ request'[r].at \in {"key", "stale"}
    BY <1>a, <2>2 DEF Others, RequestType
  <2>4. CarriesPlan(r)' /\ Open(r)'
    BY <2>1, <2>2, <2>3 DEF CarriesPlan, Open
  <2> QED BY <2>1, <2>3, <2>4, Executes
<1>14. ASSUME ReplayExecution(r) PROVE Goal
  <2>1. /\ request[r].kind = "execute" /\ request[r].reply = "none" /\ UNCHANGED planning
        /\ request[r].at \in BeforeWake
    BY <1>a, <1>14 DEF ReplayExecution, At, Answered, Open, sessions, BeforeWake
  <2>2. CASE Refuse(r) \/ \E s \in Session : AnswerSession(r, s)
    <3>1. /\ Others(r) /\ request'[r].kind = request[r].kind /\ request'[r].at = "done"
          /\ request'[r].reply \in {"refused", "session"}
      BY <1>a, <2>2 DEF Others, Refuse, Answer, AnswerSession, RequestType
    <3>2. CarriesPlan(r)' /\ Open(r)'
      BY <3>1 DEF CarriesPlan, Open, BeforeWake
    <3> QED BY <2>1, <3>1, <3>2, Executes
  <2>3. CASE MoveTo(r, "eligible")
    <3>1. /\ Others(r) /\ request'[r].kind = request[r].kind /\ request'[r].at = "eligible"
          /\ request'[r].reply = request[r].reply /\ request'[r].plan = request[r].plan
      BY <1>a, <2>3 DEF Others, MoveTo, RequestType
    <3>2. CarriesPlan(r)' /\ Open(r)'
      BY <1>a, <2>1, <3>1 DEF CarriesPlan, Open, Answered
    <3> QED BY <2>1, <3>1, <3>2, Executes
  <2> QED BY <2>2, <2>3, <1>14 DEF ReplayExecution, ReplayExecutionRow, ExecutionRows
<1>15. ASSUME CheckEligible(r) PROVE Goal
  <2>1. /\ request[r].kind = "execute" /\ request[r].reply = "none" /\ UNCHANGED planning
        /\ request[r].at \in BeforeWake
    BY <1>a, <1>15 DEF CheckEligible, At, Answered, Open, sessions, BeforeWake
  <2>2. CASE Refuse(r)
    <3>1. /\ Others(r) /\ request'[r].kind = request[r].kind
          /\ request'[r].at = "done" /\ request'[r].reply = "refused"
      BY <1>a, <2>2 DEF Others, Refuse, Answer, RequestType
    <3> QED BY <2>1, <3>1, Dull DEF BeforeWake
  <2>3. CASE request' = [request EXCEPT ![r].at = "insert",
                                        ![r].draft = planning[request[r].plan].draft]
    <3>1. /\ Others(r) /\ request'[r].kind = request[r].kind /\ request'[r].at = "insert"
          /\ request'[r].reply = request[r].reply /\ request'[r].plan = request[r].plan
          /\ request'[r].draft = planning[request[r].plan].draft
      BY <1>a, <2>3 DEF Others, RequestType
    <3>2. CarriesPlan(r)' /\ Open(r)'
      BY <1>a, <2>1, <3>1 DEF CarriesPlan, Open, Answered
    <3> QED BY <2>1, <3>1, <3>2, Executes
  <2> QED BY <2>2, <2>3, <1>15 DEF CheckEligible
<1>16. ASSUME CreateExecutionGuarded(r) PROVE Goal
  <2>1. /\ request[r].kind = "execute" /\ request[r].reply = "none" /\ UNCHANGED planning
        /\ request[r].at \in BeforeWake
    BY <1>a, <1>16 DEF CreateExecutionGuarded, At, Answered, Open, BeforeWake
  <2>2. CASE Refuse(r) \/ \E s \in Session : AnswerSession(r, s)
    <3>1. /\ Others(r) /\ request'[r].kind = request[r].kind /\ request'[r].at = "done"
          /\ request'[r].reply \in {"refused", "session"}
      BY <1>a, <2>2 DEF Others, Refuse, Answer, AnswerSession, RequestType
    <3>2. CarriesPlan(r)' /\ Open(r)'
      BY <3>1 DEF CarriesPlan, Open, BeforeWake
    <3> QED BY <2>1, <3>1, <3>2, Executes
  <2>3. CASE MoveTo(r, "wake")
    <3>1. /\ Others(r) /\ request'[r].kind = request[r].kind /\ request'[r].at = "wake"
          /\ request'[r].reply = request[r].reply /\ request'[r].plan = request[r].plan
      BY <1>a, <2>3 DEF Others, MoveTo, RequestType
    <3>2. CarriesPlan(r)' /\ Open(r)'
      BY <1>a, <2>1, <3>1 DEF CarriesPlan, Open, Answered
    <3> QED BY <2>1, <3>1, <3>2, Executes
  <2> QED BY <2>2, <2>3, <1>16 DEF CreateExecutionGuarded, ReplayExecutionRow, ExecutionRows
<1>17. ASSUME WakeExecution(r) PROVE Goal
  <2>1. /\ request[r].at = "wake" /\ request[r].reply = "none"
        /\ request[r].kind \in {"execute", "cancel execution"}
        /\ UNCHANGED <<planning, execution>>
    BY <1>a, <1>17 DEF WakeExecution, Answered, Open, sessions
  <2>2. /\ Others(r) /\ Asks(r) /\ request'[r].plan = request[r].plan
        /\ request'[r].at = "done"
        /\ request'[r].reply = IF request[r].kind = "execute" THEN "session" ELSE "canceled"
    <3>1. (IF request[r].kind = "execute" THEN "session" ELSE "canceled") \in Replies
      BY DEF Replies
    <3> QED BY <1>a, <3>1, <1>17, Answers DEF WakeExecution
  <2>3. CASE request[r].kind = "execute"
    <3>1. CarriesPlan(r)' /\ Open(r)'
      BY <1>a, <2>1, <2>2, <2>3 DEF CarriesPlan, BeforeWake, Open, Asks, Answered
    <3> QED BY <2>2, <2>3, <3>1, Executes DEF Asks
  <2>4. CASE request[r].kind = "cancel execution"
    <3>1. CancelTable(r)' = CancelTable(r)
      BY <2>1, <2>2 DEF CancelTable, Asks
    <3>2. Cancels(r)' /\ Open(r)'
      BY <1>a, <2>1, <2>2, <2>4, <3>1 DEF Cancels, Open, Asks, Answered, CancelKinds
    <3> QED BY <2>2, <2>4, <3>2, CancelsRow DEF Asks, CancelKinds
  <2> QED BY <2>1, <2>3, <2>4
<1>18. ASSUME LoadForCancel(r) PROVE Goal
  <2> DEFINE st(s) == CancelTable(r)[s].status
  <2>1. /\ request[r].kind \in CancelKinds /\ request[r].reply = "none"
        /\ UNCHANGED <<planning, execution>>
    BY <1>a, <1>18 DEF LoadForCancel, Answered, Open, sessions, CancelKinds
  <2>2. PICK s \in Session :
          /\ st(s) \notin {"absent", "deleted"}
          /\ request' = [request EXCEPT
                ![r].plan = s,
                ![r].wake = (st(s) = "queued"),
                ![r].at = IF st(s) \in Active THEN "queued" ELSE "done",
                ![r].reply = IF st(s) \in Active THEN @ ELSE "canceled"]
    BY <1>18 DEF LoadForCancel
  <2>3. /\ Others(r) /\ request'[r].kind = request[r].kind /\ request'[r].plan = s
        /\ request'[r].at = IF st(s) \in Active THEN "queued" ELSE "done"
        /\ request'[r].reply = IF st(s) \in Active THEN request[r].reply ELSE "canceled"
    <3> HIDE DEF st
    <3> QED BY <1>a, <2>2 DEF Others, RequestType
  <2>4. CancelTable(r)' = CancelTable(r)
    BY <2>1, <2>3 DEF CancelTable
  <2>5. Cancels(r)' /\ Open(r)'
    BY <2>1, <2>2, <2>3, <2>4 DEF Cancels, Open, Active
  <2> QED BY <2>1, <2>3, <2>5, CancelsRow
<1>19. ASSUME CancelStep(r, "queued") PROVE Goal
  <2> DEFINE p == request[r].plan
  <2>1. /\ request[r].kind \in CancelKinds /\ request[r].reply = "none"
        /\ request[r].at = "queued"
    BY <1>a, <1>19 DEF CancelStep, Answered, Open, CancelKinds
  <2>2. /\ Others(r) /\ Asks(r) /\ request'[r].plan = p
        /\ request'[r].at = "flag" /\ request'[r].reply = "none"
    <3>1. "flag" \in Places /\ "wake" \in Places /\ "canceled" \in Replies
      BY DEF Places, Replies
    <3> QED BY <1>a, <2>1, <3>1, <1>19, Moves, Answers DEF CancelStep
  <2>3. /\ p \in Session /\ CancelTable(r)[p].status # "absent"
        /\ request[r].at # "queued" => CancelTable(r)[p].status # "queued"
    BY <1>a, <2>1 DEF Answered, Cancels
  <2>4. CancelTable(r)'[p] = Canceled(CancelTable(r)[p], "queued")
    BY <1>b, <2>1, <2>2, <2>3, <1>19 DEF CancelStep, CancelTable, Asks, CancelKinds
  <2>5. CancelTable(r)[p] \in PlanningType \cup ExecutionType
    BY <1>b, <2>3 DEF CancelTable
  <2>6. LET row == CancelTable(r)'[p]
        IN  /\ row.status # "absent" /\ row.status # "queued"
    BY <2>1, <2>3, <2>4, <2>5 DEF Canceled, PlanningType, ExecutionType
  <2>7. Cancels(r)' /\ Open(r)'
    BY <2>1, <2>2, <2>3, <2>6 DEF Cancels, Open, Asks
  <2> QED BY <2>1, <2>2, <2>7, CancelsRow DEF Asks
<1>20. ASSUME CancelStep(r, "flag") PROVE Goal
  <2> DEFINE p == request[r].plan
  <2>1. /\ request[r].kind \in CancelKinds /\ request[r].reply = "none"
        /\ request[r].at = "flag"
    BY <1>a, <1>20 DEF CancelStep, Answered, Open, CancelKinds
  <2>2. /\ Others(r) /\ Asks(r) /\ request'[r].plan = p
        /\ \/ (request'[r].at = "wake" /\ request'[r].reply = "none")
           \/ (request'[r].at = "done" /\ request'[r].reply = "canceled")
    <3>1. "flag" \in Places /\ "wake" \in Places /\ "canceled" \in Replies
      BY DEF Places, Replies
    <3> QED BY <1>a, <2>1, <3>1, <1>20, Moves, Answers DEF CancelStep
  <2>3. /\ p \in Session /\ CancelTable(r)[p].status # "absent"
        /\ request[r].at # "queued" => CancelTable(r)[p].status # "queued"
    BY <1>a, <2>1 DEF Answered, Cancels
  <2>4. CancelTable(r)'[p] = Canceled(CancelTable(r)[p], "flag")
    BY <1>b, <2>1, <2>2, <2>3, <1>20 DEF CancelStep, CancelTable, Asks, CancelKinds
  <2>5. CancelTable(r)[p] \in PlanningType \cup ExecutionType
    BY <1>b, <2>3 DEF CancelTable
  <2>6. LET row == CancelTable(r)'[p]
        IN  /\ row.status # "absent" /\ row.status # "queued"
            /\ row.status = "running" => row.cancel
    BY <2>1, <2>3, <2>4, <2>5 DEF Canceled, PlanningType, ExecutionType
  <2>7. Cancels(r)' /\ Open(r)'
    BY <2>1, <2>2, <2>3, <2>6 DEF Cancels, Open, Asks
  <2> QED BY <2>1, <2>2, <2>7, CancelsRow DEF Asks
<1>21. ASSUME CancelFails(r) PROVE Goal
  <2>1. /\ Others(r) /\ request'[r].at = "done" /\ request'[r].reply = "refused"
    BY <1>a, <1>21 DEF CancelFails, Others, Refuse, Answer, RequestType
  <2> QED BY <2>1, Dull DEF BeforeWake
<1> QED
  BY <1>1, <1>2, <1>3, <1>4, <1>5, <1>6, <1>7, <1>8, <1>9, <1>10, <1>11, <1>12,
     <1>13, <1>14, <1>15, <1>16, <1>17, <1>18, <1>19, <1>20, <1>21 DEF
     RequestStep, Cancel

\* Every step leaves the rows alone or is one of the eleven that write them.
LEMMA StepKinds ==
    ASSUME TypeOK, [Next]_vars
    PROVE  \/ Looks
           \/ \E r \in Requests :
                \/ CreateGeneration(r) \/ SaveOperationDraft(r) \/ CreateExecutionGuarded(r)
                \/ CancelStep(r, "queued") \/ CancelStep(r, "flag")
           \/ \E w \in Workers : ClaimPlanning(w) \/ EndPlanning(w) \/ PersistRevision(w)
           \/ ClaimExecution \/ FinishExecution \/ Restart
<1>a. worker \in [Workers -> WorkerType] /\ runner \in WorkerType
  BY LifecycleFacts
<1>1. ASSUME NEW r \in Requests, LoadOperation(r) PROVE Looks
  BY <1>a, <1>1 DEF LoadOperation, operation, sessions, tokens, machine, Looks,
     WorkersRest, RunnerRests
<1>2. ASSUME NEW r \in Requests, LoadDraft(r) PROVE Looks
  BY <1>a, <1>2 DEF LoadDraft, operation, sessions, tokens, machine, Looks,
     WorkersRest, RunnerRests
<1>3. ASSUME NEW r \in Requests, CheckExecutions(r) PROVE Looks
  BY <1>a, <1>3 DEF CheckExecutions, operation, sessions, tokens, machine,
     Looks, WorkersRest, RunnerRests
<1>4. ASSUME NEW r \in Requests, ReplayRevision(r) PROVE Looks
  BY <1>a, <1>4 DEF ReplayRevision, operation, sessions, tokens, machine, Looks,
     WorkersRest, RunnerRests
<1>5. ASSUME NEW r \in Requests, ReplayKey(r) PROVE Looks
  BY <1>a, <1>5 DEF ReplayKey, operation, sessions, tokens, machine, Looks,
     WorkersRest, RunnerRests
<1>6. ASSUME NEW r \in Requests, CheckPlanning(r) PROVE Looks
  BY <1>a, <1>6 DEF CheckPlanning, operation, sessions, tokens, machine, Looks,
     WorkersRest, RunnerRests
<1>7. ASSUME NEW r \in Requests, WakePlanning(r) PROVE Looks
  BY <1>a, <1>7 DEF WakePlanning, operation, sessions, tokens, machine, Looks,
     WorkersRest, RunnerRests
<1>8. ASSUME NEW r \in Requests, ViewOperation(r) PROVE Looks
  BY <1>a, <1>8 DEF ViewOperation, operation, sessions, tokens, machine, Looks,
     WorkersRest, RunnerRests
<1>9. ASSUME NEW r \in Requests, CheckPlanningIdle(r) PROVE Looks
  BY <1>a, <1>9 DEF CheckPlanningIdle, operation, sessions, tokens, machine,
     Looks, WorkersRest, RunnerRests
<1>10. ASSUME NEW r \in Requests, CheckExecutionIdle(r) PROVE Looks
  BY <1>a, <1>10 DEF CheckExecutionIdle, operation, sessions, tokens, machine,
     Looks, WorkersRest, RunnerRests
<1>11. ASSUME NEW r \in Requests, LoadForExecution(r) PROVE Looks
  BY <1>a, <1>11 DEF LoadForExecution, operation, sessions, tokens, machine,
     Looks, WorkersRest, RunnerRests
<1>12. ASSUME NEW r \in Requests, ReplayExecution(r) PROVE Looks
  BY <1>a, <1>12 DEF ReplayExecution, operation, sessions, tokens, machine,
     Looks, WorkersRest, RunnerRests
<1>13. ASSUME NEW r \in Requests, CheckEligible(r) PROVE Looks
  BY <1>a, <1>13 DEF CheckEligible, operation, sessions, tokens, machine, Looks,
     WorkersRest, RunnerRests
<1>14. ASSUME NEW r \in Requests, WakeExecution(r) PROVE Looks
  BY <1>a, <1>14 DEF WakeExecution, operation, sessions, tokens, machine, Looks,
     WorkersRest, RunnerRests
<1>15. ASSUME NEW r \in Requests, LoadForCancel(r) PROVE Looks
  BY <1>a, <1>15 DEF LoadForCancel, operation, sessions, tokens, machine, Looks,
     WorkersRest, RunnerRests
<1>16. ASSUME NEW r \in Requests, CancelFails(r) PROVE Looks
  BY <1>a, <1>16 DEF CancelFails, operation, sessions, tokens, machine, Looks,
     WorkersRest, RunnerRests
<1>17. ASSUME NEW w \in Workers, Drain(w) PROVE Looks
  BY <1>a, <1>17 DEF Drain, operation, sessions, tokens, machine, Looks,
     WorkersRest, RunnerRests, WorkerTo, Idle
<1>18. ASSUME NEW w \in Workers, NothingQueued(w) PROVE Looks
  BY <1>a, <1>18 DEF NothingQueued, operation, sessions, tokens, machine, Looks,
     WorkersRest, RunnerRests, WorkerTo, Idle
<1>19. ASSUME NEW w \in Workers, ClaimFails(w) PROVE Looks
  BY <1>a, <1>19 DEF ClaimFails, operation, sessions, tokens, machine, Looks,
     WorkersRest, RunnerRests, WorkerTo, Idle
<1>20. ASSUME NEW w \in Workers, RetryClaim(w) PROVE Looks
  BY <1>a, <1>20 DEF RetryClaim, operation, sessions, tokens, machine, Looks,
     WorkersRest, RunnerRests, WorkerTo, Idle
<1>21. ASSUME NEW w \in Workers, Woken(w) PROVE Looks
  BY <1>a, <1>21 DEF Woken, operation, sessions, tokens, machine, Looks,
     WorkersRest, RunnerRests, WorkerTo, Idle
<1>22. ASSUME NEW w \in Workers, ObserveCancel(w) PROVE Looks
  BY <1>a, <1>22 DEF ObserveCancel, operation, sessions, tokens, machine, Looks,
     WorkersRest, RunnerRests, Idle, WorkerType
<1>23. ASSUME RunnerIdles PROVE Looks
  BY <1>a, <1>23 DEF RunnerIdles, operation, sessions, tokens, machine, Looks,
     WorkersRest, RunnerRests, RunnerTo, Idle
<1>24. ASSUME RunnerResumes PROVE Looks
  BY <1>a, <1>24 DEF RunnerResumes, operation, sessions, tokens, machine, Looks,
     WorkersRest, RunnerRests, RunnerTo, Idle
<1>25. ASSUME Crash PROVE Looks
  BY <1>a, <1>25 DEF Crash, operation, sessions, tokens, machine, Looks,
     WorkersRest, RunnerRests, Idle
<1>26. CASE UNCHANGED vars
  BY <1>26 DEF vars, operation, sessions, machine, Looks, WorkersRest, RunnerRests
<1> QED
  BY <1>1, <1>2, <1>3, <1>4, <1>5, <1>6, <1>7, <1>8, <1>9, <1>10, <1>11, <1>12,
     <1>13, <1>14, <1>15, <1>16, <1>17, <1>18, <1>19, <1>20, <1>21, <1>22,
     <1>23, <1>24, <1>25, <1>26 DEF Next, RequestStep, WorkerStep, RunnerStep,
     Cancel

\* Rows that stay, stay forward.
LEMMA RowsStay ==
    /\ UNCHANGED planning => PlanningForward
    /\ UNCHANGED execution => ExecutionForward
<1>1. ASSUME UNCHANGED planning PROVE PlanningForward
  BY <1>1 DEF PlanningForward, Planned, Active
<1>2. ASSUME UNCHANGED execution PROVE ExecutionForward
  BY <1>2 DEF ExecutionForward, Active
<1> QED BY <1>1, <1>2

\* A row that moves alone, by one of the moves a row may make.
LEMMA PlanningMoves ==
    ASSUME TypeOK, NEW s \in Session, NEW row \in PlanningType,
           planning' = [planning EXCEPT ![s] = row],
           row.key = planning[s].key, row.draft = planning[s].draft,
           planning[s].cancel => row.cancel,
           \/ row.status = planning[s].status
           \/ planning[s].status \in Active /\ row.status \notin {"absent", "queued"}
    PROVE  PlanningForward
<1>1. planning \in [Session -> PlanningType]
  BY LifecycleFacts
<1>2. planning'[s] = row /\ \A t \in Session \ {s} : planning'[t] = planning[t]
  BY <1>1
<1>3. ASSUME NEW t \in Session
      PROVE  /\ Planned(t) =>
                  /\ planning'[t].status # "absent"
                  /\ planning'[t].key = planning[t].key
                  /\ planning'[t].draft = planning[t].draft
                  /\ planning[t].cancel => planning'[t].cancel
             /\ planning[t].status \notin {"absent", "queued"} => planning'[t].status # "queued"
             /\ planning[t].status \notin {"absent"} \cup Active =>
                  planning'[t].status = planning[t].status
             /\ planning'[t].status = "running" => planning[t].status \in Active
  <2>1. CASE t = s
    BY <1>2, <2>1 DEF Planned, Active
  <2>2. CASE t # s
    BY <1>2, <2>2 DEF Planned, Active
  <2> QED BY <2>1, <2>2
<1> QED BY <1>3 DEF PlanningForward

LEMMA ExecutionMoves ==
    ASSUME TypeOK, NEW p \in Session, NEW row \in ExecutionType,
           execution' = [execution EXCEPT ![p] = row],
           execution[p].cancel => row.cancel,
           \/ row.status = execution[p].status
           \/ execution[p].status \in Active /\ row.status \notin {"absent", "queued"}
    PROVE  ExecutionForward
<1>1. execution \in [Session -> ExecutionType]
  BY LifecycleFacts
<1>2. execution'[p] = row /\ \A t \in Session \ {p} : execution'[t] = execution[t]
  BY <1>1
<1>3. ASSUME NEW t \in Session
      PROVE  /\ execution[t].status # "absent" =>
                  /\ execution'[t].status # "absent"
                  /\ execution[t].cancel =>
                       execution'[t].cancel \/ execution'[t].status = "deleted"
             /\ execution[t].status \notin {"absent", "queued"} => execution'[t].status # "queued"
             /\ execution[t].status \notin {"absent"} \cup Active =>
                  execution'[t].status \in {execution[t].status, "deleted"}
             /\ execution'[t].status = "running" => execution[t].status \in Active
  <2>1. CASE t = p
    BY <1>2, <2>1 DEF Active
  <2>2. CASE t # p
    BY <1>2, <2>2 DEF Active
  <2> QED BY <2>1, <2>2
<1> QED BY <1>3 DEF ExecutionForward

\* An active row that is claimed or ended.
LEMMA PlanningLeaves ==
    ASSUME TypeOK, NEW s \in Session, NEW st \in PlanningStatus \ {"absent", "queued"},
           planning[s].status \in Active,
           planning' = [planning EXCEPT ![s].status = st]
    PROVE  /\ PlanningForward
           /\ planning'[s].status = st /\ planning'[s].key = planning[s].key
           /\ \A t \in Session \ {s} : planning'[t] = planning[t]
<1> DEFINE row == [planning[s] EXCEPT !.status = st]
<1>1. planning \in [Session -> PlanningType] /\ planning[s] \in PlanningType
  BY LifecycleFacts
<1>2. /\ row \in PlanningType /\ row.status = st /\ row.key = planning[s].key
      /\ row.draft = planning[s].draft /\ row.cancel = planning[s].cancel
  BY <1>1 DEF PlanningType
<1>3. planning' = [planning EXCEPT ![s] = row]
  OBVIOUS
<1> HIDE DEF row
<1>4. PlanningForward
  BY <1>2, <1>3, PlanningMoves
<1> QED BY <1>1, <1>2, <1>3, <1>4

LEMMA ExecutionLeaves ==
    ASSUME TypeOK, NEW p \in Session, NEW st \in ExecutionStatus \ {"absent", "queued"},
           execution[p].status \in Active,
           execution' = [execution EXCEPT ![p].status = st]
    PROVE  /\ ExecutionForward
           /\ execution'[p].status = st
           /\ \A t \in Session \ {p} : execution'[t] = execution[t]
<1> DEFINE row == [execution[p] EXCEPT !.status = st]
<1>1. execution \in [Session -> ExecutionType] /\ execution[p] \in ExecutionType
  BY LifecycleFacts
<1>2. row \in ExecutionType /\ row.status = st /\ row.cancel = execution[p].cancel
  BY <1>1 DEF ExecutionType
<1>3. execution' = [execution EXCEPT ![p] = row]
  OBVIOUS
<1> HIDE DEF row
<1>4. ExecutionForward
  BY <1>2, <1>3, ExecutionMoves
<1> QED BY <1>1, <1>2, <1>3, <1>4

\* Either update of a cancellation.
LEMMA CancelMoves ==
    ASSUME Inv, NEW r \in Requests, NEW step \in {"queued", "flag"}, CancelStep(r, step)
    PROVE  /\ PlanningForward /\ ExecutionForward
           /\ \A s \in Session :
                /\ planning'[s].status \in {planning[s].status, "canceled"}
                /\ planning'[s].status # planning[s].status => planning[s].status = "queued"
                /\ execution'[s].status \in {execution[s].status, "canceled"}
                /\ execution'[s].status # execution[s].status => execution[s].status = "queued"
<1> DEFINE p == request[r].plan
<1>1. /\ planning \in [Session -> PlanningType] /\ execution \in [Session -> ExecutionType]
      /\ TypeOK
  BY LifecycleFacts DEF Inv
<1>2. p \in Session
  <2>1. request[r].kind \in CancelKinds /\ request[r].at \in {"queued", "flag"}
    BY DEF CancelStep, CancelKinds
  <2> QED BY <2>1 DEF Inv, Answered, Cancels
<1>3. CASE /\ planning' = [planning EXCEPT ![p] = Canceled(@, step)]
           /\ UNCHANGED execution
  <2> DEFINE row == Canceled(planning[p], step)
  <2>1. row \in PlanningType
    BY <1>1, <1>2, CancelKeepsType
  <2>2. /\ row.key = planning[p].key /\ row.draft = planning[p].draft
        /\ planning[p].cancel => row.cancel
        /\ \/ row.status = planning[p].status
           \/ planning[p].status = "queued" /\ row.status = "canceled"
    <3>1. planning[p] \in PlanningType
      BY <1>1, <1>2
    <3> QED BY <3>1 DEF Canceled, PlanningType
  <2>3. planning' = [planning EXCEPT ![p] = row]
    BY <1>3
  <2> HIDE DEF row, p
  <2>4. PlanningForward
    BY <1>1, <1>2, <2>1, <2>2, <2>3, PlanningMoves DEF Active
  <2> QED BY <1>1, <1>2, <1>3, <2>2, <2>3, <2>4, RowsStay
<1>4. CASE /\ execution' = [execution EXCEPT ![p] = Canceled(@, step)]
           /\ UNCHANGED planning
  <2> DEFINE row == Canceled(execution[p], step)
  <2>1. row \in ExecutionType
    BY <1>1, <1>2, CancelKeepsType
  <2>2. /\ execution[p].cancel => row.cancel
        /\ \/ row.status = execution[p].status
           \/ execution[p].status = "queued" /\ row.status = "canceled"
    <3>1. execution[p] \in ExecutionType
      BY <1>1, <1>2
    <3> QED BY <3>1 DEF Canceled, ExecutionType
  <2>3. execution' = [execution EXCEPT ![p] = row]
    BY <1>4
  <2> HIDE DEF row, p
  <2>4. ExecutionForward
    BY <1>1, <1>2, <2>1, <2>2, <2>3, ExecutionMoves DEF Active
  <2> QED BY <1>1, <1>2, <1>4, <2>2, <2>3, <2>4, RowsStay
<1> QED BY <1>3, <1>4 DEF CancelStep

\* The plan an execution is created for is current and was never executed.
LEMMA CreatesFresh ==
    ASSUME Inv, NEW r \in Requests, CreateExecutionGuarded(r), execution' # execution
    PROVE  LET p == request[r].plan
           IN  /\ p \in Session /\ p \in plans /\ execution[p].status = "absent"
               /\ planning[p].status = "completed" /\ request[r].draft = planning[p].draft
               /\ Guards(r) /\ request' = [request EXCEPT ![r].at = "wake"]
               /\ execution' = [execution EXCEPT ![p] =
                    [status |-> "queued", key |-> request[r].key, cancel |-> FALSE]]
<1> DEFINE p == request[r].plan
<1>1. /\ Guards(r) /\ ~Collides(r) /\ request[r].kind = "execute" /\ request[r].at = "insert"
      /\ request' = [request EXCEPT ![r].at = "wake"]
      /\ execution' = [execution EXCEPT ![p] =
           [status |-> "queued", key |-> request[r].key, cancel |-> FALSE]]
  BY DEF CreateExecutionGuarded, At, MoveTo
<1>2. p \in Session /\ planning[p].status = "completed" /\ request[r].draft = planning[p].draft
  BY <1>1 DEF Inv, Answered, CarriesPlan, BeforeWake
<1>3. p \in plans
  <2>1. current = p /\ p # 0
    BY <1>1, <1>2 DEF Guards, Session
  <2> QED BY <2>1 DEF Inv, Tables, OnePlan
<1>4. execution[p].status = "absent"
  BY <1>1, <1>2, <1>3 DEF Collides, Inv, Tables, PlansCompleted
<1> QED BY <1>1, <1>2, <1>3, <1>4

\* The draft's history only grows.
LEMMA VersionMoves ==
    ASSUME TypeOK, UNCHANGED history \/ \E d \in Drafts : history' = Append(history, d)
    PROVE  VersionForward
<1>1. history \in Seq(Drafts) /\ Len(history) \in Nat
  BY DEF TypeOK
<1>2. CASE UNCHANGED history
  BY <1>1, <1>2 DEF VersionForward, Version
<1>3. CASE \E d \in Drafts : history' = Append(history, d)
  BY <1>1, <1>3 DEF VersionForward, Version
<1> QED BY <1>2, <1>3

\* Rows only move forward.
LEMMA Forwards ==
    ASSUME Inv, [Next]_vars
    PROVE  PlanningForward /\ ExecutionForward /\ VersionForward
<1> DEFINE Goal == PlanningForward /\ ExecutionForward /\ VersionForward
<1>a. /\ TypeOK /\ Numbered /\ WorkersFit
      /\ planning \in [Session -> PlanningType] /\ execution \in [Session -> ExecutionType]
      /\ Draft \in Drafts
  BY LifecycleFacts DEF Inv, Tables
<1>1. CASE Looks
  BY <1>a, <1>1, RowsStay, VersionMoves DEF Looks
<1>2. ASSUME NEW r \in Requests, CreateGeneration(r) PROVE Goal
  <2>1. UNCHANGED execution /\ UNCHANGED history
    BY <1>2 DEF CreateGeneration, operation
  <2>2. CASE UNCHANGED planning
    BY <1>a, <2>1, <2>2, RowsStay, VersionMoves
  <2>3. CASE /\ Cardinality(Started) < MaxSessions
             /\ planning' = [planning EXCEPT ![Cardinality(Started) + 1] =
                  [status |-> "queued", key |-> request[r].key, cancel |-> FALSE,
                   draft |-> request[r].draft, version |-> request[r].version]]
    <3> DEFINE s == Cardinality(Started) + 1
    <3>1. s \in Session /\ planning[s].status = "absent"
      BY <1>a, <2>3, NextNumber
    <3>2. planning'[s].status = "queued" /\ \A t \in Session \ {s} : planning'[t] = planning[t]
      BY <1>a, <2>3, <3>1
    <3> HIDE DEF s
    <3>3. PlanningForward
      BY <3>1, <3>2 DEF PlanningForward, Planned, Active
    <3> QED BY <1>a, <2>1, <3>3, RowsStay, VersionMoves
  <2> QED BY <2>2, <2>3, <1>2 DEF CreateGeneration
<1>3. ASSUME NEW r \in Requests, SaveOperationDraft(r) PROVE Goal
  <2>1. UNCHANGED planning /\ UNCHANGED execution
    BY <1>3 DEF SaveOperationDraft, sessions
  <2>2. UNCHANGED history \/ \E d \in Drafts : history' = Append(history, d)
    BY <1>3 DEF SaveOperationDraft
  <2> QED BY <1>a, <2>1, <2>2, RowsStay, VersionMoves
<1>4. ASSUME NEW r \in Requests, CreateExecutionGuarded(r) PROVE Goal
  <2>1. UNCHANGED planning /\ UNCHANGED history
    BY <1>4 DEF CreateExecutionGuarded, operation
  <2>2. CASE UNCHANGED execution
    BY <1>a, <2>1, <2>2, RowsStay, VersionMoves
  <2>3. CASE execution' # execution
    <3> DEFINE p == request[r].plan
    <3>1. /\ p \in Session /\ execution[p].status = "absent"
          /\ execution' = [execution EXCEPT ![p] =
               [status |-> "queued", key |-> request[r].key, cancel |-> FALSE]]
      BY <1>4, <2>3, CreatesFresh
    <3>2. /\ execution'[p].status = "queued"
          /\ \A t \in Session \ {p} : execution'[t] = execution[t]
      BY <1>a, <3>1
    <3>3. ExecutionForward
      BY <3>1, <3>2 DEF ExecutionForward, Active
    <3> QED BY <1>a, <2>1, <3>3, RowsStay, VersionMoves
  <2> QED BY <2>2, <2>3
<1>5. ASSUME NEW r \in Requests, NEW step \in {"queued", "flag"}, CancelStep(r, step)
      PROVE  Goal
  <2>1. UNCHANGED history
    BY <1>5 DEF CancelStep, operation
  <2> QED BY <1>a, <1>5, <2>1, CancelMoves, VersionMoves
<1>6. ASSUME NEW w \in Workers, ClaimPlanning(w) PROVE Goal
  <2>1. UNCHANGED execution /\ UNCHANGED history
    BY <1>6 DEF ClaimPlanning, operation
  <2>2. PICK s \in Session : /\ planning[s].status = "queued"
                             /\ planning' = [planning EXCEPT ![s].status = "running"]
    BY <1>6 DEF ClaimPlanning, QueuedPlanning
  <2>3. PlanningForward
    BY <1>a, <2>2, PlanningLeaves DEF Active, PlanningStatus
  <2> QED BY <1>a, <2>1, <2>3, RowsStay, VersionMoves
<1>7. ASSUME NEW w \in Workers, EndPlanning(w) PROVE Goal
  <2>1. UNCHANGED execution /\ UNCHANGED history /\ worker[w].session \in Session
    BY <1>a, <1>7 DEF EndPlanning, operation, WorkersFit, WorkerAt
  <2>2. CASE UNCHANGED planning
    BY <1>a, <2>1, <2>2, RowsStay, VersionMoves
  <2>3. CASE /\ planning[worker[w].session].status \in Active
             /\ \E st \in {"failed", "canceled"} :
                  planning' = [planning EXCEPT ![worker[w].session].status = st]
    <3>1. PlanningForward
      BY <1>a, <2>1, <2>3, PlanningLeaves DEF PlanningStatus
    <3> QED BY <1>a, <2>1, <3>1, RowsStay, VersionMoves
  <2> QED BY <2>2, <2>3, <1>7 DEF EndPlanning
<1>8. ASSUME NEW w \in Workers, PersistRevision(w) PROVE Goal
  <2> DEFINE s == worker[w].session
  <2>1. /\ s \in Session /\ planning[s].status \in Active
        /\ planning' = [planning EXCEPT ![s].status = "completed"]
        /\ history' = Append(history, Draft)
    BY <1>a, <1>8 DEF PersistRevision, WorkersFit, WorkerAt
  <2>2. PlanningForward
    BY <1>a, <2>1, PlanningLeaves DEF PlanningStatus
  <2>3. \A p \in Session :
          execution'[p] = IF p = current /\ execution[p].status # "absent"
                          THEN [NoExecution EXCEPT !.status = "deleted"] ELSE execution[p]
    BY <1>8 DEF PersistRevision, Retire
  <2>4. \A p \in Session : \/ execution'[p] = execution[p]
                           \/ execution[p].status # "absent" /\ execution'[p].status = "deleted"
    BY <2>3 DEF NoExecution
  <2>5. ExecutionForward
    BY <2>4 DEF ExecutionForward, Active
  <2> QED BY <1>a, <2>1, <2>2, <2>5, VersionMoves
<1>9. ASSUME ClaimExecution PROVE Goal
  <2>1. UNCHANGED planning /\ UNCHANGED history
    BY <1>9 DEF ClaimExecution, operation
  <2>2. PICK p \in Session : /\ execution[p].status = "queued"
                             /\ execution' = [execution EXCEPT ![p].status = "running"]
    BY <1>9 DEF ClaimExecution, QueuedExecution
  <2>3. ExecutionForward
    BY <1>a, <2>2, ExecutionLeaves DEF Active, ExecutionStatus
  <2> QED BY <1>a, <2>1, <2>3, RowsStay, VersionMoves
<1>10. ASSUME FinishExecution PROVE Goal
  <2>1. UNCHANGED planning /\ UNCHANGED history /\ runner.session \in Session
    BY <1>a, <1>10 DEF FinishExecution, operation, WorkersFit
  <2>2. CASE UNCHANGED execution
    BY <1>a, <2>1, <2>2, RowsStay, VersionMoves
  <2>3. CASE \E st \in Ends(runner.session) :
               execution' = [execution EXCEPT ![runner.session].status = st]
    <3>1. execution[runner.session].status \in Active
      BY <2>3 DEF Ends
    <3>2. PICK st \in {"succeeded", "failed", "canceled"} :
            execution' = [execution EXCEPT ![runner.session].status = st]
      BY <2>3 DEF Ends
    <3>3. ExecutionForward
      BY <1>a, <2>1, <3>1, <3>2, ExecutionLeaves DEF ExecutionStatus
    <3> QED BY <1>a, <2>1, <3>3, RowsStay, VersionMoves
  <2> QED BY <2>2, <2>3, <1>10 DEF FinishExecution
<1>11. ASSUME Restart PROVE Goal
  <2>1. UNCHANGED history
    BY <1>11 DEF Restart, operation
  <2>2. \A s \in Session :
          /\ planning[s] \in PlanningType
          /\ \/ planning'[s] = planning[s]
             \/ /\ planning[s].status \in Active
                /\ planning'[s] = [planning[s] EXCEPT !.status = "interrupted"]
    BY <1>a, <1>11 DEF Restart, InterruptStale
  <2>3. PlanningForward
    BY <2>2 DEF PlanningForward, Planned, Active, PlanningType
  <2>4. \A s \in Session :
          /\ execution[s] \in ExecutionType
          /\ \/ execution'[s] = execution[s]
             \/ /\ execution[s].status \in Active
                /\ execution'[s] = [execution[s] EXCEPT !.status = "interrupted"]
    BY <1>a, <1>11 DEF Restart, InterruptStale
  <2>5. ExecutionForward
    BY <2>4 DEF ExecutionForward, Active, ExecutionType
  <2> QED BY <1>a, <2>1, <2>3, <2>5, VersionMoves
<1> QED
  BY <1>a, <1>1, <1>2, <1>3, <1>4, <1>5, <1>6, <1>7, <1>8, <1>9, <1>10, <1>11, StepKinds

\* A step that starts no session, claims none and touches no plan.
LEMMA Quiet ==
    ASSUME Inv, PlanningForward, UNCHANGED <<current, plans>>, WorkersRest,
           runner'.at = "work" => runner'.session \in Session,
           \A w \in Workers :
               worker'[w].at = "work" => planning'[worker[w].session].status = "running",
           \A s \in Session :
               /\ planning'[s].status \in KeyHeld => planning[s].status \in KeyHeld
               /\ planning'[s].status # "absent" => planning[s].status # "absent"
               /\ execution'[s].status # "absent" => execution[s].status # "absent"
               /\ execution'[s].status = "deleted" <=> execution[s].status = "deleted"
    PROVE  Tables'
<1>a. Tables
  BY DEF Inv
<1>1. Numbered'
  <2>1. \A s \in Session : Planned(s)' <=> Planned(s)
    BY DEF Planned, PlanningForward
  <2> QED BY <1>a, <2>1 DEF Tables, Numbered
<1>2. PlansCompleted'
  <2>1. \A p \in Session : planning[p].status = "completed" => planning'[p].status = "completed"
    BY DEF PlanningForward, Active
  <2> QED BY <1>a, <2>1 DEF Tables, PlansCompleted
<1>3. KeyHeldOnce'
  <2>1. \A s \in Session :
          planning'[s].status \in KeyHeld =>
             planning[s].status \in KeyHeld /\ planning'[s].key = planning[s].key
    BY DEF PlanningForward, KeyHeld, Planned
  <2> QED BY <1>a, <2>1 DEF Tables, KeyHeldOnce
<1>4. WorkersFit' /\ WorkerHoldsItsRow'
  BY <1>a DEF Tables, WorkersFit, WorkersRest, WorkerHoldsItsRow
<1>5. OnePlan' /\ ExecutionHasPlan'
  BY <1>a DEF Tables, OnePlan, ExecutionHasPlan
<1> QED BY <1>1, <1>2, <1>3, <1>4, <1>5 DEF Tables

\* The tables agree after every step.
LEMMA TablesNext ==
    ASSUME Inv, [Next]_vars
    PROVE  Tables'
<1>a. /\ TypeOK /\ Tables /\ PlanningForward /\ ExecutionForward
      /\ planning \in [Session -> PlanningType] /\ execution \in [Session -> ExecutionType]
      /\ worker \in [Workers -> WorkerType] /\ runner \in WorkerType
  BY LifecycleFacts, Forwards DEF Inv
<1>b. /\ Numbered /\ PlansCompleted /\ KeyHeldOnce /\ WorkersFit /\ OnePlan
      /\ ExecutionHasPlan /\ WorkerHoldsItsRow
  BY <1>a DEF Tables
<1>1. CASE Looks
  BY <1>b, <1>1, <1>a, Quiet DEF Looks, WorkersRest, RunnerRests, WorkersFit, WorkerHoldsItsRow
<1>2. ASSUME NEW r \in Requests, CreateGeneration(r) PROVE Tables'
  <2>1. UNCHANGED <<current, plans, execution, worker, runner>>
    BY <1>2 DEF CreateGeneration, operation, machine
  <2>2. CASE UNCHANGED planning
    BY <1>b, <2>1, <2>2, <1>a, Quiet DEF WorkersRest, WorkersFit, WorkerHoldsItsRow
  <2>3. CASE /\ ~Taken(request[r].key)
             /\ Cardinality(Started) < MaxSessions
             /\ planning' = [planning EXCEPT ![Cardinality(Started) + 1] =
                  [status |-> "queued", key |-> request[r].key, cancel |-> FALSE,
                   draft |-> request[r].draft, version |-> request[r].version]]
    <3> DEFINE s == Cardinality(Started) + 1
    <3>1. /\ s \in Session /\ planning[s].status = "absent"
          /\ \A t \in Session : Planned(t) <=> t < s
      BY <1>b, <2>3, NextNumber
    <3>2. /\ planning'[s].status = "queued" /\ planning'[s].key = request[r].key
          /\ \A t \in Session \ {s} : planning'[t] = planning[t]
      BY <1>a, <2>3, <3>1
    <3> HIDE DEF s
    <3>3. Numbered'
      <4>1. \A t \in Session : Planned(t)' <=> t <= s
        BY <3>1, <3>2 DEF Planned, Session
      <4>2. s \in 0 .. MaxSessions
        BY <3>1, LifecycleAssumption DEF Session
      <4> QED BY <4>1, <4>2 DEF Numbered
    <3>4. PlansCompleted'
      BY <1>b, <2>1, <3>1, <3>2 DEF PlansCompleted
    <3>5. KeyHeldOnce'
      <4>1. \A t \in Session :
              planning[t].status \in KeyHeld /\ planning[t].key = request[r].key
                => request[r].key = NoKey
        BY <2>3 DEF Taken, PlanningRows, Planned, KeyHeld
      <4> QED BY <1>b, <3>1, <3>2, <4>1 DEF KeyHeldOnce
    <3>6. WorkersFit' /\ WorkerHoldsItsRow'
      BY <1>b, <2>1, <3>1, <3>2 DEF WorkersFit, WorkerHoldsItsRow
    <3>7. OnePlan' /\ ExecutionHasPlan'
      BY <1>b, <2>1 DEF OnePlan, ExecutionHasPlan
    <3> QED BY <3>3, <3>4, <3>5, <3>6, <3>7 DEF Tables
  <2> QED BY <2>2, <2>3, <1>2 DEF CreateGeneration
<1>3. ASSUME NEW r \in Requests, SaveOperationDraft(r) PROVE Tables'
  <2>1. UNCHANGED <<current, plans, planning, execution, worker, runner>>
    BY <1>3 DEF SaveOperationDraft, sessions, machine
  <2> QED BY <1>b, <2>1, <1>a, Quiet DEF WorkersRest, WorkersFit, WorkerHoldsItsRow
<1>4. ASSUME NEW r \in Requests, CreateExecutionGuarded(r) PROVE Tables'
  <2>1. UNCHANGED <<current, plans, planning, worker, runner>>
    BY <1>4 DEF CreateExecutionGuarded, operation, machine
  <2>2. CASE UNCHANGED execution
    BY <1>b, <2>1, <2>2, <1>a, Quiet DEF WorkersRest, WorkersFit, WorkerHoldsItsRow
  <2>3. CASE execution' # execution
    <3> DEFINE p == request[r].plan
    <3>1. /\ p \in Session /\ p \in plans /\ planning[p].status = "completed"
          /\ execution' = [execution EXCEPT ![p] =
               [status |-> "queued", key |-> request[r].key, cancel |-> FALSE]]
      BY <1>4, <2>3, CreatesFresh
    <3>2. /\ execution'[p].status = "queued"
          /\ \A t \in Session \ {p} : execution'[t] = execution[t]
      BY <1>a, <3>1
    <3>3. Numbered' /\ KeyHeldOnce' /\ WorkersFit' /\ WorkerHoldsItsRow' /\ OnePlan'
      BY <1>b, <2>1 DEF Numbered, Planned, KeyHeldOnce, WorkersFit, WorkerHoldsItsRow, OnePlan
    <3>4. PlansCompleted' /\ ExecutionHasPlan'
      BY <1>b, <2>1, <3>1, <3>2 DEF PlansCompleted, ExecutionHasPlan
    <3> QED BY <3>3, <3>4 DEF Tables
  <2> QED BY <2>2, <2>3
<1>5. ASSUME NEW r \in Requests, NEW step \in {"queued", "flag"}, CancelStep(r, step)
      PROVE  Tables'
  <2>1. UNCHANGED <<current, plans, worker, runner>>
    BY <1>5 DEF CancelStep, operation, machine
  <2>2. \A s \in Session :
          /\ planning'[s].status \in {planning[s].status, "canceled"}
          /\ planning'[s].status # planning[s].status => planning[s].status = "queued"
          /\ execution'[s].status \in {execution[s].status, "canceled"}
          /\ execution'[s].status # execution[s].status => execution[s].status = "queued"
    BY <1>5, CancelMoves
  <2>3. \A w \in Workers :
          worker'[w].at = "work" => planning'[worker[w].session].status = "running"
    BY <1>b, <2>1, <2>2 DEF WorkersFit, WorkerHoldsItsRow
  <2>4. WorkersRest /\ (runner'.at = "work" => runner'.session \in Session)
    BY <1>b, <2>1 DEF WorkersRest, WorkersFit
  <2> QED BY <2>1, <2>2, <2>3, <2>4, <1>a, Quiet DEF KeyHeld
<1>6. ASSUME NEW w \in Workers, ClaimPlanning(w) PROVE Tables'
  <2>1. UNCHANGED <<current, plans, execution, runner>>
    BY <1>6 DEF ClaimPlanning, operation
  <2>2. PICK s \in Session :
          /\ planning[s].status = "queued"
          /\ planning' = [planning EXCEPT ![s].status = "running"]
          /\ worker' = [worker EXCEPT ![w].at = "work", ![w].session = s]
    BY <1>6 DEF ClaimPlanning, QueuedPlanning
  <2>3. /\ planning'[s].status = "running" /\ planning'[s].key = planning[s].key
        /\ \A t \in Session \ {s} : planning'[t] = planning[t]
    BY <1>a, <2>2, PlanningLeaves DEF Active, PlanningStatus
  <2>4. /\ worker'[w].at = "work" /\ worker'[w].session = s
        /\ \A v \in Workers \ {w} : worker'[v] = worker[v]
    BY <1>a, <2>2 DEF WorkerType
  <2>5. Numbered'
    <3>1. \A t \in Session : Planned(t)' <=> Planned(t)
      BY <2>2, <2>3 DEF Planned
    <3> QED BY <1>b, <3>1 DEF Numbered
  <2>6. PlansCompleted' /\ KeyHeldOnce'
    BY <1>b, <2>1, <2>2, <2>3 DEF PlansCompleted, KeyHeldOnce, KeyHeld
  <2>7. WorkersFit'
    BY <1>b, <2>1, <2>4 DEF WorkersFit
  <2>8. \A v \in Workers \ {w} : worker[v].at = "work" =>
          planning[worker[v].session].status = "running" /\ worker[v].session # s
    BY <1>b, <2>2 DEF WorkerHoldsItsRow
  <2>9. WorkerHoldsItsRow'
    <3>1. ASSUME NEW v \in Workers, worker'[v].at = "work"
          PROVE  /\ planning'[worker'[v].session].status = "running"
                 /\ \A x \in Workers \ {v} :
                      worker'[x].at = "work" => worker'[x].session # worker'[v].session
      <4>1. CASE v = w
        BY <2>3, <2>4, <2>8, <4>1
      <4>2. CASE v # w
        <5>1. /\ worker[v].at = "work" /\ worker[v].session \in Session
              /\ worker'[v] = worker[v]
          BY <1>b, <2>4, <3>1, <4>2 DEF WorkersFit
        <5>2. planning'[worker'[v].session].status = "running"
          BY <2>3, <2>8, <4>2, <5>1
        <5>3. ASSUME NEW x \in Workers \ {v}, worker'[x].at = "work"
              PROVE  worker'[x].session # worker'[v].session
          <6>1. CASE x = w
            BY <2>4, <2>8, <4>2, <5>1, <6>1
          <6>2. CASE x # w
            BY <1>b, <2>4, <5>1, <5>3, <6>2 DEF WorkerHoldsItsRow
          <6> QED BY <6>1, <6>2
        <5> QED BY <5>2, <5>3
      <4> QED BY <4>1, <4>2
    <3> QED BY <3>1 DEF WorkerHoldsItsRow
  <2>10. OnePlan' /\ ExecutionHasPlan'
    BY <1>b, <2>1 DEF OnePlan, ExecutionHasPlan
  <2> QED BY <2>5, <2>6, <2>7, <2>9, <2>10 DEF Tables
<1>7. ASSUME NEW w \in Workers, EndPlanning(w) PROVE Tables'
  <2> DEFINE s == worker[w].session
  <2>1. /\ UNCHANGED <<current, plans, execution, runner>>
        /\ worker[w].at = "work" /\ s \in Session /\ worker' = [worker EXCEPT ![w] = Idle("top")]
    BY <1>b, <1>7 DEF EndPlanning, operation, WorkersFit, WorkerAt, WorkerTo
  <2>2. /\ worker'[w].at = "top" /\ \A v \in Workers \ {w} : worker'[v] = worker[v]
    BY <1>a, <2>1 DEF Idle
  <2>3. /\ planning[s].status = "running"
        /\ planning'[s].status \in {planning[s].status, "failed", "canceled"}
        /\ \A t \in Session \ {s} : planning'[t] = planning[t]
    <3>1. CASE UNCHANGED planning
      BY <1>b, <2>1, <3>1 DEF WorkerHoldsItsRow
    <3>2. CASE /\ planning[s].status \in Active
               /\ \E st \in {"failed", "canceled"} :
                    planning' = [planning EXCEPT ![s].status = st]
      BY <1>a, <1>b, <2>1, <3>2, PlanningLeaves DEF PlanningStatus, WorkerHoldsItsRow
    <3> QED BY <3>1, <3>2, <1>7 DEF EndPlanning
  <2>4. \A v \in Workers :
          worker'[v].at = "work" => planning'[worker[v].session].status = "running"
    BY <1>b, <2>1, <2>2, <2>3 DEF WorkersFit, WorkerHoldsItsRow
  <2>5. WorkersRest /\ (runner'.at = "work" => runner'.session \in Session)
    BY <1>b, <2>1, <2>2 DEF WorkersRest, WorkersFit
  <2>6. \A t \in Session :
          /\ planning'[t].status \in KeyHeld => planning[t].status \in KeyHeld
          /\ planning'[t].status # "absent" => planning[t].status # "absent"
    BY <2>3 DEF KeyHeld
  <2> QED BY <2>1, <2>4, <2>5, <2>6, <1>a, Quiet
<1>8. ASSUME NEW w \in Workers, PersistRevision(w) PROVE Tables'
  <2> DEFINE s == worker[w].session
  <2>1. /\ worker[w].at = "work" /\ s \in Session /\ planning[s].status \in Active
        /\ planning' = [planning EXCEPT ![s].status = "completed"]
        /\ plans' = (plans \ {current}) \cup {s} /\ current' = s
        /\ UNCHANGED runner /\ worker' = [worker EXCEPT ![w] = Idle("top")]
    BY <1>b, <1>8 DEF PersistRevision, WorkersFit, WorkerAt, WorkerTo, Promoted
  <2>2. /\ worker'[w].at = "top" /\ \A v \in Workers \ {w} : worker'[v] = worker[v]
    BY <1>a, <2>1 DEF Idle
  <2>3. /\ planning'[s].status = "completed" /\ planning'[s].key = planning[s].key
        /\ \A t \in Session \ {s} : planning'[t] = planning[t]
    BY <1>a, <2>1, PlanningLeaves DEF PlanningStatus
  <2>4. \A p \in Session :
          \/ execution'[p] = execution[p] /\ (p = current => execution[p].status = "absent")
          \/ /\ p = current /\ execution[p].status # "absent"
             /\ execution'[p].status = "deleted"
    <3>1. \A p \in Session :
            execution'[p] = IF p = current /\ execution[p].status # "absent"
                            THEN [NoExecution EXCEPT !.status = "deleted"] ELSE execution[p]
      BY <1>8 DEF PersistRevision, Retire
    <3> QED BY <3>1 DEF NoExecution
  <2>5. s # 0 /\ s \notin plans /\ execution[s].status = "absent" /\ s # current
    BY <1>a, <1>b, <2>1 DEF PlansCompleted, OnePlan, Active, Session
  <2>6. plans' = {s}
    BY <1>b, <2>1 DEF OnePlan
  <2>7. Numbered'
    <3>1. \A t \in Session : Planned(t)' <=> Planned(t)
      BY <2>1, <2>3 DEF Planned, Active
    <3> QED BY <1>b, <3>1 DEF Numbered
  <2>8. PlansCompleted'
    BY <1>b, <2>3, <2>4, <2>5, <2>6 DEF PlansCompleted
  <2>9. KeyHeldOnce'
    BY <1>b, <2>1, <2>3 DEF KeyHeldOnce, KeyHeld, Active
  <2>10. WorkersFit' /\ WorkerHoldsItsRow'
    BY <1>b, <2>1, <2>2, <2>3 DEF WorkersFit, WorkerHoldsItsRow
  <2>11. OnePlan'
    BY <2>1, <2>5, <2>6 DEF OnePlan
  <2>12. ExecutionHasPlan'
    BY <1>b, <2>4, <2>5, <2>6 DEF ExecutionHasPlan, OnePlan
  <2> QED BY <2>7, <2>8, <2>9, <2>10, <2>11, <2>12 DEF Tables
<1>9. ASSUME ClaimExecution PROVE Tables'
  <2>1. UNCHANGED <<current, plans, planning, worker>>
    BY <1>9 DEF ClaimExecution, operation
  <2>2. PICK p \in Session :
          /\ execution[p].status = "queued"
          /\ execution' = [execution EXCEPT ![p].status = "running"]
          /\ runner' = [runner EXCEPT !.at = "work", !.session = p]
    BY <1>9 DEF ClaimExecution, QueuedExecution
  <2>3. /\ execution'[p].status = "running"
        /\ \A t \in Session \ {p} : execution'[t] = execution[t]
    BY <1>a, <2>2, ExecutionLeaves DEF Active, ExecutionStatus
  <2>4. runner'.session = p
    BY <1>a, <2>2 DEF WorkerType
  <2>5. /\ WorkersRest
        /\ \A w \in Workers :
             worker'[w].at = "work" => planning'[worker[w].session].status = "running"
    BY <1>b, <2>1 DEF WorkersRest, WorkerHoldsItsRow
  <2> QED BY <2>1, <2>2, <2>3, <2>4, <2>5, <1>a, Quiet
<1>10. ASSUME FinishExecution PROVE Tables'
  <2> DEFINE p == runner.session
  <2>1. /\ UNCHANGED <<current, plans, planning, worker>> /\ p \in Session
        /\ runner' = Idle("claim")
    BY <1>b, <1>10 DEF FinishExecution, operation, WorkersFit, RunnerTo
  <2>2. /\ \/ execution'[p] = execution[p]
           \/ /\ execution[p].status \in Active
              /\ execution'[p].status \in {"succeeded", "failed", "canceled"}
        /\ \A t \in Session \ {p} : execution'[t] = execution[t]
    <3>1. CASE UNCHANGED execution
      BY <3>1
    <3>2. CASE \E st \in Ends(p) : execution' = [execution EXCEPT ![p].status = st]
      <4>1. execution[p].status \in Active
        BY <3>2 DEF Ends
      <4>2. PICK st \in {"succeeded", "failed", "canceled"} :
              execution' = [execution EXCEPT ![p].status = st]
        BY <3>2 DEF Ends
      <4> QED BY <1>a, <2>1, <4>1, <4>2, ExecutionLeaves DEF ExecutionStatus
    <3> QED BY <3>1, <3>2, <1>10 DEF FinishExecution
  <2>3. /\ WorkersRest /\ runner'.at # "work"
        /\ \A w \in Workers :
             worker'[w].at = "work" => planning'[worker[w].session].status = "running"
    BY <1>b, <2>1 DEF WorkersRest, WorkerHoldsItsRow, Idle
  <2> QED BY <2>1, <2>2, <2>3, <1>a, Quiet DEF Active
<1>11. ASSUME Restart PROVE Tables'
  <2>1. UNCHANGED <<current, plans>>
    BY <1>11 DEF Restart, operation
  <2>2. \A s \in Session :
          \/ planning'[s] = planning[s]
          \/ planning[s].status \in Active /\ planning'[s].status = "interrupted"
    BY <1>a, <1>11 DEF Restart, InterruptStale, PlanningType
  <2>3. \A s \in Session :
          \/ execution'[s] = execution[s]
          \/ execution[s].status \in Active /\ execution'[s].status = "interrupted"
    BY <1>a, <1>11 DEF Restart, InterruptStale, ExecutionType
  <2>4. (\A w \in Workers : worker'[w].at # "work") /\ runner'.at # "work" /\ WorkersRest
    BY <1>11 DEF Restart, Idle, WorkersRest
  <2>5. \A s \in Session :
          /\ planning'[s].status \in KeyHeld => planning[s].status \in KeyHeld
          /\ planning'[s].status # "absent" => planning[s].status # "absent"
          /\ execution'[s].status # "absent" => execution[s].status # "absent"
          /\ execution'[s].status = "deleted" <=> execution[s].status = "deleted"
    BY <2>2, <2>3 DEF KeyHeld, Active
  <2> QED BY <2>1, <2>4, <2>5, <1>a, Quiet
<1> QED
  BY <1>a, <1>1, <1>2, <1>3, <1>4, <1>5, <1>6, <1>7, <1>8, <1>9, <1>10, <1>11, StepKinds

\* What a request was answered stays true while others act.
LEMMA Bystander ==
    ASSUME Inv, [Next]_vars, NEW r \in Requests, request'[r] = request[r]
    PROVE  Answered(r)'
<1>a. /\ PlanningForward /\ ExecutionForward /\ VersionForward
      /\ Answered(r) /\ request[r] \in RequestType /\ Version \in Nat
  BY Forwards, LifecycleFacts DEF Inv
<1>1. Open(r)' /\ SavedBefore(r)'
  <2>1. request[r].version \in Nat
    BY <1>a DEF RequestType
  <2> QED BY <1>a, <2>1 DEF Answered, Open, SavedBefore, VersionForward
<1>2. SharesKey(r)'
  BY <1>a DEF Answered, SharesKey, PlanningForward, Planned
<1>3. CarriesPlan(r)'
  BY <1>a DEF Answered, CarriesPlan, PlanningForward, Planned, Active
<1>4. Cancels(r)'
  <2> DEFINE row == CancelTable(r)[request[r].plan]
             next == CancelTable(r)'[request[r].plan]
  <2>1. ASSUME request[r].plan \in Session, row.status # "absent"
        PROVE  /\ next.status # "absent"
               /\ row.status # "queued" => next.status # "queued"
               /\ next.status = "running" /\ row.status # "queued" =>
                    row.status = "running" /\ (row.cancel => next.cancel)
    BY <1>a, <2>1 DEF CancelTable, PlanningForward, ExecutionForward, Planned, Active
  <2> QED BY <1>a, <2>1 DEF Answered, Cancels
<1> QED BY <1>1, <1>2, <1>3, <1>4 DEF Answered

\* The answers hold after every step.
LEMMA AnsweredNext ==
    ASSUME Inv, [Next]_vars
    PROVE  (\A r \in Requests : Answered(r))' /\ SavesNeverOverwrite'
<1>a. /\ \A r \in Requests : request[r] \in RequestType /\ Answered(r)
      /\ SavesNeverOverwrite /\ Version \in Nat
  BY LifecycleFacts DEF Inv
<1>1. ASSUME NEW r \in Requests, RequestStep(r)
      PROVE  (\A q \in Requests : Answered(q))' /\ SavesNeverOverwrite'
  <2>1. Others(r) /\ SavesOver(r) /\ Answered(r)'
    BY <1>1, Acting
  <2>2. \A q \in Requests \ {r} : Answered(q)'
    BY <2>1, Bystander DEF Others
  <2>3. \A q \in Requests \ {r} :
          request'[q].reply = "saved" => request'[q].version < Version
    BY <1>a, <2>1 DEF Others, Answered, SavedBefore
  <2>4. SavesNeverOverwrite'
    <3>1. ASSUME NEW x \in Requests, NEW y \in Requests, x # y,
                 request'[x].reply = "saved", request'[y].reply = "saved"
          PROVE  request'[x].version # request'[y].version
      <4>1. CASE x # r /\ y # r
        BY <1>a, <2>1, <3>1, <4>1 DEF Others, SavesNeverOverwrite
      <4>2. CASE x = r
        <5>1. request'[x].version = Version /\ request'[y].version < Version
          BY <2>1, <2>3, <3>1, <4>2 DEF SavesOver
        <5> QED BY <1>a, <5>1
      <4>3. CASE y = r
        <5>1. request'[y].version = Version /\ request'[x].version < Version
          BY <2>1, <2>3, <3>1, <4>3 DEF SavesOver
        <5> QED BY <1>a, <5>1
      <4> QED BY <4>1, <4>2, <4>3
    <3> QED BY <3>1 DEF SavesNeverOverwrite
  <2> QED BY <2>1, <2>2, <2>4
<1>2. CASE UNCHANGED request
  BY <1>a, <1>2, Bystander DEF SavesNeverOverwrite
<1>3. CASE Crash
  <2>1. \A r \in Requests :
          \/ request'[r] = request[r]
          \/ request'[r].at = "done" /\ request'[r].reply = "lost"
    BY <1>a, <1>3 DEF Crash, RequestType
  <2>2. ASSUME NEW r \in Requests PROVE Answered(r)'
    <3>1. CASE request'[r] = request[r]
      BY <3>1, Bystander
    <3>2. CASE request'[r].at = "done" /\ request'[r].reply = "lost"
      BY <3>2, Dull DEF BeforeWake
    <3> QED BY <2>1, <3>1, <3>2
  <2>3. SavesNeverOverwrite'
    BY <1>a, <2>1 DEF SavesNeverOverwrite
  <2> QED BY <2>2, <2>3
<1>4. ASSUME NEW w \in Workers, WorkerStep(w) \/ ObserveCancel(w) PROVE UNCHANGED request
  BY <1>4 DEF WorkerStep, Drain, ClaimPlanning, NothingQueued, ClaimFails, RetryClaim, Woken,
     EndPlanning, PersistRevision, ObserveCancel
<1>5. RunnerStep \/ Restart \/ UNCHANGED vars => UNCHANGED request
  BY DEF RunnerStep, ClaimExecution, RunnerIdles, RunnerResumes, FinishExecution, Restart, vars
<1> QED BY <1>1, <1>2, <1>3, <1>4, <1>5 DEF Next

-----------------------------------------------------------------------------
LEMMA InvInit == Init => Inv
<1> SUFFICES ASSUME Init PROVE Inv
  OBVIOUS
<1>1. TypeOK
  BY TypeInit
<1>2. /\ current = 0 /\ plans = {} /\ planning = [s \in Session |-> NoSession]
      /\ execution = [s \in Session |-> NoExecution]
      /\ worker = [w \in Workers |-> Idle("top")] /\ runner = Idle("claim")
  BY DEF Init
<1>3. \A s \in Session : planning[s].status = "absent" /\ execution[s].status = "absent"
  BY <1>2 DEF NoSession, NoExecution
<1>4. Numbered
  <2>1. 0 \in 0 .. MaxSessions /\ \A s \in Session : ~(s <= 0)
    BY LifecycleAssumption DEF Session
  <2> QED BY <1>3, <2>1 DEF Numbered, Planned
<1>5. PlansCompleted /\ KeyHeldOnce /\ OnePlan /\ ExecutionHasPlan
  BY <1>2, <1>3 DEF PlansCompleted, KeyHeldOnce, KeyHeld, OnePlan, ExecutionHasPlan
<1>6. WorkersFit /\ WorkerHoldsItsRow
  BY <1>2 DEF WorkersFit, WorkerHoldsItsRow, Idle
<1>7. \A r \in Requests : request[r].at = "new" /\ request[r].reply = "none"
  BY DEF Init, Fresh
<1>8. ASSUME NEW r \in Requests PROVE Answered(r)
  <2>1. Open(r) /\ SavedBefore(r) /\ SharesKey(r) /\ CarriesPlan(r)
    BY <1>7 DEF Open, SavedBefore, SharesKey, CarriesPlan, BeforeWake
  <2>2. Cancels(r)
    BY <1>7 DEF Cancels
  <2> QED BY <2>1, <2>2 DEF Answered
<1>9. SavesNeverOverwrite
  BY <1>7 DEF SavesNeverOverwrite
<1> QED BY <1>1, <1>4, <1>5, <1>6, <1>8, <1>9 DEF Inv, Tables

\* The invariant of the lifecycle.
THEOREM LifecycleInvariant == Spec => []Inv
<1>1. Inv /\ [Next]_vars => Inv'
  <2> SUFFICES ASSUME Inv, [Next]_vars PROVE Inv'
    OBVIOUS
  <2>1. TypeOK'
    BY TypeNext DEF Inv
  <2>2. Tables'
    BY TablesNext
  <2>3. (\A r \in Requests : Answered(r))' /\ SavesNeverOverwrite'
    BY AnsweredNext
  <2> QED BY <2>1, <2>2, <2>3 DEF Inv
<1> QED BY <1>1, InvInit, PTL DEF Spec

\* Every variable keeps its shape, however the sessions, requests and deaths
\* interleave.
THEOREM LifecycleTypeCorrect == Spec => []TypeOK
<1>1. Inv => TypeOK
  BY DEF Inv
<1> QED BY <1>1, LifecycleInvariant, PTL

\* One plan, no execution without its plan and one worker to a running row, for
\* any number of sessions and workers (PersistOperationRevision,
\* NextQueuedGeneration).
THEOREM TablesAlwaysAgree == Spec => []TablesAgree
<1>1. Inv => TablesAgree
  BY DEF Inv, Tables, TablesAgree
<1> QED BY <1>1, LifecycleInvariant, PTL

\* What clients were answered stays true: no save overwrote another, no retry
\* planned twice, no cancel was lost (SaveDraft, StartGeneration,
\* CancelGeneration, CancelExecution).
THEOREM AnswersAlwaysHold == Spec => []AnswersHold
<1>1. Inv => AnswersHold
  <2> SUFFICES ASSUME Inv PROVE AnswersHold
    OBVIOUS
  <2>a. (\A r \in Requests : Answered(r)) /\ KeyHeldOnce /\ SavesNeverOverwrite
    BY DEF Inv, Tables
  <2>1. CancelNotLost
    <3>1. ASSUME NEW r \in Requests, request[r].reply = "canceled"
          PROVE  LET row == CancelTable(r)[request[r].plan]
                 IN  row.status # "queued" /\ (row.status = "running" => row.cancel)
      <4>1. request[r].at \notin {"queued", "flag"}
        BY <2>a, <3>1 DEF Answered, Open
      <4> QED BY <2>a, <3>1, <4>1 DEF Answered, Cancels
    <3> QED BY <3>1 DEF CancelNotLost
  <2>2. RetryNeverPlansTwice
    <3>1. ASSUME NEW r \in Requests, NEW q \in Requests,
                 request[r].kind = "generate", request[q].kind = "generate",
                 request[r].key = request[q].key, request[r].key # NoKey,
                 request[r].reply = "session", request[q].reply = "session",
                 request[r].plan # request[q].plan
          PROVE  \E x \in {r, q} : planning[request[x].plan].status \notin KeyHeld
      <4>1. /\ request[r].plan \in Session /\ request[q].plan \in Session
            /\ planning[request[r].plan].key = request[r].key
            /\ planning[request[q].plan].key = request[q].key
        BY <2>a, <3>1 DEF Answered, SharesKey
      <4> QED BY <2>a, <3>1, <4>1 DEF KeyHeldOnce
    <3> QED BY <3>1 DEF RetryNeverPlansTwice
  <2> QED BY <2>a, <2>1, <2>2 DEF AnswersHold
<1> QED BY <1>1, LifecycleInvariant, PTL

\* A session runs once and ends once (StartExecution, FinishExecution).
THEOREM SessionsAlwaysEndOnce == Spec => SessionsEndOnce
<1>1. Inv /\ [Next]_vars =>
        /\ [\A p \in Session :
              execution'[p].status = "queued" => execution[p].status \in {"absent", "queued"}]_vars
        /\ [\A s \in Session :
              /\ planning[s].status \notin {"absent"} \cup Active =>
                   planning'[s].status = planning[s].status
              /\ execution[s].status \notin {"absent"} \cup Active =>
                   execution'[s].status \in {execution[s].status, "deleted"}]_vars
  <2> SUFFICES ASSUME Inv, [Next]_vars
               PROVE  /\ \A p \in Session : execution'[p].status = "queued" =>
                            execution[p].status \in {"absent", "queued"}
                      /\ \A s \in Session :
                           /\ planning[s].status \notin {"absent"} \cup Active =>
                                planning'[s].status = planning[s].status
                           /\ execution[s].status \notin {"absent"} \cup Active =>
                                execution'[s].status \in {execution[s].status, "deleted"}
    OBVIOUS
  <2>1. PlanningForward /\ ExecutionForward
    BY Forwards
  <2> QED BY <2>1 DEF PlanningForward, ExecutionForward
<1> QED BY <1>1, LifecycleInvariant, PTL DEF SessionsEndOnce, ExecutedOnce, TerminalStays, Spec

\* A plan enters the execution queue by the guarded insert alone, which finds
\* every fact its request validated unchanged (CreateExecutionGuarded).
THEOREM AlwaysCreatedAsValidated == Spec => CreatedAsValidated
<1>1. ASSUME Inv, [Next]_vars, NEW p \in Session,
             execution'[p].status = "queued", execution[p].status # "queued"
      PROVE  /\ current = p
             /\ Draft = planning[p].draft
             /\ ActivePlanning = {}
             /\ \E r \in Requests : request[r].plan = p /\ request[r].version = Version
  <2> DEFINE Goal == /\ current = p
                     /\ Draft = planning[p].draft
                     /\ ActivePlanning = {}
                     /\ \E r \in Requests : request[r].plan = p /\ request[r].version = Version
  <2>a. /\ TypeOK /\ WorkersFit
        /\ execution \in [Session -> ExecutionType] /\ execution' # execution
    BY <1>1, LifecycleFacts DEF Inv, Tables
  <2>1. ASSUME NEW r \in Requests, CreateExecutionGuarded(r) PROVE Goal
    <3> DEFINE q == request[r].plan
    <3>1. /\ q \in Session /\ request[r].draft = planning[q].draft /\ Guards(r)
          /\ execution' = [execution EXCEPT ![q] =
               [status |-> "queued", key |-> request[r].key, cancel |-> FALSE]]
      BY <1>1, <2>a, <2>1, CreatesFresh
    <3>2. q = p
      BY <1>1, <2>a, <3>1
    <3> QED BY <3>1, <3>2 DEF Guards
  <2>2. ~Looks
    BY <2>a DEF Looks
  <2>3. ASSUME NEW r \in Requests PROVE ~CreateGeneration(r) /\ ~SaveOperationDraft(r)
    BY <2>a DEF CreateGeneration, SaveOperationDraft, sessions
  <2>4. ASSUME NEW r \in Requests, NEW step \in {"queued", "flag"} PROVE ~CancelStep(r, step)
    BY <1>1, CancelMoves
  <2>5. ASSUME NEW w \in Workers PROVE ~ClaimPlanning(w) /\ ~EndPlanning(w)
    BY <2>a DEF ClaimPlanning, EndPlanning
  <2>6. ASSUME NEW w \in Workers PROVE ~PersistRevision(w)
    <3>1. SUFFICES ASSUME PersistRevision(w) PROVE FALSE
      OBVIOUS
    <3>2. execution'[p] = IF p = current /\ execution[p].status # "absent"
                          THEN [NoExecution EXCEPT !.status = "deleted"] ELSE execution[p]
      BY <3>1 DEF PersistRevision, Retire
    <3> QED BY <1>1, <3>2 DEF NoExecution
  <2>7. ~ClaimExecution
    <3>1. SUFFICES ASSUME ClaimExecution PROVE FALSE
      OBVIOUS
    <3>2. PICK s \in Session : /\ execution[s].status = "queued"
                               /\ execution' = [execution EXCEPT ![s].status = "running"]
      BY <3>1 DEF ClaimExecution, QueuedExecution
    <3> QED BY <1>1, <2>a, <3>2
  <2>8. ~FinishExecution
    <3>1. SUFFICES ASSUME FinishExecution PROVE FALSE
      OBVIOUS
    <3>2. runner.session \in Session
      BY <2>a, <3>1 DEF FinishExecution, WorkersFit
    <3>3. PICK st \in {"succeeded", "failed", "canceled"} :
            /\ execution[runner.session].status \in Active
            /\ execution' = [execution EXCEPT ![runner.session].status = st]
      BY <2>a, <3>1 DEF FinishExecution, Ends
    <3>4. /\ execution'[runner.session].status = st
          /\ \A t \in Session \ {runner.session} : execution'[t] = execution[t]
      BY <2>a, <3>2, <3>3, ExecutionLeaves DEF ExecutionStatus
    <3> QED BY <1>1, <3>3, <3>4
  <2>9. ~Restart
    <3>1. SUFFICES ASSUME Restart PROVE FALSE
      OBVIOUS
    <3>2. execution'[p] = execution[p] \/ execution'[p].status = "interrupted"
      BY <2>a, <3>1 DEF Restart, InterruptStale, ExecutionType
    <3> QED BY <1>1, <3>2
  <2> QED
    BY <1>1, <2>a, <2>1, <2>2, <2>3, <2>4, <2>5, <2>6, <2>7, <2>8, <2>9, StepKinds
<1>2. Inv /\ [Next]_vars =>
        [\A p \in Session :
           execution'[p].status = "queued" /\ execution[p].status # "queued" =>
              /\ current = p
              /\ Draft = planning[p].draft
              /\ ActivePlanning = {}
              /\ \E r \in Requests : request[r].plan = p /\ request[r].version = Version]_vars
  BY <1>1
<1> QED BY <1>2, LifecycleInvariant, PTL DEF CreatedAsValidated, Spec

\* Both together: sessions are created as validated, run once and stay as they ended.
THEOREM SessionsAlwaysKeepOrder == Spec => SessionsKeepOrder
<1> QED BY SessionsAlwaysEndOnce, AlwaysCreatedAsValidated DEF SessionsKeepOrder
=============================================================================
