----------------------- MODULE ExecutionSession_proofs ------------------------
(***************************************************************************)
(* Proofs about ExecutionSession for every worklist, every number of       *)
(* tasks and every window: its types, that it commits what is encoded,     *)
(* that its rows agree with the disk, that it implements SequentialSession *)
(* and who owns its staged files and its failures.  Each part rests on the *)
(* ones before.                                                            *)
(***************************************************************************)
EXTENDS ExecutionSession, FiniteSetTheorems, TLAPS

-----------------------------------------------------------------------------
(* The shape of the window.                                                *)

LoopPcs == {"top", "fill", "deliver", "count", "wait", "woken", "admit", "commit"}
BoundaryPcs == {"sync", "record", "settle"}

\* In the loop the open units are the consecutive units from the cursor to the
\* next one to prepare; the unit being delivered is open and not yet counted.
InLoop ==
    pc \in LoopPcs =>
        /\ cursor <= NumUnits
        /\ \A i \in 1 .. Len(open) : open[i] + 1 = cursor + i
        /\ IF pc \in {"deliver", "count"}
           THEN /\ next + 1 = cursor + Len(open)
                /\ next <= NumUnits
           ELSE /\ next = cursor + Len(open)
                /\ next <= NumUnits + 1
        /\ pc = "count" => deliver <= Tasks[next]
        /\ pc \in {"wait", "woken", "admit", "commit"} => open # <<>>

\* Between Commit and the next iteration the head has left the window.
AtBoundary ==
    pc \in BoundaryPcs =>
        /\ cursor <= NumUnits
        /\ result.unit = cursor
        /\ \A i \in 1 .. Len(open) : open[i] = cursor + i
        /\ next = cursor + 1 + Len(open)
        /\ next <= NumUnits + 1

Outside ==
    /\ pc \in {"queued", "verify"} => cursor = 1 /\ next = 1 /\ open = <<>>
    /\ pc = "report" => observed.unit \in Unit

Shape == TypeOK /\ InLoop /\ AtBoundary /\ Outside

-----------------------------------------------------------------------------
LEMMA TaskFacts ==
    /\ \A t \in Task : t[1] \in Unit /\ t[2] \in 1 .. Tasks[t[1]] /\ t = <<t[1], t[2]>>
    /\ \A u \in Unit, i \in Nat \ {0} : i <= Tasks[u] => <<u, i>> \in Task
<1>1. \A t \in Task : \E u \in Unit : \E i \in 1 .. Tasks[u] : t = <<u, i>>
  BY DEF Task
<1>2. \A u \in Unit, i \in Nat \ {0} : i <= Tasks[u] => <<u, i>> \in Task
  BY SessionAssumption DEF Task
<1> QED BY <1>1, <1>2

\* Removing the head of a non-empty sequence.
LEMMA TailFacts ==
    ASSUME NEW S, NEW s \in Seq(S), s # <<>>
    PROVE  /\ Head(s) \in S /\ Head(s) = s[1]
           /\ Tail(s) \in Seq(S)
           /\ Len(s) \in Nat \ {0} /\ Len(s) = Len(Tail(s)) + 1
           /\ \A i \in 1 .. Len(Tail(s)) : Tail(s)[i] = s[i + 1]
  OBVIOUS

LEMMA AppendFacts ==
    ASSUME NEW S, NEW s \in Seq(S), NEW e \in S
    PROVE  /\ Append(s, e) \in Seq(S)
           /\ Len(Append(s, e)) = Len(s) + 1
           /\ Append(s, e) # <<>>
           /\ \A i \in 1 .. Len(s) : Append(s, e)[i] = s[i]
           /\ Append(s, e)[Len(s) + 1] = e
  OBVIOUS

\* The records the actions build have the types of the variables they go to.
LEMMA Kinds ==
    /\ NoStop \in StopType /\ CancelStop \in StopType
    /\ NoStop.unit = 0 /\ NoStop.at = "none"
    /\ CancelStop.unit = 0 /\ CancelStop.at = "cancel"
    /\ \A u \in Unit, at \in {"prepare", "encode", "commit"} :
          /\ Stop(u, at) \in StopType
          /\ Stop(u, at).unit = u /\ Stop(u, at).at = at
    /\ \A s \in StopType : s.unit \in Unit \cup {0}
    /\ NoRow \in RowType
    /\ \A st \in {"pending", "succeeded", "failed", "canceled"}, b \in BOOLEAN :
          Row(st, b) \in RowType /\ Row(st, b).status = st
    /\ NoResult \in [unit : Unit \cup {0}, row : RowType]
    /\ Verdict("queued", "none", 0) \in VerdictType
    /\ Verdict("running", "none", 0) \in VerdictType
    /\ Verdict("succeeded", "none", 0) \in VerdictType
    /\ Verdict("failed", "inputs", 0) \in VerdictType
    /\ Verdict("canceled", "canceled", 0) \in VerdictType
    /\ Verdict("interrupted", "interrupted", 0) \in VerdictType
    /\ \A u \in Unit : Verdict("failed", "persist", u) \in VerdictType
    /\ \A u \in Unit : Verdict("failed", "unit", u) \in VerdictType
<1>2. /\ NoStop \in StopType /\ CancelStop \in StopType
      /\ NoStop.unit = 0 /\ NoStop.at = "none"
      /\ CancelStop.unit = 0 /\ CancelStop.at = "cancel"
  BY DEF NoStop, CancelStop, Stop, StopType
<1>3. \A u \in Unit, at \in {"prepare", "encode", "commit"} :
          /\ Stop(u, at) \in StopType
          /\ Stop(u, at).unit = u /\ Stop(u, at).at = at
  BY DEF Stop, StopType
<1>4. \A s \in StopType : s.unit \in Unit \cup {0}
  BY <1>2 DEF StopType
<1>5. /\ NoRow \in RowType
      /\ \A st \in {"pending", "succeeded", "failed", "canceled"}, b \in BOOLEAN :
            Row(st, b) \in RowType /\ Row(st, b).status = st
  BY DEF NoRow, Row, RowType
<1>6. NoResult \in [unit : Unit \cup {0}, row : RowType]
  BY <1>5 DEF NoResult
<1>7. /\ Verdict("queued", "none", 0) \in VerdictType
      /\ Verdict("running", "none", 0) \in VerdictType
      /\ Verdict("succeeded", "none", 0) \in VerdictType
      /\ Verdict("failed", "inputs", 0) \in VerdictType
      /\ Verdict("canceled", "canceled", 0) \in VerdictType
      /\ Verdict("interrupted", "interrupted", 0) \in VerdictType
  BY DEF Verdict, VerdictType
<1>8. \A u \in Unit : /\ Verdict("failed", "persist", u) \in VerdictType
                      /\ Verdict("failed", "unit", u) \in VerdictType
  BY DEF Verdict, VerdictType
<1> QED BY <1>2, <1>3, <1>4, <1>5, <1>6, <1>7, <1>8

LEMMA ShapeInit == Init => Shape
<1> SUFFICES ASSUME Init PROVE Shape
  OBVIOUS
<1>1. TypeOK
  <2>1. CoordinatorType
    BY Kinds DEF Init, CoordinatorType, PcValues
  <2>2. PoolType
    <3>1. ended \in [Unit -> BOOLEAN] /\ canceled \in BOOLEAN
      BY DEF Init
    <3>2. phase \in [Task -> PhaseValues]
      BY DEF Init, PhaseValues
    <3>3. delivered \in [Unit -> Nat] /\ completed \in [Unit -> Nat] /\ failure \in [Unit -> {"none", "error", "canceled"}]
      BY DEF Init
    <3>4. queue \in Seq(Task) /\ stop \in StopType
      BY Kinds DEF Init
    <3> QED BY <3>1, <3>2, <3>3, <3>4 DEF PoolType
  <2>3. FilesType /\ DbType
    BY Kinds DEF Init, FilesType, DbType
  <2> QED BY <2>1, <2>2, <2>3 DEF TypeOK
<1>2. InLoop /\ AtBoundary /\ Outside
  BY DEF Init, InLoop, AtBoundary, Outside, LoopPcs, BoundaryPcs
<1> QED BY <1>1, <1>2 DEF Shape

\* The stops the coordinator reads are stops.
LEMMA StopKinds == TypeOK => StopNow \in StopType /\ FinalStop \in StopType
  BY Kinds DEF TypeOK, CoordinatorType, PoolType, StopNow, FinalStop

LEMMA ShapeNext == Shape /\ [Next]_vars => Shape'
<1> SUFFICES ASSUME Shape, [Next]_vars PROVE Shape'
  OBVIOUS
<1> USE SessionAssumption
<1>a. /\ CoordinatorType /\ PoolType /\ FilesType /\ DbType
      /\ InLoop /\ AtBoundary /\ Outside
      /\ StopNow \in StopType /\ FinalStop \in StopType
  BY StopKinds DEF Shape, TypeOK
<1>1. CASE Claim
  <2>0. PoolType' /\ FilesType'
    BY <1>a, <1>1 DEF Claim, PoolType, FilesType, pool, trackers, files
  <2>1. CoordinatorType'
    BY <1>a, <1>1, Kinds DEF Claim, Goto, CoordinatorType, PcValues, loop, exit
  <2>4. DbType'
    BY <1>a, <1>1, Kinds DEF Claim, Goto, DbType, db
  <2>5. InLoop'
    BY <1>a, <1>1 DEF Claim, Goto, InLoop, LoopPcs, AtBoundary, BoundaryPcs,
       Outside, CoordinatorType, loop, exit
  <2>6. AtBoundary'
    BY <1>a, <1>1 DEF Claim, Goto, AtBoundary, BoundaryPcs, loop, exit
  <2>7. Outside'
    BY <1>a, <1>1 DEF Claim, Goto, Outside, loop, exit
  <2> QED BY <2>0, <2>1, <2>4, <2>5, <2>6, <2>7 DEF Shape, TypeOK
<1>2. CASE VerifyInputs
  <2>0. PoolType' /\ FilesType' /\ DbType'
    BY <1>a, <1>2 DEF VerifyInputs, PoolType, FilesType, DbType, pool,
       trackers, files, db
  <2>1. CoordinatorType'
    BY <1>a, <1>2, Kinds DEF VerifyInputs, Goto, EndWith, CoordinatorType,
       PcValues, loop, exit
  <2>5. InLoop'
    BY <1>a, <1>2 DEF VerifyInputs, Goto, EndWith, InLoop, LoopPcs,
       AtBoundary, BoundaryPcs, Outside, CoordinatorType, loop, exit
  <2>6. AtBoundary'
    BY <1>a, <1>2 DEF VerifyInputs, Goto, EndWith, AtBoundary, BoundaryPcs,
       loop, exit
  <2>7. Outside'
    BY <1>a, <1>2 DEF VerifyInputs, Goto, EndWith, Outside, loop, exit
  <2> QED BY <2>0, <2>1, <2>5, <2>6, <2>7 DEF Shape, TypeOK
<1>3. CASE LoopTop
  <2>0. FilesType'
    BY <1>a, <1>3 DEF LoopTop, FilesType, files
  <2>1. CoordinatorType'
    BY <1>a, <1>3, Kinds DEF LoopTop, Goto, Teardown, CoordinatorType,
       PcValues, loop, exit
  <2>2. PoolType'
    BY <1>a, <1>3, Kinds DEF LoopTop, Goto, Teardown, CoordinatorType,
       PoolType, pool, trackers
  <2>4. DbType'
    BY <1>a, <1>3 DEF LoopTop, DbType, db, InLoop, LoopPcs, Unit
  <2>5. InLoop'
    BY <1>a, <1>3 DEF LoopTop, Goto, Teardown, InLoop, LoopPcs, AtBoundary,
       BoundaryPcs, Outside, CoordinatorType, loop, exit
  <2>6. AtBoundary'
    BY <1>a, <1>3 DEF LoopTop, Goto, Teardown, AtBoundary, BoundaryPcs, loop,
       exit
  <2>7. Outside'
    BY <1>a, <1>3 DEF LoopTop, Goto, Teardown, Outside, loop, exit
  <2> QED BY <2>0, <2>1, <2>2, <2>4, <2>5, <2>6, <2>7 DEF Shape, TypeOK
<1>4. CASE PrepareUnit
  <2>a. next \in Unit /\ Stop(next, "prepare") \in StopType
    BY <1>a, <1>4, Kinds DEF PrepareUnit, Unit, CoordinatorType
  <2>0. FilesType' /\ DbType'
    BY <1>a, <1>4 DEF PrepareUnit, FilesType, DbType, files, db
  <2>1. CoordinatorType'
    <3>1. open' \in Seq(Unit)
      BY <1>a, <1>4, <2>a DEF PrepareUnit, CoordinatorType
    <3>2. observed' \in StopType
      BY <1>a, <1>4, <2>a, Kinds DEF PrepareUnit, CoordinatorType, Teardown
    <3> QED
      BY <1>a, <1>4, <3>1, <3>2 DEF PrepareUnit, Goto, Teardown,
         CoordinatorType, PcValues
  <2>2. PoolType'
    BY <1>a, <1>4, <2>a DEF PrepareUnit, PoolType, Teardown, RequestStop,
       trackers
  <2>5. InLoop'
    <3>1. CASE pc' = "deliver"
      <4>1. open' = Append(open, next) /\ cursor' = cursor /\ next' = next
        BY <1>4, <3>1 DEF PrepareUnit, Goto, Teardown
      <4>2. next \in Unit /\ open \in Seq(Unit) /\ cursor \in Nat
        BY <1>a, <2>a DEF CoordinatorType
      <4>3. /\ cursor <= NumUnits /\ next = cursor + Len(open) /\ next <= NumUnits
            /\ \A i \in 1 .. Len(open) : open[i] + 1 = cursor + i
        BY <1>a, <1>4 DEF PrepareUnit, InLoop, LoopPcs
      <4>4. Len(open') = Len(open) + 1 /\ Len(open) \in Nat
        BY <4>1, <4>2, AppendFacts
      <4>5. \A i \in 1 .. Len(open') : open'[i] + 1 = cursor + i
        BY <4>1, <4>2, <4>3, <4>4, AppendFacts
      <4> QED BY <3>1, <4>1, <4>2, <4>3, <4>4, <4>5 DEF InLoop
    <3>2. CASE pc' # "deliver"
      BY <1>4, <3>2 DEF PrepareUnit, Goto, Teardown, InLoop, LoopPcs
    <3> QED BY <3>1, <3>2
  <2>6. AtBoundary'
    BY <1>a, <1>4 DEF PrepareUnit, Goto, Teardown, RequestStop, Room,
       AtBoundary, BoundaryPcs, loop, exit
  <2>7. Outside'
    BY <1>a, <1>4 DEF PrepareUnit, Goto, Teardown, RequestStop, Room, Outside,
       loop, exit
  <2> QED BY <2>0, <2>1, <2>2, <2>5, <2>6, <2>7 DEF Shape, TypeOK
<1>5. CASE FillEnds
  <2>0. PoolType' /\ FilesType' /\ DbType'
    BY <1>a, <1>5 DEF FillEnds, PoolType, FilesType, DbType, pool, trackers,
       files, db
  <2>1. CoordinatorType'
    BY <1>a, <1>5, Kinds DEF FillEnds, Goto, Room, CoordinatorType, PcValues,
       loop, exit
  <2>5. InLoop'
    BY <1>a, <1>5 DEF FillEnds, Goto, Room, InLoop, LoopPcs, AtBoundary,
       BoundaryPcs, Outside, CoordinatorType, loop, exit
  <2>6. AtBoundary'
    BY <1>a, <1>5 DEF FillEnds, Goto, Room, AtBoundary, BoundaryPcs, loop, exit
  <2>7. Outside'
    BY <1>a, <1>5 DEF FillEnds, Goto, Room, Outside, loop, exit
  <2> QED BY <2>0, <2>1, <2>5, <2>6, <2>7 DEF Shape, TypeOK
<1>6. CASE SendTask
  <2>0. FilesType' /\ DbType'
    BY <1>a, <1>6 DEF SendTask, FilesType, DbType, files, db
  <2>1. CoordinatorType'
    BY <1>a, <1>6, Kinds DEF SendTask, Goto, CoordinatorType, PcValues, loop,
       exit
  <2>2. PoolType'
    <3>1. <<next, deliver>> \in Task
      BY <1>a, <1>6, TaskFacts DEF SendTask, InLoop, LoopPcs, CoordinatorType,
         Unit
    <3>2. queue' \in Seq(Task)
      BY <1>a, <1>6, <3>1, AppendFacts DEF SendTask, PoolType
    <3> QED BY <1>a, <1>6, <3>2 DEF SendTask, PoolType, trackers
  <2>5. InLoop'
    BY <1>a, <1>6 DEF SendTask, Goto, InLoop, LoopPcs, AtBoundary,
       BoundaryPcs, Outside, CoordinatorType, loop, exit
  <2>6. AtBoundary'
    BY <1>a, <1>6 DEF SendTask, Goto, AtBoundary, BoundaryPcs, loop, exit
  <2>7. Outside'
    BY <1>a, <1>6 DEF SendTask, Goto, Outside, loop, exit
  <2> QED BY <2>0, <2>1, <2>2, <2>5, <2>6, <2>7 DEF Shape, TypeOK
<1>7. CASE CountTask
  <2>0. FilesType' /\ DbType'
    BY <1>a, <1>7 DEF CountTask, FilesType, DbType, files, db
  <2>1. CoordinatorType'
    BY <1>a, <1>7, Kinds DEF CountTask, Goto, CoordinatorType, PcValues, loop,
       exit
  <2>2. PoolType'
    <3>1. next \in Unit
      BY <1>a, <1>7 DEF CountTask, InLoop, LoopPcs, CoordinatorType, Unit
    <3>2. delivered[next] \in Nat
      BY <1>a, <3>1 DEF PoolType
    <3>3. delivered' \in [Unit -> Nat]
      <4>1. [delivered EXCEPT ![next] = delivered[next] + 1] \in [Unit -> Nat]
        BY <1>a, <3>1, <3>2 DEF PoolType
      <4> QED BY <1>7, <4>1 DEF CountTask
    <3> QED BY <1>a, <1>7, <3>3 DEF CountTask, PoolType
  <2>5. InLoop'
    BY <1>a, <1>7 DEF CountTask, Goto, InLoop, LoopPcs, AtBoundary,
       BoundaryPcs, Outside, CoordinatorType, loop, exit
  <2>6. AtBoundary'
    BY <1>a, <1>7 DEF CountTask, Goto, AtBoundary, BoundaryPcs, loop, exit
  <2>7. Outside'
    BY <1>a, <1>7 DEF CountTask, Goto, Outside, loop, exit
  <2> QED BY <2>0, <2>1, <2>2, <2>5, <2>6, <2>7 DEF Shape, TypeOK
<1>8. CASE AbortDelivery
  <2>0. FilesType' /\ DbType'
    BY <1>a, <1>8 DEF AbortDelivery, FilesType, DbType, files, db
  <2>1. CoordinatorType'
    BY <1>a, <1>8, Kinds DEF AbortDelivery, Goto, Teardown, CoordinatorType,
       PcValues, loop, exit
  <2>2. PoolType'
    BY <1>a, <1>8, Kinds DEF AbortDelivery, Goto, Teardown, CoordinatorType,
       PoolType, pool, trackers
  <2>5. InLoop'
    BY <1>a, <1>8 DEF AbortDelivery, Goto, Teardown, InLoop, LoopPcs,
       AtBoundary, BoundaryPcs, Outside, CoordinatorType, loop, exit
  <2>6. AtBoundary'
    BY <1>a, <1>8 DEF AbortDelivery, Goto, Teardown, AtBoundary, BoundaryPcs,
       loop, exit
  <2>7. Outside'
    BY <1>a, <1>8 DEF AbortDelivery, Goto, Teardown, Outside, loop, exit
  <2> QED BY <2>0, <2>1, <2>2, <2>5, <2>6, <2>7 DEF Shape, TypeOK
<1>9. CASE EndDelivery
  <2>0. FilesType' /\ DbType'
    BY <1>a, <1>9 DEF EndDelivery, FilesType, DbType, files, db
  <2>1. CoordinatorType'
    BY <1>a, <1>9, Kinds DEF EndDelivery, Goto, CoordinatorType, PcValues,
       loop, exit
  <2>2. PoolType'
    BY <1>a, <1>9, Kinds DEF EndDelivery, Goto, CoordinatorType, PoolType,
       pool, trackers
  <2>5. InLoop'
    BY <1>a, <1>9 DEF EndDelivery, Goto, InLoop, LoopPcs, AtBoundary,
       BoundaryPcs, Outside, CoordinatorType, loop, exit
  <2>6. AtBoundary'
    BY <1>a, <1>9 DEF EndDelivery, Goto, AtBoundary, BoundaryPcs, loop, exit
  <2>7. Outside'
    BY <1>a, <1>9 DEF EndDelivery, Goto, Outside, loop, exit
  <2> QED BY <2>0, <2>1, <2>2, <2>5, <2>6, <2>7 DEF Shape, TypeOK
<1>10. CASE WaitHead
  <2>0. PoolType' /\ FilesType' /\ DbType'
    BY <1>a, <1>10 DEF WaitHead, PoolType, FilesType, DbType, pool, trackers,
       files, db
  <2>1. CoordinatorType'
    BY <1>a, <1>10, Kinds DEF WaitHead, Goto, CoordinatorType, PcValues, loop,
       exit
  <2>5. InLoop'
    BY <1>a, <1>10 DEF WaitHead, Goto, InLoop, LoopPcs, AtBoundary,
       BoundaryPcs, Outside, CoordinatorType, loop, exit
  <2>6. AtBoundary'
    BY <1>a, <1>10 DEF WaitHead, Goto, AtBoundary, BoundaryPcs, loop, exit
  <2>7. Outside'
    BY <1>a, <1>10 DEF WaitHead, Goto, Outside, loop, exit
  <2> QED BY <2>0, <2>1, <2>5, <2>6, <2>7 DEF Shape, TypeOK
<1>11. CASE CheckHead
  <2>0. FilesType' /\ DbType'
    BY <1>a, <1>11 DEF CheckHead, FilesType, DbType, files, db
  <2>1. CoordinatorType'
    BY <1>a, <1>11, Kinds DEF CheckHead, Goto, Teardown, CoordinatorType,
       PcValues, loop, exit
  <2>2. PoolType'
    BY <1>a, <1>11, Kinds DEF CheckHead, Goto, Teardown, CoordinatorType,
       PoolType, pool, trackers
  <2>5. InLoop'
    BY <1>a, <1>11 DEF CheckHead, Goto, Teardown, InLoop, LoopPcs, AtBoundary,
       BoundaryPcs, Outside, CoordinatorType, loop, exit
  <2>6. AtBoundary'
    BY <1>a, <1>11 DEF CheckHead, Goto, Teardown, AtBoundary, BoundaryPcs,
       loop, exit
  <2>7. Outside'
    BY <1>a, <1>11 DEF CheckHead, Goto, Teardown, Outside, loop, exit
  <2> QED BY <2>0, <2>1, <2>2, <2>5, <2>6, <2>7 DEF Shape, TypeOK
<1>12. CASE AdmitCommit
  <2>0. FilesType' /\ DbType'
    BY <1>a, <1>12 DEF AdmitCommit, FilesType, DbType, files, db
  <2>1. CoordinatorType'
    BY <1>a, <1>12, Kinds DEF AdmitCommit, Goto, Teardown, CoordinatorType,
       PcValues, loop, exit
  <2>2. PoolType'
    BY <1>a, <1>12, Kinds DEF AdmitCommit, Goto, Teardown, CoordinatorType,
       PoolType, pool, trackers
  <2>5. InLoop'
    BY <1>a, <1>12 DEF AdmitCommit, Goto, Teardown, InLoop, LoopPcs,
       AtBoundary, BoundaryPcs, Outside, CoordinatorType, loop, exit
  <2>6. AtBoundary'
    BY <1>a, <1>12 DEF AdmitCommit, Goto, Teardown, AtBoundary, BoundaryPcs,
       loop, exit
  <2>7. Outside'
    BY <1>a, <1>12 DEF AdmitCommit, Goto, Teardown, Outside, loop, exit
  <2> QED BY <2>0, <2>1, <2>2, <2>5, <2>6, <2>7 DEF Shape, TypeOK
<1>13. CASE CommitReturns
  <2>a. /\ open # <<>> /\ open \in Seq(Unit) /\ cursor \in Nat
        /\ cursor <= NumUnits /\ next = cursor + Len(open) /\ next <= NumUnits + 1
        /\ \A i \in 1 .. Len(open) : open[i] + 1 = cursor + i
    BY <1>a, <1>13 DEF CommitReturns, InLoop, LoopPcs, CoordinatorType
  <2>b. /\ Head(open) \in Unit /\ Head(open) = open[1] /\ Tail(open) \in Seq(Unit)
        /\ Len(open) = Len(Tail(open)) + 1 /\ Len(Tail(open)) \in Nat
        /\ \A i \in 1 .. Len(Tail(open)) : Tail(open)[i] = open[i + 1]
    BY <2>a, TailFacts
  <2>c. Head(open) = cursor
    BY <2>a, <2>b DEF Unit
  <2>0. PoolType' /\ DbType'
    BY <1>a, <1>13 DEF CommitReturns, PoolType, DbType, pool, trackers, db
  <2>1. CoordinatorType'
    <3>1. result' \in [unit : Unit \cup {0}, row : RowType]
      <4>1. PICK status \in {"succeeded", "failed", "canceled"} :
                result' = [unit |-> Head(open), row |-> Row(status, FALSE)]
        BY <1>13 DEF CommitReturns
      <4> QED BY <4>1, <2>b, Kinds
    <3> QED BY <1>a, <1>13, <2>b, <3>1 DEF CommitReturns, Goto, CoordinatorType, PcValues, exit
  <2>3. FilesType'
    BY <1>a, <1>13 DEF CommitReturns, Goto, Landed, FilesType, files
  <2>5. InLoop'
    BY <1>a, <1>13 DEF CommitReturns, Goto, Landed, InLoop, LoopPcs,
       AtBoundary, BoundaryPcs, Outside, CoordinatorType, loop, exit
  <2>6. AtBoundary'
    <3>1. result'.unit = cursor
      BY <1>13, <2>c DEF CommitReturns
    <3>2. cursor' = cursor /\ next' = next /\ open' = Tail(open)
      BY <1>13 DEF CommitReturns
    <3>3. \A i \in 1 .. Len(Tail(open)) : Tail(open)[i] = cursor + i
      <4> TAKE i \in 1 .. Len(Tail(open))
      <4>1. i + 1 \in 1 .. Len(open) /\ open[i + 1] \in Unit
        BY <2>a, <2>b
      <4>2. open[i + 1] + 1 = cursor + (i + 1) /\ Tail(open)[i] = open[i + 1]
        BY <2>a, <2>b, <4>1
      <4> QED BY <2>a, <4>1, <4>2 DEF Unit
    <3> QED BY <2>a, <2>b, <3>1, <3>2, <3>3 DEF AtBoundary
  <2>7. Outside'
    BY <1>a, <1>13 DEF CommitReturns, Goto, Landed, Outside, loop, exit
  <2> QED BY <2>0, <2>1, <2>3, <2>5, <2>6, <2>7 DEF Shape, TypeOK
<1>14. CASE SyncInventory
  <2>a. result.unit \in Unit /\ result \in [unit : Unit \cup {0}, row : RowType]
    BY <1>a, <1>14 DEF SyncInventory, AtBoundary, BoundaryPcs,
       CoordinatorType, Unit
  <2>0. PoolType' /\ FilesType'
    BY <1>a, <1>14 DEF SyncInventory, PoolType, FilesType, pool, trackers, files
  <2>1. CoordinatorType'
    <3>1. [result EXCEPT !.row.synced = TRUE] \in [unit : Unit \cup {0}, row : RowType]
      <4>1. result.row \in [status : {"none", "pending", "succeeded", "failed", "canceled"}, synced : BOOLEAN]
        BY <2>a DEF RowType
      <4>2. [result.row EXCEPT !.synced = TRUE] \in RowType
        BY <4>1 DEF RowType
      <4>3. [result EXCEPT !.row.synced = TRUE] = [result EXCEPT !.row = [result.row EXCEPT !.synced = TRUE]]
        BY <2>a
      <4> QED BY <2>a, <4>2, <4>3
    <3>2. result' \in [unit : Unit \cup {0}, row : RowType]
      BY <1>14, <2>a, <3>1 DEF SyncInventory
    <3> QED BY <1>a, <1>14, <3>2 DEF SyncInventory, Goto, CoordinatorType, PcValues, exit
  <2>4. DbType'
    BY <1>a, <1>14, <2>a DEF SyncInventory, DbType
  <2>5. InLoop'
    BY <1>a, <1>14 DEF SyncInventory, Goto, InLoop, LoopPcs, AtBoundary,
       BoundaryPcs, Outside, CoordinatorType, loop, exit
  <2>6. AtBoundary'
    BY <1>a, <1>14 DEF SyncInventory, Goto, AtBoundary, BoundaryPcs,
       CoordinatorType, exit
  <2>7. Outside'
    BY <1>a, <1>14 DEF SyncInventory, Goto, Outside, loop, exit
  <2> QED BY <2>0, <2>1, <2>4, <2>5, <2>6, <2>7 DEF Shape, TypeOK
<1>15. CASE RecordHead
  <2>a. /\ result.unit \in Unit /\ result.row \in RowType
        /\ NextPosition(cursor) \in Unit \cup {0}
    BY <1>a, <1>15 DEF RecordHead, AtBoundary, BoundaryPcs, CoordinatorType,
       Unit, NextPosition
  <2>0. FilesType'
    BY <1>a, <1>15 DEF RecordHead, FilesType, files
  <2>1. CoordinatorType'
    BY <1>a, <1>15, <2>a, Kinds DEF RecordHead, Goto, Teardown,
       CoordinatorType, PcValues, loop
  <2>2. PoolType'
    BY <1>a, <1>15, Kinds DEF RecordHead, Goto, Teardown, SaveResult,
       CoordinatorType, PoolType, pool, trackers
  <2>4. DbType'
    BY <1>a, <1>15, <2>a DEF RecordHead, SaveResult, DbType
  <2>5. InLoop'
    BY <1>a, <1>15 DEF RecordHead, Goto, Teardown, SaveResult, InLoop,
       LoopPcs, AtBoundary, BoundaryPcs, Outside, CoordinatorType, loop, exit
  <2>6. AtBoundary'
    BY <1>a, <1>15 DEF RecordHead, Goto, Teardown, SaveResult, AtBoundary,
       BoundaryPcs, loop, exit
  <2>7. Outside'
    BY <1>a, <1>15 DEF RecordHead, Goto, Teardown, SaveResult, Outside, loop,
       exit
  <2> QED BY <2>0, <2>1, <2>2, <2>4, <2>5, <2>6, <2>7 DEF Shape, TypeOK
<1>16. CASE SettleHead
  <2>a. /\ result.unit \in Unit /\ Stop(result.unit, "commit") \in StopType
    BY <1>a, <1>16, Kinds DEF SettleHead, AtBoundary, BoundaryPcs,
       CoordinatorType, Unit
  <2>b. stop' \in StopType
    BY <1>a, <1>16, <2>a DEF SettleHead, RequestStop, PoolType
  <2>0. FilesType' /\ DbType'
    BY <1>a, <1>16 DEF SettleHead, FilesType, DbType, files, db
  <2>1. CoordinatorType'
    <3>1. observed' \in StopType
      BY <1>a, <1>16, <2>b, Kinds DEF SettleHead, Teardown, CoordinatorType
    <3>2. cursor' \in Nat \ {0}
      BY <1>a, <1>16 DEF SettleHead, CoordinatorType
    <3> QED BY <1>a, <1>16, <3>1, <3>2 DEF SettleHead, Goto, Teardown, CoordinatorType, PcValues
  <2>2. PoolType'
    BY <1>a, <1>16, <2>b DEF SettleHead, Teardown, RequestStop, PoolType,
       trackers
  <2>5. InLoop'
    <3>1. CASE pc' = "top"
      <4>1. cursor' = cursor + 1 /\ cursor # NumUnits /\ UNCHANGED <<open, next>>
        BY <1>16, <3>1 DEF SettleHead, Goto, Teardown
      <4>2. /\ cursor <= NumUnits /\ next = cursor + 1 + Len(open) /\ next <= NumUnits + 1
            /\ \A i \in 1 .. Len(open) : open[i] = cursor + i
        BY <1>a, <1>16 DEF SettleHead, AtBoundary, BoundaryPcs
      <4>3. cursor \in Nat /\ Len(open) \in Nat
        BY <1>a DEF CoordinatorType
      <4> QED BY <3>1, <4>1, <4>2, <4>3 DEF InLoop
    <3>2. CASE pc' # "top"
      BY <1>16, <3>2 DEF SettleHead, Goto, Teardown, InLoop, LoopPcs
    <3> QED BY <3>1, <3>2
  <2>6. AtBoundary'
    BY <1>a, <1>16 DEF SettleHead, Goto, Teardown, RequestStop, AtBoundary,
       BoundaryPcs, loop, exit
  <2>7. Outside'
    BY <1>a, <1>16 DEF SettleHead, Goto, Teardown, RequestStop, Outside, loop,
       exit
  <2> QED BY <2>0, <2>1, <2>2, <2>5, <2>6, <2>7 DEF Shape, TypeOK
<1>17. CASE Join
  <2>0. PoolType' /\ FilesType' /\ DbType'
    BY <1>a, <1>17 DEF Join, PoolType, FilesType, DbType, pool, trackers,
       files, db
  <2>1. CoordinatorType'
    BY <1>a, <1>17, Kinds DEF Join, Goto, EndWith, CoordinatorType, PcValues,
       loop, exit
  <2>5. InLoop'
    BY <1>a, <1>17 DEF Join, Goto, EndWith, InLoop, LoopPcs, AtBoundary,
       BoundaryPcs, Outside, CoordinatorType, loop, exit
  <2>6. AtBoundary'
    BY <1>a, <1>17 DEF Join, Goto, EndWith, AtBoundary, BoundaryPcs, loop, exit
  <2>7. Outside'
    <3>1. FinalStop.unit # 0 => FinalStop.unit \in Unit
      BY <1>a, Kinds
    <3> QED BY <1>17, <3>1 DEF Join, Goto, EndWith, Outside, loop, exit
  <2> QED BY <2>0, <2>1, <2>5, <2>6, <2>7 DEF Shape, TypeOK
<1>18. CASE ReportFailedUnit
  <2>a. observed.unit \in Unit /\ Row("failed", FALSE) \in RowType
    BY <1>a, <1>18, Kinds DEF ReportFailedUnit, Outside
  <2>0. PoolType'
    BY <1>a, <1>18 DEF ReportFailedUnit, PoolType, pool, trackers
  <2>1. CoordinatorType'
    BY <1>a, <1>18, Kinds DEF ReportFailedUnit, Goto, SaveResult,
       CoordinatorType, PcValues, loop, exit
  <2>3. FilesType'
    BY <1>a, <1>18 DEF ReportFailedUnit, Goto, SaveResult, FilesType, files
  <2>4. DbType'
    BY <1>a, <1>18, <2>a DEF ReportFailedUnit, SaveResult, DbType
  <2>5. InLoop'
    BY <1>a, <1>18 DEF ReportFailedUnit, Goto, SaveResult, InLoop, LoopPcs,
       AtBoundary, BoundaryPcs, Outside, CoordinatorType, loop, exit
  <2>6. AtBoundary'
    BY <1>a, <1>18 DEF ReportFailedUnit, Goto, SaveResult, AtBoundary,
       BoundaryPcs, loop, exit
  <2>7. Outside'
    BY <1>a, <1>18 DEF ReportFailedUnit, Goto, SaveResult, Outside, loop, exit
  <2> QED BY <2>0, <2>1, <2>3, <2>4, <2>5, <2>6, <2>7 DEF Shape, TypeOK
<1>19. CASE DiscardOpen
  <2>a. Head(open) \in Unit /\ Tail(open) \in Seq(Unit) /\ Row("pending", FALSE) \in RowType
    BY <1>a, <1>19, TailFacts, Kinds DEF DiscardOpen, CoordinatorType
  <2>0. PoolType'
    BY <1>a, <1>19 DEF DiscardOpen, PoolType, pool, trackers
  <2>1. CoordinatorType'
    BY <1>a, <1>19, Kinds DEF DiscardOpen, SaveResult, DiscardedRow,
       CoordinatorType, PcValues, loop, exit
  <2>3. FilesType'
    BY <1>a, <1>19 DEF DiscardOpen, SaveResult, DiscardedRow, FilesType, files
  <2>4. DbType'
    BY <1>a, <1>19, <2>a DEF DiscardOpen, SaveResult, DiscardedRow, DbType
  <2>5. InLoop'
    BY <1>a, <1>19 DEF DiscardOpen, SaveResult, DiscardedRow, InLoop, LoopPcs,
       AtBoundary, BoundaryPcs, Outside, CoordinatorType, loop, exit
  <2>6. AtBoundary'
    BY <1>a, <1>19 DEF DiscardOpen, SaveResult, DiscardedRow, AtBoundary,
       BoundaryPcs, loop, exit
  <2>7. Outside'
    BY <1>a, <1>19 DEF DiscardOpen, SaveResult, DiscardedRow, Outside, loop,
       exit
  <2> QED BY <2>0, <2>1, <2>3, <2>4, <2>5, <2>6, <2>7 DEF Shape, TypeOK
<1>20. CASE DiscardEnds
  <2>0. PoolType' /\ FilesType' /\ DbType'
    BY <1>a, <1>20 DEF DiscardEnds, PoolType, FilesType, DbType, pool,
       trackers, files, db
  <2>1. CoordinatorType'
    BY <1>a, <1>20, Kinds DEF DiscardEnds, Goto, CoordinatorType, PcValues,
       loop, exit
  <2>5. InLoop'
    BY <1>a, <1>20 DEF DiscardEnds, Goto, InLoop, LoopPcs, AtBoundary,
       BoundaryPcs, Outside, CoordinatorType, loop, exit
  <2>6. AtBoundary'
    BY <1>a, <1>20 DEF DiscardEnds, Goto, AtBoundary, BoundaryPcs, loop, exit
  <2>7. Outside'
    BY <1>a, <1>20 DEF DiscardEnds, Goto, Outside, loop, exit
  <2> QED BY <2>0, <2>1, <2>5, <2>6, <2>7 DEF Shape, TypeOK
<1>21. CASE Finish
  <2>0. PoolType' /\ FilesType'
    BY <1>a, <1>21 DEF Finish, PoolType, FilesType, pool, trackers, files
  <2>1. CoordinatorType'
    BY <1>a, <1>21, Kinds DEF Finish, Goto, CoordinatorType, PcValues, loop,
       exit
  <2>4. DbType'
    BY <1>a, <1>21 DEF Finish, CoordinatorType, DbType
  <2>5. InLoop'
    BY <1>a, <1>21 DEF Finish, Goto, InLoop, LoopPcs, AtBoundary, BoundaryPcs,
       Outside, CoordinatorType, loop, exit
  <2>6. AtBoundary'
    BY <1>a, <1>21 DEF Finish, Goto, AtBoundary, BoundaryPcs, loop, exit
  <2>7. Outside'
    BY <1>a, <1>21 DEF Finish, Goto, Outside, loop, exit
  <2> QED BY <2>0, <2>1, <2>4, <2>5, <2>6, <2>7 DEF Shape, TypeOK
<1>22. CASE RequestCancel
  <2>0. CoordinatorType' /\ InLoop' /\ AtBoundary' /\ Outside' /\ PoolType' /\ FilesType'
    BY <1>a, <1>22 DEF RequestCancel, CoordinatorType, InLoop, AtBoundary,
       Outside, PoolType, FilesType, coordinator, loop, exit, pool, trackers,
       files
  <2>4. DbType'
    BY <1>a, <1>22, Kinds DEF RequestCancel, DbType, db
  <2> QED BY <2>0, <2>4 DEF Shape, TypeOK
<1>23. CASE ObserveCancel
  <2>0. CoordinatorType' /\ InLoop' /\ AtBoundary' /\ Outside' /\ FilesType' /\ DbType'
    BY <1>a, <1>23 DEF ObserveCancel, CoordinatorType, InLoop, AtBoundary,
       Outside, FilesType, DbType, coordinator, loop, exit, files, db
  <2>2. PoolType'
    BY <1>a, <1>23, Kinds DEF ObserveCancel, CoordinatorType, PoolType, pool,
       trackers
  <2> QED BY <2>0, <2>2 DEF Shape, TypeOK
<1>24. CASE Crash
  <2>0. DbType'
    BY <1>a, <1>24 DEF Crash, DbType, db
  <2>1. CoordinatorType'
    BY <1>a, <1>24, Kinds DEF Crash, Goto, CoordinatorType, PcValues, loop, exit
  <2>2. PoolType'
    <3>1. phase' \in [Task -> PhaseValues]
      BY <1>24 DEF Crash, PhaseValues
    <3>2. /\ delivered' \in [Unit -> Nat] /\ completed' \in [Unit -> Nat]
          /\ failure' \in [Unit -> {"none", "error", "canceled"}]
      BY <1>24 DEF Crash
    <3>3. ended' \in [Unit -> BOOLEAN] /\ canceled' \in BOOLEAN
      BY <1>24 DEF Crash
    <3>4. queue' \in Seq(Task) /\ stop' \in StopType
      BY <1>24, Kinds DEF Crash
    <3> QED BY <3>1, <3>2, <3>3, <3>4 DEF PoolType
  <2>3. FilesType'
    BY <1>a, <1>24 DEF Crash, Goto, FilesType, files
  <2>5. InLoop'
    BY <1>a, <1>24 DEF Crash, Goto, InLoop, LoopPcs, AtBoundary, BoundaryPcs,
       Outside, CoordinatorType, loop, exit
  <2>6. AtBoundary'
    BY <1>a, <1>24 DEF Crash, Goto, AtBoundary, BoundaryPcs, loop, exit
  <2>7. Outside'
    BY <1>a, <1>24 DEF Crash, Goto, Outside, loop, exit
  <2> QED BY <2>0, <2>1, <2>2, <2>3, <2>5, <2>6, <2>7 DEF Shape, TypeOK
<1>25. CASE Restart
  <2>0. PoolType' /\ FilesType'
    BY <1>a, <1>25 DEF Restart, PoolType, FilesType, pool, trackers, files
  <2>1. CoordinatorType'
    BY <1>a, <1>25, Kinds DEF Restart, Goto, CoordinatorType, PcValues, loop,
       exit
  <2>4. DbType'
    BY <1>a, <1>25, Kinds DEF Restart, Goto, DbType, db
  <2>5. InLoop'
    BY <1>a, <1>25 DEF Restart, Goto, InLoop, LoopPcs, AtBoundary,
       BoundaryPcs, Outside, CoordinatorType, loop, exit
  <2>6. AtBoundary'
    BY <1>a, <1>25 DEF Restart, Goto, AtBoundary, BoundaryPcs, loop, exit
  <2>7. Outside'
    BY <1>a, <1>25 DEF Restart, Goto, Outside, loop, exit
  <2> QED BY <2>0, <2>1, <2>4, <2>5, <2>6, <2>7 DEF Shape, TypeOK
<1>26. ASSUME NEW t \in Task, TakeTask(t) PROVE Shape'
  <2>0. CoordinatorType' /\ InLoop' /\ AtBoundary' /\ Outside' /\ DbType'
    BY <1>a, <1>26 DEF TakeTask, CoordinatorType, InLoop, AtBoundary, Outside,
       DbType, coordinator, loop, exit, db
  <2>2. PoolType'
    <3>1. queue' \in Seq(Task)
      BY <1>a, <1>26, TailFacts DEF TakeTask, PoolType
    <3>2. phase' \in [Task -> PhaseValues]
      BY <1>a, <1>26 DEF TakeTask, PoolType, PhaseValues
    <3> QED BY <1>a, <1>26, <3>1, <3>2 DEF TakeTask, PoolType, trackers
  <2>3. FilesType'
    BY <1>a, <1>26 DEF TakeTask, TaskReturned, RequestStop, FilesType, files
  <2> QED BY <2>0, <2>2, <2>3 DEF Shape, TypeOK
<1>27. ASSUME NEW t \in Task, EncodeSucceeds(t) PROVE Shape'
  <2>0. CoordinatorType' /\ InLoop' /\ AtBoundary' /\ Outside' /\ FilesType' /\ DbType'
    BY <1>a, <1>27 DEF EncodeSucceeds, CoordinatorType, InLoop, AtBoundary,
       Outside, FilesType, DbType, coordinator, loop, exit, files, db
  <2>2. PoolType'
    <3>1. completed' \in [Unit -> Nat]
      <4>1. PICK u \in Unit : u = t[1]
        BY TaskFacts
      <4>2. [completed EXCEPT ![u] = completed[u] + 1] \in [Unit -> Nat]
        BY <1>a DEF PoolType
      <4> QED BY <1>27, <4>1, <4>2 DEF EncodeSucceeds, TaskReturned
    <3>2. failure' \in [Unit -> {"none", "error", "canceled"}]
      BY <1>a, <1>27, TaskFacts DEF EncodeSucceeds, TaskReturned, PoolType
    <3>3. phase' \in [Task -> PhaseValues]
      BY <1>a, <1>27 DEF EncodeSucceeds, PoolType, PhaseValues
    <3> QED BY <1>a, <1>27, <3>1, <3>2, <3>3 DEF EncodeSucceeds, PoolType
  <2> QED BY <2>0, <2>2 DEF Shape, TypeOK
<1>28. ASSUME NEW t \in Task, EncodeCanceled(t) PROVE Shape'
  <2>0. CoordinatorType' /\ InLoop' /\ AtBoundary' /\ Outside' /\ FilesType' /\ DbType'
    BY <1>a, <1>28 DEF EncodeCanceled, CoordinatorType, InLoop, AtBoundary,
       Outside, FilesType, DbType, coordinator, loop, exit, files, db
  <2>2. PoolType'
    <3>1. completed' \in [Unit -> Nat]
      <4>1. PICK u \in Unit : u = t[1]
        BY TaskFacts
      <4>2. [completed EXCEPT ![u] = completed[u] + 1] \in [Unit -> Nat]
        BY <1>a DEF PoolType
      <4> QED BY <1>28, <4>1, <4>2 DEF EncodeCanceled, TaskReturned
    <3>2. failure' \in [Unit -> {"none", "error", "canceled"}]
      BY <1>a, <1>28, TaskFacts DEF EncodeCanceled, TaskReturned, PoolType
    <3>3. phase' \in [Task -> PhaseValues]
      BY <1>a, <1>28 DEF EncodeCanceled, PoolType, PhaseValues
    <3> QED BY <1>a, <1>28, <3>1, <3>2, <3>3 DEF EncodeCanceled, PoolType
  <2> QED BY <2>0, <2>2 DEF Shape, TypeOK
<1>29. ASSUME NEW t \in Task, EncodeFails(t) PROVE Shape'
  <2>0. CoordinatorType' /\ InLoop' /\ AtBoundary' /\ Outside' /\ FilesType' /\ DbType'
    BY <1>a, <1>29 DEF EncodeFails, CoordinatorType, InLoop, AtBoundary,
       Outside, FilesType, DbType, coordinator, loop, exit, files, db
  <2>2. PoolType'
    <3>1. completed' \in [Unit -> Nat]
      <4>1. PICK u \in Unit : u = t[1]
        BY TaskFacts
      <4>2. [completed EXCEPT ![u] = completed[u] + 1] \in [Unit -> Nat]
        BY <1>a DEF PoolType
      <4> QED BY <1>29, <4>1, <4>2 DEF EncodeFails, TaskReturned
    <3>2. failure' \in [Unit -> {"none", "error", "canceled"}]
      BY <1>a, <1>29, TaskFacts DEF EncodeFails, TaskReturned, PoolType
    <3>3. phase' \in [Task -> PhaseValues]
      BY <1>a, <1>29 DEF EncodeFails, PoolType, PhaseValues
    <3> QED BY <1>a, <1>29, <3>1, <3>2, <3>3 DEF EncodeFails, PoolType
  <2> QED BY <2>0, <2>2 DEF Shape, TypeOK
<1>30. ASSUME NEW t \in Task, ReportFailure(t) PROVE Shape'
  <2>0. CoordinatorType' /\ InLoop' /\ AtBoundary' /\ Outside' /\ FilesType' /\ DbType'
    BY <1>a, <1>30 DEF ReportFailure, CoordinatorType, InLoop, AtBoundary,
       Outside, FilesType, DbType, coordinator, loop, exit, files, db
  <2>2. PoolType'
    <3>1. phase' \in [Task -> PhaseValues]
      BY <1>a, <1>30 DEF ReportFailure, PoolType, PhaseValues
    <3>2. stop' \in StopType /\ canceled' \in BOOLEAN
      BY <1>a, <1>30, TaskFacts, Kinds DEF ReportFailure, RequestStop, PoolType
    <3> QED BY <1>a, <1>30, <3>1, <3>2 DEF ReportFailure, PoolType, trackers
  <2> QED BY <2>0, <2>2 DEF Shape, TypeOK
<1>31. CASE UNCHANGED vars
  BY <1>31 DEF vars, coordinator, loop, exit, pool, trackers, files, db,
     Shape, TypeOK, CoordinatorType, PoolType, FilesType, DbType, InLoop,
     AtBoundary, Outside
<1> QED
  BY <1>1, <1>2, <1>3, <1>4, <1>5, <1>6, <1>7, <1>8, <1>9, <1>10, <1>11,
     <1>12, <1>13, <1>14, <1>15, <1>16, <1>17, <1>18, <1>19, <1>20, <1>21,
     <1>22, <1>23, <1>24, <1>25, <1>26, <1>27, <1>28, <1>29, <1>30, <1>31 DEF
     Next, Coordinator, WorkerStep

\* Type correctness, for every worklist, window and interleaving: every row,
\* verdict and stop of a session names a unit of its frozen worklist
\* (execution_worker.go, execution_pool.go).
THEOREM TypeCorrect == Spec => []TypeOK
<1>1. Init => Shape
  BY ShapeInit
<1>2. Shape /\ [Next]_vars => Shape'
  BY ShapeNext
<1>3. Shape => TypeOK
  BY DEF Shape
<1> QED BY <1>1, <1>2, <1>3, PTL DEF Spec

-----------------------------------------------------------------------------
(***************************************************************************)
(* A unit that reaches Commit is completely encoded, for every worklist    *)
(* and every window.  The bookkeeping of openUnit is a count, so the       *)
(* argument is one: a task is queued at most once and returns at most      *)
(* once, completed counts the returns of its unit, and a sealed unit whose *)
(* count reached the number of its tasks has none left that could fail.    *)
(***************************************************************************)

Returns == {"encoded", "reporting", "failed", "aborted"}
ReturnedOf(u) == {i \in 1 .. Tasks[u] : phase[<<u, i>>] \in Returns}

\* completed counts the tasks of the unit that returned.
Counted == \A u \in Unit : completed[u] = Cardinality(ReturnedOf(u))

\* A task that returned without an output left a failure on its unit.
Failures ==
    \A t \in Task : phase[t] \in {"reporting", "failed", "aborted"} =>
        failure[t[1]] # "none"

\* The queue holds tasks no worker has seen, each once.
QueueFresh ==
    /\ \A i \in 1 .. Len(queue) : phase[queue[i]] = "idle"
    /\ \A i, j \in 1 .. Len(queue) : queue[i] = queue[j] => i = j

\* What the coordinator has yet to send.
NotSent(t) ==
    \/ t[1] > next
    \/ t[1] = next /\ (pc = "deliver" => t[2] >= deliver)
                   /\ (pc = "count" => t[2] > deliver)

Unsent ==
    pc \in LoopPcs \cup BoundaryPcs \cup {"queued", "verify"} =>
        \A t \in Task : NotSent(t) =>
            phase[t] = "idle" /\ \A i \in 1 .. Len(queue) : queue[i] # t

\* The commit permit, once given, is kept.
Permit ==
    pc \in {"admit", "commit"} => \A t \in TasksOf(Head(open)) : phase[t] = "encoded"

Bookkeeping == Counted /\ Failures /\ QueueFresh /\ Unsent /\ Permit

-----------------------------------------------------------------------------
LEMMA ReturnedFacts ==
    ASSUME NEW u \in Unit
    PROVE  /\ IsFiniteSet(ReturnedOf(u))
           /\ Cardinality(ReturnedOf(u)) \in Nat
           /\ Cardinality(ReturnedOf(u)) <= Tasks[u]
           /\ Cardinality(ReturnedOf(u)) = Tasks[u] => ReturnedOf(u) = 1 .. Tasks[u]
<1>1. Tasks[u] \in Nat
  BY SessionAssumption
<1>2. IsFiniteSet(1 .. Tasks[u]) /\ Cardinality(1 .. Tasks[u]) = Tasks[u]
  BY <1>1, FS_Interval
<1>3. ReturnedOf(u) \in SUBSET (1 .. Tasks[u])
  BY DEF ReturnedOf
<1> QED BY <1>2, <1>3, FS_Subset, FS_CardinalityType

\* The return of one task counts once, and on its own unit only.
LEMMA OneMore ==
    ASSUME PoolType, NEW t \in Task, NEW p \in Returns,
           phase[t] \notin Returns, phase' = [phase EXCEPT ![t] = p],
           NEW u \in Unit
    PROVE  Cardinality(ReturnedOf(u)') =
               IF u = t[1] THEN Cardinality(ReturnedOf(u)) + 1
                           ELSE Cardinality(ReturnedOf(u))
<1>1. \A i \in 1 .. Tasks[u] :
        <<u, i>> \in Task /\ (<<u, i>> = t <=> u = t[1] /\ i = t[2])
  BY TaskFacts, SessionAssumption
<1>2. \A i \in 1 .. Tasks[u] :
        phase'[<<u, i>>] = IF <<u, i>> = t THEN p ELSE phase[<<u, i>>]
  BY <1>1 DEF PoolType
<1>3. CASE u = t[1]
  <2>1. ReturnedOf(u)' = ReturnedOf(u) \cup {t[2]}
    BY <1>1, <1>2, <1>3, TaskFacts DEF ReturnedOf
  <2>2. t[2] \notin ReturnedOf(u)
    BY <1>1, <1>3 DEF ReturnedOf
  <2> QED BY <1>3, <2>1, <2>2, ReturnedFacts, FS_AddElement
<1>4. CASE u # t[1]
  <2>1. ReturnedOf(u)' = ReturnedOf(u)
    BY <1>1, <1>2, <1>4 DEF ReturnedOf
  <2> QED BY <1>4, <2>1
<1> QED BY <1>3, <1>4

LEMMA BookkeepingInit == Init => Bookkeeping
<1> SUFFICES ASSUME Init PROVE Bookkeeping
  OBVIOUS
<1>1. \A t \in Task : phase[t] = "idle"
  BY DEF Init
<1>2. Counted
  <2> SUFFICES ASSUME NEW u \in Unit PROVE completed[u] = Cardinality(ReturnedOf(u))
    BY DEF Counted
  <2>1. ReturnedOf(u) = {}
    BY <1>1, TaskFacts, SessionAssumption DEF ReturnedOf, Returns
  <2> QED BY <2>1, FS_EmptySet DEF Init
<1>3. Failures
  BY <1>1 DEF Failures
<1>4. QueueFresh
  BY DEF Init, QueueFresh
<1>5. Unsent /\ Permit
  BY <1>1 DEF Init, Unsent, Permit
<1> QED BY <1>2, <1>3, <1>4, <1>5 DEF Bookkeeping

-----------------------------------------------------------------------------
LEMMA BookkeepingNext == Shape /\ Bookkeeping /\ [Next]_vars => Bookkeeping'
<1> SUFFICES ASSUME Shape, Bookkeeping, [Next]_vars PROVE Bookkeeping'
  OBVIOUS
<1> USE SessionAssumption
<1>a. /\ CoordinatorType /\ PoolType /\ InLoop /\ AtBoundary
      /\ Counted /\ Failures /\ QueueFresh /\ Unsent /\ Permit
  BY DEF Shape, TypeOK, Bookkeeping
<1>b. \A t \in Task : t[1] \in Nat /\ t[2] \in Nat \ {0}
  BY TaskFacts DEF Unit
<1>c. ASSUME UNCHANGED <<queue, phase, completed, failure>>
      PROVE  Counted' /\ Failures' /\ QueueFresh'
  BY <1>a, <1>c DEF Counted, ReturnedOf, Failures, QueueFresh
<1>1. CASE Claim
  <2>1. Counted' /\ Failures' /\ QueueFresh'
    BY <1>c, <1>1 DEF Claim, pool, trackers
  <2>2. Unsent'
    BY <1>a, <1>b, <1>1 DEF Claim, Goto, Unsent, NotSent, LoopPcs, BoundaryPcs,
       CoordinatorType, pool, loop
  <2>3. Permit'
    BY <1>a, <1>1 DEF Claim, Goto, Permit, CoordinatorType
  <2> QED BY <2>1, <2>2, <2>3 DEF Bookkeeping
<1>2. CASE VerifyInputs
  <2>1. Counted' /\ Failures' /\ QueueFresh'
    BY <1>c, <1>2 DEF VerifyInputs, pool, trackers
  <2>2. Unsent'
    BY <1>a, <1>b, <1>2 DEF VerifyInputs, Goto, EndWith, Unsent, NotSent,
       LoopPcs, BoundaryPcs,
       CoordinatorType, pool, loop
  <2>3. Permit'
    BY <1>a, <1>2 DEF VerifyInputs, Goto, EndWith, Permit, CoordinatorType
  <2> QED BY <2>1, <2>2, <2>3 DEF Bookkeeping
<1>3. CASE LoopTop
  <2>1. Counted' /\ Failures' /\ QueueFresh'
    BY <1>c, <1>3 DEF LoopTop, pool, trackers
  <2>2. Unsent'
    BY <1>a, <1>b, <1>3 DEF LoopTop, Goto, Teardown, Unsent, NotSent, LoopPcs,
       BoundaryPcs,
       CoordinatorType, pool, loop
  <2>3. Permit'
    BY <1>a, <1>3 DEF LoopTop, Goto, Teardown, Permit, CoordinatorType
  <2> QED BY <2>1, <2>2, <2>3 DEF Bookkeeping
<1>4. CASE PrepareUnit
  <2>1. Counted' /\ Failures' /\ QueueFresh'
    BY <1>c, <1>4 DEF PrepareUnit, pool, trackers
  <2>2. Unsent'
    BY <1>a, <1>b, <1>4 DEF PrepareUnit, Goto, Teardown, Room, Unsent,
       NotSent, LoopPcs, BoundaryPcs,
       CoordinatorType, pool, loop
  <2>3. Permit'
    BY <1>a, <1>4 DEF PrepareUnit, Goto, Teardown, Room, Permit, CoordinatorType
  <2> QED BY <2>1, <2>2, <2>3 DEF Bookkeeping
<1>5. CASE FillEnds
  <2>1. Counted' /\ Failures' /\ QueueFresh'
    BY <1>c, <1>5 DEF FillEnds, pool, trackers
  <2>2. Unsent'
    BY <1>a, <1>b, <1>5 DEF FillEnds, Goto, Room, Unsent, NotSent, LoopPcs,
       BoundaryPcs,
       CoordinatorType, pool, loop
  <2>3. Permit'
    BY <1>a, <1>5 DEF FillEnds, Goto, Room, Permit, CoordinatorType
  <2> QED BY <2>1, <2>2, <2>3 DEF Bookkeeping
<1>6. CASE CountTask
  <2>1. Counted' /\ Failures' /\ QueueFresh'
    BY <1>c, <1>6 DEF CountTask, pool, trackers
  <2>2. Unsent'
    BY <1>a, <1>b, <1>6 DEF CountTask, Goto, Unsent, NotSent, LoopPcs,
       BoundaryPcs,
       CoordinatorType, pool, loop
  <2>3. Permit'
    BY <1>a, <1>6 DEF CountTask, Goto, Permit, CoordinatorType
  <2> QED BY <2>1, <2>2, <2>3 DEF Bookkeeping
<1>7. CASE AbortDelivery
  <2>1. Counted' /\ Failures' /\ QueueFresh'
    BY <1>c, <1>7 DEF AbortDelivery, pool, trackers
  <2>2. Unsent'
    BY <1>a, <1>b, <1>7 DEF AbortDelivery, Goto, Teardown, Unsent, NotSent,
       LoopPcs, BoundaryPcs,
       CoordinatorType, pool, loop
  <2>3. Permit'
    BY <1>a, <1>7 DEF AbortDelivery, Goto, Teardown, Permit, CoordinatorType
  <2> QED BY <2>1, <2>2, <2>3 DEF Bookkeeping
<1>8. CASE EndDelivery
  <2>1. Counted' /\ Failures' /\ QueueFresh'
    BY <1>c, <1>8 DEF EndDelivery, pool, trackers
  <2>2. Unsent'
    BY <1>a, <1>b, <1>8 DEF EndDelivery, Goto, Unsent, NotSent, LoopPcs,
       BoundaryPcs,
       CoordinatorType, pool, loop
  <2>3. Permit'
    BY <1>a, <1>8 DEF EndDelivery, Goto, Permit, CoordinatorType
  <2> QED BY <2>1, <2>2, <2>3 DEF Bookkeeping
<1>9. CASE WaitHead
  <2>1. Counted' /\ Failures' /\ QueueFresh'
    BY <1>c, <1>9 DEF WaitHead, pool, trackers
  <2>2. Unsent'
    BY <1>a, <1>b, <1>9 DEF WaitHead, Goto, Unsent, NotSent, LoopPcs,
       BoundaryPcs,
       CoordinatorType, pool, loop
  <2>3. Permit'
    BY <1>a, <1>9 DEF WaitHead, Goto, Permit, CoordinatorType
  <2> QED BY <2>1, <2>2, <2>3 DEF Bookkeeping
<1>10. CASE CheckHead
  <2>1. Counted' /\ Failures' /\ QueueFresh'
    BY <1>c, <1>10 DEF CheckHead, pool, trackers
  <2>2. Unsent'
    BY <1>a, <1>b, <1>10 DEF CheckHead, Goto, Teardown, Unsent, NotSent,
       LoopPcs, BoundaryPcs,
       CoordinatorType, pool, loop
  <2>3. Permit'
    <3> SUFFICES ASSUME pc' = "admit" PROVE Permit'
      BY <1>10 DEF CheckHead, Goto, Teardown, Permit
    <3> DEFINE u == Head(open)
    <3>1. u \in Unit /\ UNCHANGED <<open, phase>> /\ Committable(u)
      BY <1>a, <1>10, TailFacts DEF CheckHead, Goto, Teardown, loop, InLoop,
         LoopPcs,
         CoordinatorType
    <3>2. Tasks[u] \in Nat /\ completed[u] >= Tasks[u] /\ failure[u] = "none"
      BY <3>1 DEF Committable, Sealed
    <3>3. completed[u] = Cardinality(ReturnedOf(u))
      BY <1>a, <3>1 DEF Counted
    <3>4. /\ Cardinality(ReturnedOf(u)) \in Nat /\ Cardinality(ReturnedOf(u)) <= Tasks[u]
          /\ Cardinality(ReturnedOf(u)) = Tasks[u] => ReturnedOf(u) = 1 .. Tasks[u]
      BY <3>1, ReturnedFacts
    <3>5. ReturnedOf(u) = 1 .. Tasks[u]
      BY <3>2, <3>3, <3>4
    <3>6. \A t \in TasksOf(u) : t \in Task /\ t[1] = u /\ phase[t] \in Returns
      BY <3>1, <3>5, TaskFacts DEF ReturnedOf, TasksOf
    <3>7. \A t \in TasksOf(u) : phase[t] = "encoded"
      BY <1>a, <3>2, <3>6 DEF Failures, Returns
    <3> QED BY <3>1, <3>7 DEF Permit
  <2> QED BY <2>1, <2>2, <2>3 DEF Bookkeeping
<1>11. CASE AdmitCommit
  <2>1. Counted' /\ Failures' /\ QueueFresh'
    BY <1>c, <1>11 DEF AdmitCommit, pool, trackers
  <2>2. Unsent'
    BY <1>a, <1>b, <1>11 DEF AdmitCommit, Goto, Teardown, Unsent, NotSent,
       LoopPcs, BoundaryPcs,
       CoordinatorType, pool, loop
  <2>3. Permit'
    BY <1>a, <1>11 DEF AdmitCommit, Goto, Teardown, Permit, loop
  <2> QED BY <2>1, <2>2, <2>3 DEF Bookkeeping
<1>12. CASE CommitReturns
  <2>1. Counted' /\ Failures' /\ QueueFresh'
    BY <1>c, <1>12 DEF CommitReturns, pool, trackers
  <2>2. Unsent'
    BY <1>a, <1>b, <1>12 DEF CommitReturns, Goto, Unsent, NotSent, LoopPcs,
       BoundaryPcs,
       CoordinatorType, pool, loop
  <2>3. Permit'
    BY <1>a, <1>12 DEF CommitReturns, Goto, Permit, CoordinatorType
  <2> QED BY <2>1, <2>2, <2>3 DEF Bookkeeping
<1>13. CASE SyncInventory
  <2>1. Counted' /\ Failures' /\ QueueFresh'
    BY <1>c, <1>13 DEF SyncInventory, pool, trackers
  <2>2. Unsent'
    BY <1>a, <1>b, <1>13 DEF SyncInventory, Goto, Unsent, NotSent, LoopPcs,
       BoundaryPcs,
       CoordinatorType, pool, loop
  <2>3. Permit'
    BY <1>a, <1>13 DEF SyncInventory, Goto, Permit, CoordinatorType
  <2> QED BY <2>1, <2>2, <2>3 DEF Bookkeeping
<1>14. CASE RecordHead
  <2>1. Counted' /\ Failures' /\ QueueFresh'
    BY <1>c, <1>14 DEF RecordHead, pool, trackers
  <2>2. Unsent'
    BY <1>a, <1>b, <1>14 DEF RecordHead, Goto, Teardown, Unsent, NotSent,
       LoopPcs, BoundaryPcs,
       CoordinatorType, pool, loop
  <2>3. Permit'
    BY <1>a, <1>14 DEF RecordHead, Goto, Teardown, Permit, CoordinatorType
  <2> QED BY <2>1, <2>2, <2>3 DEF Bookkeeping
<1>15. CASE SettleHead
  <2>1. Counted' /\ Failures' /\ QueueFresh'
    BY <1>c, <1>15 DEF SettleHead, pool, trackers
  <2>2. Unsent'
    BY <1>a, <1>b, <1>15 DEF SettleHead, Goto, Teardown, Unsent, NotSent,
       LoopPcs, BoundaryPcs,
       CoordinatorType, pool, loop
  <2>3. Permit'
    BY <1>a, <1>15 DEF SettleHead, Goto, Teardown, Permit, CoordinatorType
  <2> QED BY <2>1, <2>2, <2>3 DEF Bookkeeping
<1>16. CASE Join
  <2>1. Counted' /\ Failures' /\ QueueFresh'
    BY <1>c, <1>16 DEF Join, pool, trackers
  <2>2. Unsent'
    BY <1>a, <1>b, <1>16 DEF Join, Goto, EndWith, Unsent, NotSent, LoopPcs,
       BoundaryPcs,
       CoordinatorType, pool, loop
  <2>3. Permit'
    BY <1>a, <1>16 DEF Join, Goto, EndWith, Permit, CoordinatorType
  <2> QED BY <2>1, <2>2, <2>3 DEF Bookkeeping
<1>17. CASE ReportFailedUnit
  <2>1. Counted' /\ Failures' /\ QueueFresh'
    BY <1>c, <1>17 DEF ReportFailedUnit, pool, trackers
  <2>2. Unsent'
    BY <1>a, <1>b, <1>17 DEF ReportFailedUnit, Goto, Unsent, NotSent, LoopPcs,
       BoundaryPcs,
       CoordinatorType, pool, loop
  <2>3. Permit'
    BY <1>a, <1>17 DEF ReportFailedUnit, Goto, Permit, CoordinatorType
  <2> QED BY <2>1, <2>2, <2>3 DEF Bookkeeping
<1>18. CASE DiscardOpen
  <2>1. Counted' /\ Failures' /\ QueueFresh'
    BY <1>c, <1>18 DEF DiscardOpen, pool, trackers
  <2>2. Unsent'
    BY <1>a, <1>b, <1>18 DEF DiscardOpen, Goto, Unsent, NotSent, LoopPcs,
       BoundaryPcs,
       CoordinatorType, pool, loop
  <2>3. Permit'
    BY <1>a, <1>18 DEF DiscardOpen, Goto, Permit, CoordinatorType
  <2> QED BY <2>1, <2>2, <2>3 DEF Bookkeeping
<1>19. CASE DiscardEnds
  <2>1. Counted' /\ Failures' /\ QueueFresh'
    BY <1>c, <1>19 DEF DiscardEnds, pool, trackers
  <2>2. Unsent'
    BY <1>a, <1>b, <1>19 DEF DiscardEnds, Goto, Unsent, NotSent, LoopPcs,
       BoundaryPcs,
       CoordinatorType, pool, loop
  <2>3. Permit'
    BY <1>a, <1>19 DEF DiscardEnds, Goto, Permit, CoordinatorType
  <2> QED BY <2>1, <2>2, <2>3 DEF Bookkeeping
<1>20. CASE Finish
  <2>1. Counted' /\ Failures' /\ QueueFresh'
    BY <1>c, <1>20 DEF Finish, pool, trackers
  <2>2. Unsent'
    BY <1>a, <1>b, <1>20 DEF Finish, Goto, Unsent, NotSent, LoopPcs,
       BoundaryPcs,
       CoordinatorType, pool, loop
  <2>3. Permit'
    BY <1>a, <1>20 DEF Finish, Goto, Permit, CoordinatorType
  <2> QED BY <2>1, <2>2, <2>3 DEF Bookkeeping
<1>21. CASE RequestCancel
  <2>1. Counted' /\ Failures' /\ QueueFresh'
    BY <1>c, <1>21 DEF RequestCancel, pool, trackers
  <2>2. Unsent' /\ Permit'
    BY <1>a, <1>21 DEF RequestCancel, Unsent, NotSent, Permit, pool,
       coordinator, loop
  <2> QED BY <2>1, <2>2 DEF Bookkeeping
<1>22. CASE ObserveCancel
  <2>1. Counted' /\ Failures' /\ QueueFresh'
    BY <1>c, <1>22 DEF ObserveCancel, pool, trackers
  <2>2. Unsent' /\ Permit'
    BY <1>a, <1>22 DEF ObserveCancel, Unsent, NotSent, Permit, pool,
       coordinator, loop
  <2> QED BY <2>1, <2>2 DEF Bookkeeping
<1>23. CASE Restart
  <2>1. Counted' /\ Failures' /\ QueueFresh'
    BY <1>c, <1>23 DEF Restart, pool, trackers
  <2>2. Unsent'
    BY <1>a, <1>b, <1>23 DEF Restart, Goto, Unsent, NotSent, LoopPcs,
       BoundaryPcs,
       CoordinatorType, pool, loop
  <2>3. Permit'
    BY <1>a, <1>23 DEF Restart, Goto, Permit, CoordinatorType
  <2> QED BY <2>1, <2>2, <2>3 DEF Bookkeeping
<1>24. CASE SendTask
  <2> DEFINE t == <<next, deliver>>
  <2>1. /\ t \in Task /\ t[1] = next /\ t[2] = deliver
        /\ queue \in Seq(Task) /\ queue' = Append(queue, t)
        /\ pc = "deliver" /\ pc' = "count" /\ next' = next /\ deliver' = deliver
        /\ UNCHANGED <<phase, completed, failure>>
    BY <1>a, <1>24, TaskFacts DEF SendTask, Goto, InLoop, LoopPcs,
       CoordinatorType,
       PoolType, Unit, loop, trackers
  <2>2. Len(queue') = Len(queue) + 1 /\ Len(queue) \in Nat /\ queue'[Len(queue) + 1] = t
        /\ \A i \in 1 .. Len(queue) : queue'[i] = queue[i]
    BY <2>1, AppendFacts
  <2>3. NotSent(t) /\ pc \in LoopPcs
    BY <1>a, <2>1 DEF NotSent, LoopPcs, CoordinatorType
  <2>4. phase[t] = "idle" /\ \A i \in 1 .. Len(queue) : queue[i] # t
    BY <1>a, <2>1, <2>3 DEF Unsent
  <2>5. Counted' /\ Failures'
    BY <1>a, <2>1 DEF Counted, ReturnedOf, Failures
  <2>6. QueueFresh'
    <3> HIDE DEF t
    <3>1. ASSUME NEW i \in 1 .. Len(queue')
          PROVE  (i \in 1 .. Len(queue) /\ queue'[i] = queue[i])
                   \/ (i = Len(queue) + 1 /\ queue'[i] = t)
      BY <2>2
    <3>2. \A i \in 1 .. Len(queue') : phase'[queue'[i]] = "idle"
      BY <1>a, <2>1, <2>4, <3>1 DEF QueueFresh
    <3>3. ASSUME NEW i \in 1 .. Len(queue'), NEW j \in 1 .. Len(queue'),
                 queue'[i] = queue'[j]
          PROVE  i = j
      <4>1. CASE i \in 1 .. Len(queue) /\ j \in 1 .. Len(queue)
        BY <1>a, <2>2, <3>3, <4>1 DEF QueueFresh
      <4>2. CASE ~(i \in 1 .. Len(queue) /\ j \in 1 .. Len(queue))
        BY <2>2, <2>4, <3>1, <3>3, <4>2
      <4> QED BY <4>1, <4>2
    <3> QED BY <3>2, <3>3 DEF QueueFresh
  <2>7. Unsent'
    <3> SUFFICES ASSUME NEW s \in Task, NotSent(s)'
                 PROVE  phase'[s] = "idle" /\ \A i \in 1 .. Len(queue') : queue'[i] # s
      BY DEF Unsent
    <3>1. NotSent(s) /\ s # t
      BY <1>a, <1>b, <2>1 DEF NotSent, CoordinatorType
    <3>2. phase[s] = "idle" /\ \A i \in 1 .. Len(queue) : queue[i] # s
      BY <1>a, <2>3, <3>1 DEF Unsent
    <3> QED BY <2>1, <2>2, <3>1, <3>2
  <2>8. Permit'
    BY <2>1 DEF Permit
  <2> QED BY <2>5, <2>6, <2>7, <2>8 DEF Bookkeeping
<1>25. ASSUME NEW t \in Task, TakeTask(t) PROVE Bookkeeping'
  <2>1. /\ queue \in Seq(Task) /\ queue # <<>> /\ Head(queue) = t /\ queue' = Tail(queue)
        /\ UNCHANGED <<pc, next, deliver, open, completed, failure>>
        /\ phase \in [Task -> PhaseValues]
    BY <1>a, <1>25 DEF TakeTask, PoolType, coordinator, loop, trackers
  <2>2. /\ t = queue[1] /\ Len(queue) = Len(queue') + 1 /\ Len(queue') \in Nat
        /\ \A i \in 1 .. Len(queue') : queue'[i] = queue[i + 1]
    BY <2>1, TailFacts
  <2>3. phase[t] = "idle"
    BY <1>a, <2>2 DEF QueueFresh
  <2>4. PICK p \in {"refused", "encoding"} : phase' = [phase EXCEPT ![t] = p]
    BY <1>25 DEF TakeTask
  <2>5. \A s \in Task : phase'[s] = IF s = t THEN p ELSE phase[s]
    BY <2>1, <2>4
  <2>6. Counted'
    <3> SUFFICES ASSUME NEW u \in Unit PROVE completed'[u] = Cardinality(ReturnedOf(u)')
      BY DEF Counted
    <3>1. \A i \in 1 .. Tasks[u] : <<u, i>> \in Task
      BY TaskFacts
    <3>2. ReturnedOf(u)' = ReturnedOf(u)
      BY <2>3, <2>4, <2>5, <3>1 DEF ReturnedOf, Returns
    <3> QED BY <1>a, <2>1, <3>2 DEF Counted
  <2>7. Failures'
    BY <1>a, <2>1, <2>4, <2>5 DEF Failures
  <2>8. QueueFresh'
    <3>1. \A i \in 1 .. Len(queue') :
            /\ i + 1 \in 1 .. Len(queue) /\ queue[i + 1] \in Task
            /\ queue'[i] = queue[i + 1] /\ queue[i + 1] # t
      BY <1>a, <2>1, <2>2 DEF QueueFresh
    <3> QED BY <1>a, <2>5, <3>1 DEF QueueFresh
  <2>9. Unsent'
    <3> SUFFICES ASSUME pc \in LoopPcs \cup BoundaryPcs \cup {"queued", "verify"},
                        NEW s \in Task, NotSent(s)
                 PROVE  phase'[s] = "idle" /\ \A i \in 1 .. Len(queue') : queue'[i] # s
      BY <2>1 DEF Unsent, NotSent
    <3>1. phase[s] = "idle" /\ \A i \in 1 .. Len(queue) : queue[i] # s
      BY <1>a DEF Unsent
    <3>2. s # t
      BY <2>2, <3>1
    <3> QED BY <2>2, <2>5, <3>1, <3>2
  <2>10. Permit'
    <3> SUFFICES ASSUME pc \in {"admit", "commit"}, NEW s \in TasksOf(Head(open))
                 PROVE  phase'[s] = "encoded"
      BY <2>1 DEF Permit
    <3>1. phase[s] = "encoded"
      BY <1>a DEF Permit
    <3> QED BY <2>1, <2>3, <2>4, <3>1
  <2> QED BY <2>6, <2>7, <2>8, <2>9, <2>10 DEF Bookkeeping
<1>26. ASSUME NEW t \in Task, EncodeSucceeds(t) PROVE Bookkeeping'
  <2>1. /\ phase[t] \in {"encoding"} /\ phase' = [phase EXCEPT ![t] = "encoded"]
        /\ UNCHANGED <<pc, next, deliver, open, queue>>
    BY <1>26 DEF EncodeSucceeds, coordinator, loop
  <2>2. \A s \in Task : phase'[s] = IF s = t THEN "encoded" ELSE phase[s]
    BY <1>a, <2>1 DEF PoolType
  <2>3. Counted'
    <3> SUFFICES ASSUME NEW u \in Unit PROVE completed'[u] = Cardinality(ReturnedOf(u)')
      BY DEF Counted
    <3>1. Cardinality(ReturnedOf(u)') = IF u = t[1] THEN Cardinality(ReturnedOf(u)) + 1
                                        ELSE Cardinality(ReturnedOf(u))
      BY <1>a, <2>1, OneMore DEF Returns
    <3>2. completed'[u] = IF u = t[1] THEN completed[u] + 1 ELSE completed[u]
      BY <1>a, <1>26 DEF EncodeSucceeds, TaskReturned, PoolType
    <3> QED BY <1>a, <3>1, <3>2 DEF Counted
  <2>4. Failures'
    <3>1. \A u \in Unit : failure[u] # "none" => failure'[u] # "none"
      BY <1>a, <1>26 DEF EncodeSucceeds, TaskReturned, PoolType
    <3>2. "encoded" \notin {"reporting", "failed", "aborted"}
      BY <1>a, <1>26, TaskFacts DEF EncodeSucceeds, TaskReturned, PoolType
    <3> QED BY <1>a, <2>2, <3>1, <3>2, TaskFacts DEF Failures
  <2>5. QueueFresh' /\ Unsent'
    <3>1. \A i \in 1 .. Len(queue) : queue[i] \in Task /\ queue[i] # t
      BY <1>a, <2>1 DEF QueueFresh, PoolType
    <3>2. QueueFresh'
      BY <1>a, <2>1, <2>2, <3>1 DEF QueueFresh
    <3>3. Unsent'
      BY <1>a, <2>1, <2>2 DEF Unsent, NotSent
    <3> QED BY <3>2, <3>3
  <2>6. Permit'
    <3> SUFFICES ASSUME pc \in {"admit", "commit"}, NEW s \in TasksOf(Head(open))
                 PROVE  phase'[s] = "encoded"
      BY <2>1 DEF Permit
    <3>1. phase[s] = "encoded"
      BY <1>a DEF Permit
    <3> QED BY <1>a, <2>1, <3>1 DEF PoolType
  <2> QED BY <2>3, <2>4, <2>5, <2>6 DEF Bookkeeping
<1>27. ASSUME NEW t \in Task, EncodeCanceled(t) PROVE Bookkeeping'
  <2>1. /\ phase[t] \in {"encoding", "refused"} /\ phase' = [phase EXCEPT ![t] = "aborted"]
        /\ UNCHANGED <<pc, next, deliver, open, queue>>
    BY <1>27 DEF EncodeCanceled, coordinator, loop
  <2>2. \A s \in Task : phase'[s] = IF s = t THEN "aborted" ELSE phase[s]
    BY <1>a, <2>1 DEF PoolType
  <2>3. Counted'
    <3> SUFFICES ASSUME NEW u \in Unit PROVE completed'[u] = Cardinality(ReturnedOf(u)')
      BY DEF Counted
    <3>1. Cardinality(ReturnedOf(u)') = IF u = t[1] THEN Cardinality(ReturnedOf(u)) + 1
                                        ELSE Cardinality(ReturnedOf(u))
      BY <1>a, <2>1, OneMore DEF Returns
    <3>2. completed'[u] = IF u = t[1] THEN completed[u] + 1 ELSE completed[u]
      BY <1>a, <1>27 DEF EncodeCanceled, TaskReturned, PoolType
    <3> QED BY <1>a, <3>1, <3>2 DEF Counted
  <2>4. Failures'
    <3>1. \A u \in Unit : failure[u] # "none" => failure'[u] # "none"
      BY <1>a, <1>27 DEF EncodeCanceled, TaskReturned, PoolType
    <3>2. failure'[t[1]] # "none"
      BY <1>a, <1>27, TaskFacts DEF EncodeCanceled, TaskReturned, PoolType
    <3> QED BY <1>a, <2>2, <3>1, <3>2, TaskFacts DEF Failures
  <2>5. QueueFresh' /\ Unsent'
    <3>1. \A i \in 1 .. Len(queue) : queue[i] \in Task /\ queue[i] # t
      BY <1>a, <2>1 DEF QueueFresh, PoolType
    <3>2. QueueFresh'
      BY <1>a, <2>1, <2>2, <3>1 DEF QueueFresh
    <3>3. Unsent'
      BY <1>a, <2>1, <2>2 DEF Unsent, NotSent
    <3> QED BY <3>2, <3>3
  <2>6. Permit'
    <3> SUFFICES ASSUME pc \in {"admit", "commit"}, NEW s \in TasksOf(Head(open))
                 PROVE  phase'[s] = "encoded"
      BY <2>1 DEF Permit
    <3>1. phase[s] = "encoded"
      BY <1>a DEF Permit
    <3> QED BY <1>a, <2>1, <3>1 DEF PoolType
  <2> QED BY <2>3, <2>4, <2>5, <2>6 DEF Bookkeeping
<1>28. ASSUME NEW t \in Task, EncodeFails(t) PROVE Bookkeeping'
  <2>1. /\ phase[t] \in {"encoding"} /\ phase' = [phase EXCEPT ![t] = "reporting"]
        /\ UNCHANGED <<pc, next, deliver, open, queue>>
    BY <1>28 DEF EncodeFails, coordinator, loop
  <2>2. \A s \in Task : phase'[s] = IF s = t THEN "reporting" ELSE phase[s]
    BY <1>a, <2>1 DEF PoolType
  <2>3. Counted'
    <3> SUFFICES ASSUME NEW u \in Unit PROVE completed'[u] = Cardinality(ReturnedOf(u)')
      BY DEF Counted
    <3>1. Cardinality(ReturnedOf(u)') = IF u = t[1] THEN Cardinality(ReturnedOf(u)) + 1
                                        ELSE Cardinality(ReturnedOf(u))
      BY <1>a, <2>1, OneMore DEF Returns
    <3>2. completed'[u] = IF u = t[1] THEN completed[u] + 1 ELSE completed[u]
      BY <1>a, <1>28 DEF EncodeFails, TaskReturned, PoolType
    <3> QED BY <1>a, <3>1, <3>2 DEF Counted
  <2>4. Failures'
    <3>1. \A u \in Unit : failure[u] # "none" => failure'[u] # "none"
      BY <1>a, <1>28 DEF EncodeFails, TaskReturned, PoolType
    <3>2. failure'[t[1]] # "none"
      BY <1>a, <1>28, TaskFacts DEF EncodeFails, TaskReturned, PoolType
    <3> QED BY <1>a, <2>2, <3>1, <3>2, TaskFacts DEF Failures
  <2>5. QueueFresh' /\ Unsent'
    <3>1. \A i \in 1 .. Len(queue) : queue[i] \in Task /\ queue[i] # t
      BY <1>a, <2>1 DEF QueueFresh, PoolType
    <3>2. QueueFresh'
      BY <1>a, <2>1, <2>2, <3>1 DEF QueueFresh
    <3>3. Unsent'
      BY <1>a, <2>1, <2>2 DEF Unsent, NotSent
    <3> QED BY <3>2, <3>3
  <2>6. Permit'
    <3> SUFFICES ASSUME pc \in {"admit", "commit"}, NEW s \in TasksOf(Head(open))
                 PROVE  phase'[s] = "encoded"
      BY <2>1 DEF Permit
    <3>1. phase[s] = "encoded"
      BY <1>a DEF Permit
    <3> QED BY <1>a, <2>1, <3>1 DEF PoolType
  <2> QED BY <2>3, <2>4, <2>5, <2>6 DEF Bookkeeping
<1>29. ASSUME NEW t \in Task, ReportFailure(t) PROVE Bookkeeping'
  <2>1. /\ phase[t] = "reporting" /\ phase' = [phase EXCEPT ![t] = "failed"]
        /\ UNCHANGED <<pc, next, deliver, open, queue, completed, failure>>
    BY <1>29 DEF ReportFailure, coordinator, loop, trackers
  <2>2. \A s \in Task : phase'[s] = IF s = t THEN "failed" ELSE phase[s]
    BY <1>a, <2>1 DEF PoolType
  <2>3. Counted'
    <3> SUFFICES ASSUME NEW u \in Unit PROVE completed'[u] = Cardinality(ReturnedOf(u)')
      BY DEF Counted
    <3>1. \A i \in 1 .. Tasks[u] : <<u, i>> \in Task
      BY TaskFacts
    <3>2. ReturnedOf(u)' = ReturnedOf(u)
      BY <2>1, <2>2, <3>1 DEF ReturnedOf, Returns
    <3> QED BY <1>a, <2>1, <3>2 DEF Counted
  <2>4. Failures' /\ QueueFresh' /\ Unsent'
    BY <1>a, <2>1, <2>2 DEF Failures, QueueFresh, Unsent, NotSent, PoolType
  <2>5. Permit'
    <3> SUFFICES ASSUME pc \in {"admit", "commit"}, NEW s \in TasksOf(Head(open))
                 PROVE  phase'[s] = "encoded"
      BY <2>1 DEF Permit
    <3>1. phase[s] = "encoded"
      BY <1>a DEF Permit
    <3> QED BY <1>a, <2>1, <3>1 DEF PoolType
  <2> QED BY <2>3, <2>4, <2>5 DEF Bookkeeping
<1>30. CASE Crash
  <2>1. /\ pc' = "crashed" /\ queue' = <<>>
        /\ phase' = [t \in Task |-> "idle"] /\ completed' = [u \in Unit |-> 0]
    BY <1>30 DEF Crash, Goto
  <2>2. Counted'
    <3> SUFFICES ASSUME NEW u \in Unit PROVE completed'[u] = Cardinality(ReturnedOf(u)')
      BY DEF Counted
    <3>1. \A i \in 1 .. Tasks[u] : <<u, i>> \in Task
      BY TaskFacts
    <3>2. ReturnedOf(u)' = {}
      BY <2>1, <3>1 DEF ReturnedOf, Returns
    <3> QED BY <2>1, <3>2, FS_EmptySet
  <2>3. Failures' /\ QueueFresh'
    BY <2>1 DEF Failures, QueueFresh
  <2>4. Unsent' /\ Permit'
    BY <2>1 DEF Unsent, Permit, LoopPcs, BoundaryPcs
  <2> QED BY <2>2, <2>3, <2>4 DEF Bookkeeping
<1>31. CASE UNCHANGED vars
  BY <1>a, <1>c, <1>31 DEF Bookkeeping, Unsent, NotSent, Permit, vars,
     coordinator, loop,
     pool, trackers
<1> QED
  BY <1>1, <1>2, <1>3, <1>4, <1>5, <1>6, <1>7, <1>8, <1>9, <1>10, <1>11,
     <1>12, <1>13, <1>14, <1>15, <1>16, <1>17, <1>18, <1>19, <1>20, <1>21,
     <1>22, <1>23, <1>24, <1>25, <1>26, <1>27, <1>28, <1>29, <1>30, <1>31 DEF
     Next, Coordinator, WorkerStep

\* No unit is committed before all of its outputs were encoded (openUnit,
\* execution_pool.go: the permit of committable holds until Commit).
THEOREM CommitsAreEncoded == Spec => []CommitsOnlyEncoded
<1>1. Init => Shape /\ Bookkeeping
  BY ShapeInit, BookkeepingInit
<1>2. Shape /\ Bookkeeping /\ [Next]_vars => (Shape /\ Bookkeeping)'
  BY ShapeNext, BookkeepingNext
<1>3. Shape /\ Bookkeeping => CommitsOnlyEncoded
  BY DEF Bookkeeping, Permit, CommitsOnlyEncoded
<1> QED BY <1>1, <1>2, <1>3, PTL DEF Spec

-----------------------------------------------------------------------------
(***************************************************************************)
(* What rows, position, inventory and verdict say of a session agrees with *)
(* the disk, for every worklist and every window.  RowsTellDisk speaks of  *)
(* the rows only; the invariant adds why no later write can undo them: the *)
(* open units, the recorded stop and every task still at work are not      *)
(* before the cursor.                                                      *)
(***************************************************************************)

Alive == pc \notin {"crashed", "restarted"}
LeavingPcs == {"join", "report", "discard", "finish", "done"}

\* Before a session leaves its loop nothing is decided.
Undecided ==
    /\ pc \in LoopPcs \cup BoundaryPcs \cup {"queued", "verify"} =>
         observed = NoStop /\ ending = "none" /\ verdict.code # "persist"
    /\ pc \in {"queued", "verify"} =>
         stop = NoStop /\ queue = <<>> /\ \A t \in Task : phase[t] = "idle"

\* The units that were committed are encoded, every task of theirs.
PastEncoded ==
    Alive => \A t \in Task :
        (t[1] < cursor \/ (t[1] = cursor /\ pc \in BoundaryPcs) \/ ending = "all")
            => phase[t] = "encoded"

\* What is open, and what stopped the session, is not before the cursor.
NothingBehind ==
    Alive =>
        /\ \A i \in 1 .. Len(open) : open[i] >= cursor
        /\ stop # NoStop => stop.unit \in Unit /\ stop.unit >= cursor
        /\ observed.unit # 0 => observed.unit >= cursor
        /\ ending = "all" => stop = NoStop

\* The rows before the cursor succeeded, the disk after it is untouched, and a
\* head that changed the disk is being recorded, has its row, or ended the
\* session for want of it.
Settled ==
    Alive =>
        /\ \A v \in Unit : v < cursor => rows[v].status = "succeeded"
        /\ \A u \in Unit :
              (u > cursor \/ (u = cursor /\ pc \in LoopPcs \cup {"queued", "verify"}))
                  => disk[u] = "untouched"
        /\ \A u \in Unit : u = cursor /\ disk[u] # "untouched" =>
              /\ \A i \in 1 .. Len(open) : open[i] # u
              /\ \/ pc \in {"sync", "record"}
                 \/ verdict.code = "persist" /\ verdict.unit = u
                 \/ rows[u].status \notin {"none", "pending"}

\* The head's result is what its row will say.
HeadResult ==
    /\ pc \in BoundaryPcs =>
         /\ result.row.status \in {"succeeded", "failed", "canceled"}
         /\ result.row.status = "canceled" => canceled
    /\ pc = "settle" => rows[cursor] = result.row /\ position = NextPosition(cursor)
    /\ pc \in LoopPcs => position = cursor \/ (cursor = 1 /\ position = 0)
    /\ pc \in {"queued", "verify"} => position = 0

Synced ==
    /\ SyncDisclosed
    /\ result.row.synced => result.unit \in inventory

\* Once the workers were awaited no stop is recorded any more, and the verdict
\* was reached from the one there is.
Decided ==
    /\ pc \in LeavingPcs \ {"join"} =>
         /\ queue = <<>>
         /\ \A t \in Task : phase[t] \notin {"encoding", "refused", "reporting"}
         /\ stop # NoStop => verdict.status = "failed"
    /\ ending = "head" => verdict.status = "failed"
    /\ Alive /\ verdict.code = "persist" => ending = "head"

RowsInv ==
    /\ Undecided /\ PastEncoded /\ NothingBehind
    /\ FrozenOrder /\ Settled /\ HeadResult /\ Synced /\ Decided

-----------------------------------------------------------------------------
\* A queued session has decided and written nothing.
LEMMA RowsInit == Init => RowsInv
<1> SUFFICES ASSUME Init PROVE RowsInv
  OBVIOUS
<1>1. Undecided
  BY DEF Init, Undecided, Verdict
<1>2. PastEncoded
  BY TaskFacts, SessionAssumption DEF Init, PastEncoded, BoundaryPcs, Unit
<1>3. NothingBehind
  BY Kinds DEF Init, NothingBehind
<1>4. FrozenOrder /\ Settled
  BY SessionAssumption DEF Init, FrozenOrder, Settled, Unit
<1>5. HeadResult
  BY DEF Init, HeadResult, LoopPcs, BoundaryPcs
<1>6. Synced
  BY DEF Init, Synced, SyncDisclosed, NoResult, NoRow, Row
<1>7. Decided
  BY DEF Init, Decided, LeavingPcs, Verdict
<1> QED BY <1>1, <1>2, <1>3, <1>4, <1>5, <1>6, <1>7 DEF RowsInv

\* The fields of the records the actions build, and what the stop pending now is.
LEMMA RecordFields ==
    /\ \A s, c, u : Verdict(s, c, u).status = s /\ Verdict(s, c, u).code = c
                    /\ Verdict(s, c, u).unit = u
    /\ \A st, b : Row(st, b).status = st /\ Row(st, b).synced = b
    /\ \A u, at : Stop(u, at).unit = u /\ Stop(u, at).at = at
    /\ NoStop.unit = 0 /\ CancelStop.unit = 0 /\ CancelStop # NoStop
    /\ StopNow = NoStop => stop = NoStop /\ ~canceled
    /\ StopNow # NoStop => StopNow = stop \/ (stop = NoStop /\ StopNow.unit = 0)
    /\ StopNow # NoStop => stop # NoStop \/ canceled
<1>1. /\ \A s, c, u : Verdict(s, c, u).status = s /\ Verdict(s, c, u).code = c
                      /\ Verdict(s, c, u).unit = u
      /\ \A st, b : Row(st, b).status = st /\ Row(st, b).synced = b
      /\ \A u, at : Stop(u, at).unit = u /\ Stop(u, at).at = at
  BY DEF Verdict, Row, Stop
<1>2. NoStop.unit = 0 /\ CancelStop.unit = 0 /\ CancelStop # NoStop
  BY DEF NoStop, CancelStop, Stop
<1> QED BY <1>1, <1>2 DEF StopNow

\* The types and shapes the cases below start from.
LEMMA RowsFacts ==
    ASSUME Shape, Bookkeeping
    PROVE  /\ cursor \in Nat \ {0} /\ next \in Nat \ {0}
           /\ open \in Seq(Unit) /\ Len(open) \in Nat
           /\ \A i \in 1 .. Len(open) : open[i] \in Unit
           /\ \A u \in Unit : u \in Nat \ {0} /\ u <= NumUnits
           /\ \A t \in Task : t[1] \in Unit
           /\ phase \in [Task -> PhaseValues] /\ rows \in [Unit -> RowType]
           /\ disk \in [Unit -> {"untouched", "partial", "landed"}]
           /\ stop \in StopType /\ observed \in StopType
           /\ observed.unit \in Unit \cup {0}
           /\ canceled \in BOOLEAN /\ inventory \in SUBSET Unit
           /\ NumUnits \in Nat
<1>1. CoordinatorType /\ PoolType /\ FilesType /\ DbType
  BY DEF Shape, TypeOK
<1>2. \A u \in Unit : u \in Nat \ {0} /\ u <= NumUnits
  BY SessionAssumption DEF Unit
<1>3. /\ open \in Seq(Unit) /\ Len(open) \in Nat
      /\ \A i \in 1 .. Len(open) : open[i] \in Unit
  BY <1>1 DEF CoordinatorType
<1>4. \A s \in StopType : s.unit \in Unit \cup {0}
  BY Kinds
<1>5. cursor \in Nat \ {0} /\ next \in Nat \ {0} /\ observed \in StopType
  BY <1>1 DEF CoordinatorType
<1>6. phase \in [Task -> PhaseValues] /\ stop \in StopType /\ canceled \in BOOLEAN
  BY <1>1 DEF PoolType
<1>7. /\ rows \in [Unit -> RowType] /\ inventory \in SUBSET Unit
      /\ disk \in [Unit -> {"untouched", "partial", "landed"}]
  BY <1>1 DEF FilesType, DbType
<1> QED
  BY <1>2, <1>3, <1>4, <1>5, <1>6, <1>7, TaskFacts, SessionAssumption

\* Every step of the coordinator, of a worker or from outside preserves RowsInv:
\* one case per action, and in it one step per conjunct.
LEMMA RowsNext == Shape /\ Bookkeeping /\ RowsInv /\ [Next]_vars => RowsInv'
<1> SUFFICES ASSUME Shape, Bookkeeping, RowsInv, [Next]_vars PROVE RowsInv'
  OBVIOUS
<1>a. /\ Undecided /\ PastEncoded /\ NothingBehind /\ FrozenOrder /\ Settled
      /\ HeadResult /\ Synced /\ Decided
      /\ InLoop /\ AtBoundary /\ Outside /\ Permit
  BY DEF RowsInv, Shape, Bookkeeping
<1>b. /\ cursor \in Nat \ {0} /\ next \in Nat \ {0}
      /\ open \in Seq(Unit) /\ Len(open) \in Nat
      /\ \A i \in 1 .. Len(open) : open[i] \in Unit
      /\ \A u \in Unit : u \in Nat \ {0} /\ u <= NumUnits
      /\ \A t \in Task : t[1] \in Unit
      /\ phase \in [Task -> PhaseValues] /\ rows \in [Unit -> RowType]
      /\ disk \in [Unit -> {"untouched", "partial", "landed"}]
      /\ stop \in StopType /\ observed \in StopType
      /\ observed.unit \in Unit \cup {0}
      /\ canceled \in BOOLEAN /\ inventory \in SUBSET Unit
      /\ NumUnits \in Nat
  BY RowsFacts
<1>f. /\ \A s, c, u : Verdict(s, c, u).status = s /\ Verdict(s, c, u).code = c
                      /\ Verdict(s, c, u).unit = u
      /\ \A st, b : Row(st, b).status = st /\ Row(st, b).synced = b
      /\ \A u, at : Stop(u, at).unit = u /\ Stop(u, at).at = at
      /\ NoStop.unit = 0 /\ CancelStop.unit = 0 /\ CancelStop # NoStop
      /\ StopNow = NoStop => stop = NoStop /\ ~canceled
      /\ StopNow # NoStop => StopNow = stop \/ (stop = NoStop /\ StopNow.unit = 0)
  BY RecordFields
<1>1. CASE Claim
  <2>1. Undecided'
    BY <1>a, <1>b, <1>f, <1>1 DEF Claim, Goto, pool, trackers, loop, exit,
       files, Undecided, LoopPcs, BoundaryPcs
  <2>2. PastEncoded'
    BY <1>a, <1>b, <1>1 DEF Claim, Goto, pool, trackers, loop, exit, files,
       PastEncoded, BoundaryPcs, Alive
  <2>3. NothingBehind'
    BY <1>a, <1>b, <1>f, <1>1 DEF Claim, Goto, pool, trackers, loop, exit,
       files, NothingBehind, Alive, Undecided, LoopPcs, BoundaryPcs
  <2>4. FrozenOrder'
    BY <1>a, <1>b, <1>1 DEF Claim, Goto, pool, trackers, loop, exit, files,
       FrozenOrder, Alive, Settled
  <2>5. Settled'
    BY <1>a, <1>b, <1>1 DEF Claim, Goto, pool, trackers, loop, exit, files,
       Settled, Alive, LoopPcs
  <2>6. HeadResult'
    BY <1>a, <1>b, <1>f, <1>1 DEF Claim, Goto, pool, trackers, loop, exit,
       files, HeadResult, LoopPcs, BoundaryPcs
  <2>7. Synced'
    BY <1>a, <1>b, <1>f, <1>1 DEF Claim, Goto, pool, trackers, loop, exit,
       files, Synced, SyncDisclosed
  <2>8. Decided'
    BY <1>a, <1>b, <1>f, <1>1 DEF Claim, Goto, pool, trackers, loop, exit,
       files, Decided, LeavingPcs, Alive, Undecided, LoopPcs, BoundaryPcs
  <2> QED BY <2>1, <2>2, <2>3, <2>4, <2>5, <2>6, <2>7, <2>8 DEF RowsInv
<1>2. CASE VerifyInputs
  <2>1. Undecided'
    BY <1>a, <1>b, <1>f, <1>2 DEF VerifyInputs, Goto, EndWith, pool, trackers,
       loop, exit, files, db, Undecided, LoopPcs, BoundaryPcs
  <2>2. PastEncoded'
    BY <1>a, <1>b, <1>2 DEF VerifyInputs, Goto, EndWith, pool, trackers, loop,
       exit, files, db, PastEncoded, BoundaryPcs, Alive
  <2>3. NothingBehind'
    BY <1>a, <1>b, <1>f, <1>2 DEF VerifyInputs, Goto, EndWith, pool, trackers,
       loop, exit, files, db, NothingBehind, Alive, Undecided, LoopPcs,
       BoundaryPcs
  <2>4. FrozenOrder'
    BY <1>a, <1>b, <1>2 DEF VerifyInputs, Goto, EndWith, pool, trackers, loop,
       exit, files, db, FrozenOrder, Alive, Settled
  <2>5. Settled'
    BY <1>a, <1>b, <1>2 DEF VerifyInputs, Goto, EndWith, pool, trackers, loop,
       exit, files, db, Settled, Alive, LoopPcs
  <2>6. HeadResult'
    BY <1>a, <1>2 DEF VerifyInputs, Goto, EndWith, HeadResult, LoopPcs, BoundaryPcs,
       Outside, db, loop
  <2>7. Synced'
    BY <1>a, <1>b, <1>f, <1>2 DEF VerifyInputs, Goto, EndWith, pool, trackers,
       loop, exit, files, db, Synced, SyncDisclosed
  <2>8. Decided'
    BY <1>a, <1>b, <1>f, <1>2 DEF VerifyInputs, Goto, EndWith, pool, trackers,
       loop, exit, files, db, Decided, LeavingPcs, Alive, Undecided, LoopPcs,
       BoundaryPcs
  <2> QED BY <2>1, <2>2, <2>3, <2>4, <2>5, <2>6, <2>7, <2>8 DEF RowsInv
<1>3. CASE LoopTop
  <2>1. Undecided'
    BY <1>a, <1>b, <1>f, <1>3 DEF LoopTop, Goto, Teardown, loop, exit, pool,
       trackers, files, Undecided, LoopPcs, BoundaryPcs
  <2>2. PastEncoded'
    BY <1>a, <1>b, <1>3 DEF LoopTop, Goto, Teardown, loop, exit, pool,
       trackers, files, PastEncoded, BoundaryPcs, Alive
  <2>3. NothingBehind'
    BY <1>a, <1>b, <1>f, <1>3 DEF LoopTop, Goto, Teardown, loop, exit, pool,
       trackers, files, NothingBehind, Alive, Undecided, LoopPcs, BoundaryPcs
  <2>4. FrozenOrder'
    BY <1>a, <1>b, <1>3 DEF LoopTop, Goto, Teardown, loop, exit, pool,
       trackers, files, FrozenOrder, Alive, Settled
  <2>5. Settled'
    BY <1>a, <1>b, <1>3 DEF LoopTop, Goto, Teardown, loop, exit, pool,
       trackers, files, Settled, Alive, LoopPcs
  <2>6. HeadResult'
    BY <1>a, <1>b, <1>f, <1>3 DEF LoopTop, Goto, Teardown, loop, exit, pool,
       trackers, files, HeadResult, LoopPcs, BoundaryPcs
  <2>7. Synced'
    BY <1>a, <1>b, <1>f, <1>3 DEF LoopTop, Goto, Teardown, loop, exit, pool,
       trackers, files, Synced, SyncDisclosed
  <2>8. Decided'
    BY <1>a, <1>b, <1>f, <1>3 DEF LoopTop, Goto, Teardown, loop, exit, pool,
       trackers, files, Decided, LeavingPcs, Alive, Undecided, LoopPcs,
       BoundaryPcs
  <2> QED BY <2>1, <2>2, <2>3, <2>4, <2>5, <2>6, <2>7, <2>8 DEF RowsInv
<1>4. CASE PrepareUnit
  <2>1. Undecided'
    BY <1>a, <1>b, <1>f, <1>4 DEF PrepareUnit, Goto, Teardown, RequestStop,
       files, db, trackers, Undecided, LoopPcs, BoundaryPcs
  <2>2. PastEncoded'
    BY <1>a, <1>b, <1>4 DEF PrepareUnit, Goto, Teardown, RequestStop, files,
       db, trackers, PastEncoded, BoundaryPcs, Alive
  <2>3. NothingBehind'
    <3>1. /\ next \in Unit /\ next >= cursor /\ UNCHANGED cursor
          /\ pc = "fill" /\ observed = NoStop /\ ending = "none"
          /\ \A i \in 1 .. Len(open) : open[i] >= cursor
          /\ stop # NoStop => stop.unit \in Unit /\ stop.unit >= cursor
      BY <1>a, <1>b, <1>4 DEF PrepareUnit, InLoop, LoopPcs, Unit, NothingBehind,
         Alive, Undecided
    <3>2. CASE open' = Append(open, next) /\ UNCHANGED <<observed, ending, stop, canceled>>
      <4>1. \A i \in 1 .. Len(open') : open'[i] >= cursor
        BY <1>b, <3>1, <3>2, AppendFacts
      <4> QED BY <1>f, <3>1, <3>2, <4>1 DEF NothingBehind
    <3>3. CASE Teardown(CancelStop, "stop") /\ UNCHANGED <<open, stop>>
      BY <1>f, <3>1, <3>3 DEF NothingBehind, Teardown
    <3>4. CASE /\ RequestStop(Stop(next, "prepare"))
               /\ Teardown(Stop(next, "prepare"), "stop")
               /\ UNCHANGED open
      BY <1>f, <3>1, <3>4 DEF NothingBehind, Teardown, RequestStop
    <3> QED BY <1>4, <3>2, <3>3, <3>4 DEF PrepareUnit
  <2>4. FrozenOrder'
    BY <1>a, <1>b, <1>4 DEF PrepareUnit, Goto, Teardown, RequestStop, files,
       db, trackers, FrozenOrder, Alive, Settled
  <2>5. Settled'
    BY <1>a, <1>b, <1>4 DEF PrepareUnit, Goto, Teardown, RequestStop, files,
       db, trackers, Settled, Alive, LoopPcs
  <2>6. HeadResult'
    BY <1>a, <1>b, <1>f, <1>4 DEF PrepareUnit, Goto, Teardown, RequestStop,
       files, db, trackers, HeadResult, LoopPcs, BoundaryPcs
  <2>7. Synced'
    BY <1>a, <1>b, <1>f, <1>4 DEF PrepareUnit, Goto, Teardown, RequestStop,
       files, db, trackers, Synced, SyncDisclosed
  <2>8. Decided'
    BY <1>a, <1>b, <1>f, <1>4 DEF PrepareUnit, Goto, Teardown, RequestStop,
       files, db, trackers, Decided, LeavingPcs, Alive, Undecided, LoopPcs,
       BoundaryPcs
  <2> QED BY <2>1, <2>2, <2>3, <2>4, <2>5, <2>6, <2>7, <2>8 DEF RowsInv
<1>5. CASE FillEnds
  <2>1. Undecided'
    BY <1>a, <1>b, <1>f, <1>5 DEF FillEnds, Goto, loop, exit, pool, trackers,
       files, db, Undecided, LoopPcs, BoundaryPcs
  <2>2. PastEncoded'
    BY <1>a, <1>b, <1>5 DEF FillEnds, Goto, loop, exit, pool, trackers, files,
       db, PastEncoded, BoundaryPcs, Alive
  <2>3. NothingBehind'
    BY <1>a, <1>b, <1>f, <1>5 DEF FillEnds, Goto, loop, exit, pool, trackers,
       files, db, NothingBehind, Alive, Undecided, LoopPcs, BoundaryPcs
  <2>4. FrozenOrder'
    BY <1>a, <1>b, <1>5 DEF FillEnds, Goto, loop, exit, pool, trackers, files,
       db, FrozenOrder, Alive, Settled
  <2>5. Settled'
    BY <1>a, <1>b, <1>5 DEF FillEnds, Goto, loop, exit, pool, trackers, files,
       db, Settled, Alive, LoopPcs
  <2>6. HeadResult'
    BY <1>a, <1>b, <1>f, <1>5 DEF FillEnds, Goto, loop, exit, pool, trackers,
       files, db, HeadResult, LoopPcs, BoundaryPcs
  <2>7. Synced'
    BY <1>a, <1>b, <1>f, <1>5 DEF FillEnds, Goto, loop, exit, pool, trackers,
       files, db, Synced, SyncDisclosed
  <2>8. Decided'
    BY <1>a, <1>b, <1>f, <1>5 DEF FillEnds, Goto, loop, exit, pool, trackers,
       files, db, Decided, LeavingPcs, Alive, Undecided, LoopPcs, BoundaryPcs
  <2> QED BY <2>1, <2>2, <2>3, <2>4, <2>5, <2>6, <2>7, <2>8 DEF RowsInv
<1>6. CASE SendTask
  <2>1. Undecided'
    BY <1>a, <1>b, <1>f, <1>6 DEF SendTask, Goto, loop, exit, trackers, files,
       db, Undecided, LoopPcs, BoundaryPcs
  <2>2. PastEncoded'
    BY <1>a, <1>b, <1>6 DEF SendTask, Goto, loop, exit, trackers, files, db,
       PastEncoded, BoundaryPcs, Alive
  <2>3. NothingBehind'
    BY <1>a, <1>b, <1>f, <1>6 DEF SendTask, Goto, loop, exit, trackers, files,
       db, NothingBehind, Alive, Undecided, LoopPcs, BoundaryPcs
  <2>4. FrozenOrder'
    BY <1>a, <1>b, <1>6 DEF SendTask, Goto, loop, exit, trackers, files, db,
       FrozenOrder, Alive, Settled
  <2>5. Settled'
    BY <1>a, <1>b, <1>6 DEF SendTask, Goto, loop, exit, trackers, files, db,
       Settled, Alive, LoopPcs
  <2>6. HeadResult'
    BY <1>a, <1>b, <1>f, <1>6 DEF SendTask, Goto, loop, exit, trackers, files,
       db, HeadResult, LoopPcs, BoundaryPcs
  <2>7. Synced'
    BY <1>a, <1>b, <1>f, <1>6 DEF SendTask, Goto, loop, exit, trackers, files,
       db, Synced, SyncDisclosed
  <2>8. Decided'
    BY <1>a, <1>b, <1>f, <1>6 DEF SendTask, Goto, loop, exit, trackers, files,
       db, Decided, LeavingPcs, Alive, Undecided, LoopPcs, BoundaryPcs
  <2> QED BY <2>1, <2>2, <2>3, <2>4, <2>5, <2>6, <2>7, <2>8 DEF RowsInv
<1>7. CASE CountTask
  <2>1. Undecided'
    BY <1>a, <1>b, <1>f, <1>7 DEF CountTask, Goto, exit, files, db, trackers,
       pool, Undecided, LoopPcs, BoundaryPcs
  <2>2. PastEncoded'
    BY <1>a, <1>b, <1>7 DEF CountTask, Goto, exit, files, db, trackers, pool,
       PastEncoded, BoundaryPcs, Alive
  <2>3. NothingBehind'
    BY <1>a, <1>b, <1>f, <1>7 DEF CountTask, Goto, exit, files, db, trackers,
       pool, NothingBehind, Alive, Undecided, LoopPcs, BoundaryPcs
  <2>4. FrozenOrder'
    BY <1>a, <1>b, <1>7 DEF CountTask, Goto, exit, files, db, trackers, pool,
       FrozenOrder, Alive, Settled
  <2>5. Settled'
    BY <1>a, <1>b, <1>7 DEF CountTask, Goto, exit, files, db, trackers, pool,
       Settled, Alive, LoopPcs
  <2>6. HeadResult'
    BY <1>a, <1>b, <1>f, <1>7 DEF CountTask, Goto, exit, files, db, trackers,
       pool, HeadResult, LoopPcs, BoundaryPcs
  <2>7. Synced'
    BY <1>a, <1>b, <1>f, <1>7 DEF CountTask, Goto, exit, files, db, trackers,
       pool, Synced, SyncDisclosed
  <2>8. Decided'
    BY <1>a, <1>b, <1>f, <1>7 DEF CountTask, Goto, exit, files, db, trackers,
       pool, Decided, LeavingPcs, Alive, Undecided, LoopPcs, BoundaryPcs
  <2> QED BY <2>1, <2>2, <2>3, <2>4, <2>5, <2>6, <2>7, <2>8 DEF RowsInv
<1>8. CASE AbortDelivery
  <2>1. Undecided'
    BY <1>a, <1>b, <1>f, <1>8 DEF AbortDelivery, Goto, Teardown, loop, exit,
       trackers, files, db, Undecided, LoopPcs, BoundaryPcs
  <2>2. PastEncoded'
    BY <1>a, <1>b, <1>8 DEF AbortDelivery, Goto, Teardown, loop, exit,
       trackers, files, db, PastEncoded, BoundaryPcs, Alive
  <2>3. NothingBehind'
    BY <1>a, <1>b, <1>f, <1>8 DEF AbortDelivery, Goto, Teardown, loop, exit,
       trackers, files, db, NothingBehind, Alive, Undecided, LoopPcs,
       BoundaryPcs
  <2>4. FrozenOrder'
    BY <1>a, <1>b, <1>8 DEF AbortDelivery, Goto, Teardown, loop, exit,
       trackers, files, db, FrozenOrder, Alive, Settled
  <2>5. Settled'
    BY <1>a, <1>b, <1>8 DEF AbortDelivery, Goto, Teardown, loop, exit,
       trackers, files, db, Settled, Alive, LoopPcs
  <2>6. HeadResult'
    BY <1>a, <1>b, <1>f, <1>8 DEF AbortDelivery, Goto, Teardown, loop, exit,
       trackers, files, db, HeadResult, LoopPcs, BoundaryPcs
  <2>7. Synced'
    BY <1>a, <1>b, <1>f, <1>8 DEF AbortDelivery, Goto, Teardown, loop, exit,
       trackers, files, db, Synced, SyncDisclosed
  <2>8. Decided'
    BY <1>a, <1>b, <1>f, <1>8 DEF AbortDelivery, Goto, Teardown, loop, exit,
       trackers, files, db, Decided, LeavingPcs, Alive, Undecided, LoopPcs,
       BoundaryPcs
  <2> QED BY <2>1, <2>2, <2>3, <2>4, <2>5, <2>6, <2>7, <2>8 DEF RowsInv
<1>9. CASE EndDelivery
  <2>1. Undecided'
    BY <1>a, <1>b, <1>f, <1>9 DEF EndDelivery, Goto, exit, files, db,
       Undecided, LoopPcs, BoundaryPcs
  <2>2. PastEncoded'
    BY <1>a, <1>b, <1>9 DEF EndDelivery, Goto, exit, files, db, PastEncoded,
       BoundaryPcs, Alive
  <2>3. NothingBehind'
    BY <1>a, <1>b, <1>f, <1>9 DEF EndDelivery, Goto, exit, files, db,
       NothingBehind, Alive, Undecided, LoopPcs, BoundaryPcs
  <2>4. FrozenOrder'
    BY <1>a, <1>b, <1>9 DEF EndDelivery, Goto, exit, files, db, FrozenOrder,
       Alive, Settled
  <2>5. Settled'
    BY <1>a, <1>b, <1>9 DEF EndDelivery, Goto, exit, files, db, Settled,
       Alive, LoopPcs
  <2>6. HeadResult'
    BY <1>a, <1>b, <1>f, <1>9 DEF EndDelivery, Goto, exit, files, db,
       HeadResult, LoopPcs, BoundaryPcs
  <2>7. Synced'
    BY <1>a, <1>b, <1>f, <1>9 DEF EndDelivery, Goto, exit, files, db, Synced,
       SyncDisclosed
  <2>8. Decided'
    BY <1>a, <1>b, <1>f, <1>9 DEF EndDelivery, Goto, exit, files, db, Decided,
       LeavingPcs, Alive, Undecided, LoopPcs, BoundaryPcs
  <2> QED BY <2>1, <2>2, <2>3, <2>4, <2>5, <2>6, <2>7, <2>8 DEF RowsInv
<1>10. CASE WaitHead
  <2>1. Undecided'
    BY <1>a, <1>b, <1>f, <1>10 DEF WaitHead, Goto, loop, exit, pool, trackers,
       files, db, Undecided, LoopPcs, BoundaryPcs
  <2>2. PastEncoded'
    BY <1>a, <1>b, <1>10 DEF WaitHead, Goto, loop, exit, pool, trackers,
       files, db, PastEncoded, BoundaryPcs, Alive
  <2>3. NothingBehind'
    BY <1>a, <1>b, <1>f, <1>10 DEF WaitHead, Goto, loop, exit, pool, trackers,
       files, db, NothingBehind, Alive, Undecided, LoopPcs, BoundaryPcs
  <2>4. FrozenOrder'
    BY <1>a, <1>b, <1>10 DEF WaitHead, Goto, loop, exit, pool, trackers,
       files, db, FrozenOrder, Alive, Settled
  <2>5. Settled'
    BY <1>a, <1>b, <1>10 DEF WaitHead, Goto, loop, exit, pool, trackers,
       files, db, Settled, Alive, LoopPcs
  <2>6. HeadResult'
    BY <1>a, <1>b, <1>f, <1>10 DEF WaitHead, Goto, loop, exit, pool, trackers,
       files, db, HeadResult, LoopPcs, BoundaryPcs
  <2>7. Synced'
    BY <1>a, <1>b, <1>f, <1>10 DEF WaitHead, Goto, loop, exit, pool, trackers,
       files, db, Synced, SyncDisclosed
  <2>8. Decided'
    BY <1>a, <1>b, <1>f, <1>10 DEF WaitHead, Goto, loop, exit, pool, trackers,
       files, db, Decided, LeavingPcs, Alive, Undecided, LoopPcs, BoundaryPcs
  <2> QED BY <2>1, <2>2, <2>3, <2>4, <2>5, <2>6, <2>7, <2>8 DEF RowsInv
<1>11. CASE CheckHead
  <2>1. Undecided'
    BY <1>a, <1>b, <1>f, <1>11 DEF CheckHead, Goto, Teardown, loop, trackers,
       files, db, Undecided, LoopPcs, BoundaryPcs
  <2>2. PastEncoded'
    BY <1>a, <1>b, <1>11 DEF CheckHead, Goto, Teardown, loop, trackers, files,
       db, PastEncoded, BoundaryPcs, Alive
  <2>3. NothingBehind'
    BY <1>a, <1>b, <1>f, <1>11 DEF CheckHead, Goto, Teardown, loop, trackers,
       files, db, NothingBehind, Alive, Undecided, LoopPcs, BoundaryPcs
  <2>4. FrozenOrder'
    BY <1>a, <1>b, <1>11 DEF CheckHead, Goto, Teardown, loop, trackers, files,
       db, FrozenOrder, Alive, Settled
  <2>5. Settled'
    BY <1>a, <1>b, <1>11 DEF CheckHead, Goto, Teardown, loop, trackers, files,
       db, Settled, Alive, LoopPcs
  <2>6. HeadResult'
    BY <1>a, <1>b, <1>f, <1>11 DEF CheckHead, Goto, Teardown, loop, trackers,
       files, db, HeadResult, LoopPcs, BoundaryPcs
  <2>7. Synced'
    BY <1>a, <1>b, <1>f, <1>11 DEF CheckHead, Goto, Teardown, loop, trackers,
       files, db, Synced, SyncDisclosed
  <2>8. Decided'
    BY <1>a, <1>b, <1>f, <1>11 DEF CheckHead, Goto, Teardown, loop, trackers,
       files, db, Decided, LeavingPcs, Alive, Undecided, LoopPcs, BoundaryPcs
  <2> QED BY <2>1, <2>2, <2>3, <2>4, <2>5, <2>6, <2>7, <2>8 DEF RowsInv
<1>12. CASE AdmitCommit
  <2>1. Undecided'
    BY <1>a, <1>b, <1>f, <1>12 DEF AdmitCommit, Goto, Teardown, loop,
       trackers, files, db, Undecided, LoopPcs, BoundaryPcs
  <2>2. PastEncoded'
    BY <1>a, <1>b, <1>12 DEF AdmitCommit, Goto, Teardown, loop, trackers,
       files, db, PastEncoded, BoundaryPcs, Alive
  <2>3. NothingBehind'
    BY <1>a, <1>b, <1>f, <1>12 DEF AdmitCommit, Goto, Teardown, loop,
       trackers, files, db, NothingBehind, Alive, Undecided, LoopPcs,
       BoundaryPcs
  <2>4. FrozenOrder'
    BY <1>a, <1>b, <1>12 DEF AdmitCommit, Goto, Teardown, loop, trackers,
       files, db, FrozenOrder, Alive, Settled
  <2>5. Settled'
    BY <1>a, <1>b, <1>12 DEF AdmitCommit, Goto, Teardown, loop, trackers,
       files, db, Settled, Alive, LoopPcs
  <2>6. HeadResult'
    BY <1>a, <1>b, <1>f, <1>12 DEF AdmitCommit, Goto, Teardown, loop,
       trackers, files, db, HeadResult, LoopPcs, BoundaryPcs
  <2>7. Synced'
    BY <1>a, <1>b, <1>f, <1>12 DEF AdmitCommit, Goto, Teardown, loop,
       trackers, files, db, Synced, SyncDisclosed
  <2>8. Decided'
    BY <1>a, <1>b, <1>f, <1>12 DEF AdmitCommit, Goto, Teardown, loop,
       trackers, files, db, Decided, LeavingPcs, Alive, Undecided, LoopPcs,
       BoundaryPcs
  <2> QED BY <2>1, <2>2, <2>3, <2>4, <2>5, <2>6, <2>7, <2>8 DEF RowsInv
<1>13. CASE CommitReturns
  <2>a. PICK status \in {"succeeded", "failed"}
                          \cup (IF canceled THEN {"canceled"} ELSE {}) :
          result' = [unit |-> Head(open), row |-> Row(status, FALSE)]
    BY <1>13 DEF CommitReturns
  <2>1. Undecided'
    BY <1>a, <1>b, <1>f, <1>13 DEF CommitReturns, Goto, exit, pool, trackers,
       db, Undecided, LoopPcs, BoundaryPcs
  <2>2. PastEncoded'
    <3> SUFFICES ASSUME NEW t \in Task, t[1] <= cursor PROVE phase[t] = "encoded"
      BY <1>a, <1>b, <1>13 DEF CommitReturns, Goto, PastEncoded, BoundaryPcs, LoopPcs,
         Undecided, Alive, exit, pool
    <3>1. CASE t[1] < cursor
      BY <1>a, <1>13, <3>1 DEF CommitReturns, PastEncoded, Alive
    <3>2. CASE t[1] = cursor
      <4>1. Head(open) = cursor
        BY <1>a, <1>b, <1>13 DEF CommitReturns, InLoop, LoopPcs
      <4>2. t \in TasksOf(Head(open))
        BY <3>2, <4>1, TaskFacts DEF TasksOf
      <4> QED BY <1>a, <1>13, <4>2 DEF CommitReturns, Permit
    <3> QED BY <1>b, <3>1, <3>2
  <2>3. NothingBehind'
    BY <1>a, <1>b, <1>f, <1>13 DEF CommitReturns, Goto, exit, pool, trackers,
       db, NothingBehind, Alive, Undecided, LoopPcs, BoundaryPcs
  <2>4. FrozenOrder'
    <3>1. /\ Head(open) = cursor /\ cursor \in Unit
          /\ \A v \in Unit : v # cursor => disk'[v] = disk[v]
          /\ UNCHANGED <<cursor, rows>>
      BY <1>a, <1>b, <1>13 DEF CommitReturns, InLoop, LoopPcs, Unit, db
    <3>2. /\ \A v \in Unit : v < cursor => rows[v].status = "succeeded"
          /\ \A v \in Unit : v > cursor => disk[v] = "untouched"
      BY <1>a, <1>13 DEF CommitReturns, Settled, Alive
    <3>3. ASSUME NEW u \in Unit, disk'[u] # "untouched", NEW v \in 1 .. u - 1
          PROVE  v \in Unit /\ v < cursor
      BY <1>b, <3>1, <3>2, <3>3 DEF Unit
    <3> QED BY <3>1, <3>2, <3>3 DEF FrozenOrder
  <2>5. Settled'
    <3>1. /\ Head(open) = cursor /\ cursor \in Unit
          /\ \A v \in Unit : v # cursor => disk'[v] = disk[v]
          /\ UNCHANGED <<cursor, rows>>
      BY <1>a, <1>b, <1>13 DEF CommitReturns, InLoop, LoopPcs, Unit, db
    <3>2. /\ open # <<>> /\ open' = Tail(open) /\ pc = "commit" /\ pc' = "sync"
          /\ \A i \in 1 .. Len(open) : open[i] + 1 = cursor + i
      BY <1>a, <1>13 DEF CommitReturns, Goto, InLoop, LoopPcs
    <3>3. \A i \in 1 .. Len(open') : open'[i] # cursor
      BY <1>b, <3>2, TailFacts
    <3> QED BY <1>a, <1>b, <3>1, <3>2, <3>3 DEF Settled, Alive, LoopPcs
  <2>6. HeadResult'
    <3>2. result'.row.status = status
      BY <1>f, <2>a
    <3>3. pc' = "sync" /\ UNCHANGED canceled
      BY <1>13 DEF CommitReturns, Goto, pool
    <3> QED BY <2>a, <3>2, <3>3 DEF HeadResult, LoopPcs, BoundaryPcs
  <2>7. Synced'
    <3>2. ~result'.row.synced /\ UNCHANGED <<rows, inventory>>
      BY <2>a, <1>13 DEF CommitReturns, Row, db
    <3> QED BY <1>a, <3>2 DEF Synced, SyncDisclosed
  <2>8. Decided'
    BY <1>a, <1>b, <1>f, <1>13 DEF CommitReturns, Goto, exit, pool, trackers,
       db, Decided, LeavingPcs, Alive, Undecided, LoopPcs, BoundaryPcs
  <2> QED BY <2>1, <2>2, <2>3, <2>4, <2>5, <2>6, <2>7, <2>8 DEF RowsInv
<1>14. CASE SyncInventory
  <2>a. /\ result \in [unit : Unit \cup {0}, row : RowType]
        /\ pc = "sync" /\ pc' = "record"
        /\ UNCHANGED <<canceled, rows, position>>
    BY <1>14 DEF SyncInventory, Goto, pool, Shape, TypeOK, CoordinatorType
  <2>b. \/ UNCHANGED <<result, inventory>>
        \/ /\ result' = [result EXCEPT !.row.synced = TRUE]
           /\ inventory' = inventory \cup {result.unit}
    BY <1>14 DEF SyncInventory
  <2>c. /\ result'.row.status = result.row.status /\ result'.unit = result.unit
        /\ result'.row.synced =>
               result.row.synced \/ inventory' = inventory \cup {result.unit}
    BY <2>a, <2>b DEF RowType
  <2>1. Undecided'
    BY <1>a, <1>b, <1>f, <1>14 DEF SyncInventory, Goto, exit, pool, trackers,
       files, Undecided, LoopPcs, BoundaryPcs
  <2>2. PastEncoded'
    BY <1>a, <1>b, <1>14 DEF SyncInventory, Goto, exit, pool, trackers, files,
       PastEncoded, BoundaryPcs, Alive
  <2>3. NothingBehind'
    BY <1>a, <1>b, <1>f, <1>14 DEF SyncInventory, Goto, exit, pool, trackers,
       files, NothingBehind, Alive, Undecided, LoopPcs, BoundaryPcs
  <2>4. FrozenOrder'
    BY <1>a, <1>b, <1>14 DEF SyncInventory, Goto, exit, pool, trackers, files,
       FrozenOrder, Alive, Settled
  <2>5. Settled'
    BY <1>a, <1>b, <1>14 DEF SyncInventory, Goto, exit, pool, trackers, files,
       Settled, Alive, LoopPcs
  <2>6. HeadResult'
    <3> QED BY <1>a, <2>a, <2>c DEF HeadResult, LoopPcs, BoundaryPcs
  <2>7. Synced'
    <3> QED BY <1>a, <2>a, <2>b, <2>c DEF Synced, SyncDisclosed
  <2>8. Decided'
    BY <1>a, <1>b, <1>f, <1>14 DEF SyncInventory, Goto, exit, pool, trackers,
       files, Decided, LeavingPcs, Alive, Undecided, LoopPcs, BoundaryPcs
  <2> QED BY <2>1, <2>2, <2>3, <2>4, <2>5, <2>6, <2>7, <2>8 DEF RowsInv
<1>15. CASE RecordHead
  <2>1. Undecided'
    BY <1>a, <1>b, <1>f, <1>15 DEF RecordHead, Goto, Teardown, SaveResult,
       loop, trackers, files, Undecided, LoopPcs, BoundaryPcs
  <2>2. PastEncoded'
    BY <1>a, <1>b, <1>15 DEF RecordHead, Goto, Teardown, SaveResult, loop,
       trackers, files, PastEncoded, BoundaryPcs, Alive
  <2>3. NothingBehind'
    BY <1>a, <1>b, <1>f, <1>15 DEF RecordHead, Goto, Teardown, SaveResult,
       loop, trackers, files, NothingBehind, Alive, Undecided, LoopPcs,
       BoundaryPcs
  <2>4. FrozenOrder'
    <3>1. /\ cursor \in Unit /\ result.unit = cursor /\ pc = "record"
          /\ UNCHANGED <<cursor, disk, open, result>>
          /\ result.row.status \in {"succeeded", "failed", "canceled"}
      BY <1>a, <1>b, <1>15 DEF RecordHead, AtBoundary, BoundaryPcs, Unit, HeadResult,
         files, loop
    <3>2. CASE UNCHANGED rows
      BY <1>a, <3>1, <3>2 DEF FrozenOrder
    <3>3. CASE rows' = [rows EXCEPT ![cursor] = result.row]
      <4>1. \A v \in Unit : rows'[v] = IF v = cursor THEN result.row ELSE rows[v]
        BY <1>b, <3>1, <3>3
      <4>2. \A v \in Unit : v > cursor => disk[v] = "untouched"
        BY <1>a, <3>1 DEF Settled, Alive
      <4>3. ASSUME NEW u \in Unit, disk[u] # "untouched", NEW v \in 1 .. u - 1
            PROVE  rows'[v].status = "succeeded"
        <5>1. v \in Unit /\ v # cursor
          BY <1>b, <3>1, <4>2, <4>3 DEF Unit
        <5> QED BY <1>a, <4>1, <4>3, <5>1 DEF FrozenOrder
      <4> QED BY <3>1, <4>3 DEF FrozenOrder
    <3> QED BY <3>1, <3>2, <3>3, <1>15 DEF RecordHead, SaveResult
  <2>5. Settled'
    <3>1. /\ cursor \in Unit /\ result.unit = cursor /\ pc = "record"
          /\ UNCHANGED <<cursor, disk, open, result>>
          /\ result.row.status \in {"succeeded", "failed", "canceled"}
          /\ \A i \in 1 .. Len(open) : open[i] # cursor
      BY <1>a, <1>b, <1>15 DEF RecordHead, AtBoundary, BoundaryPcs, Unit, HeadResult,
         files, loop
    <3>2. CASE /\ rows' = rows /\ pc' = "join"
               /\ verdict' = Verdict("failed", "persist", cursor)
      BY <1>a, <1>f, <3>1, <3>2 DEF Settled, Alive, LoopPcs
    <3>3. CASE rows' = [rows EXCEPT ![cursor] = result.row] /\ pc' = "settle"
      <4>1. \A v \in Unit : rows'[v] = IF v = cursor THEN result.row ELSE rows[v]
        BY <1>b, <3>1, <3>3
      <4> QED BY <1>a, <1>b, <3>1, <3>3, <4>1 DEF Settled, Alive, LoopPcs
    <3> QED BY <3>1, <3>2, <3>3, <1>15 DEF RecordHead, SaveResult, Goto, Teardown
  <2>6. HeadResult'
    <3>1. /\ cursor \in Unit /\ result.unit = cursor /\ pc = "record"
          /\ UNCHANGED <<cursor, result>>
      BY <1>a, <1>b, <1>15 DEF RecordHead, AtBoundary, BoundaryPcs, Unit, loop
    <3>2. CASE pc' = "join"
      BY <3>2 DEF HeadResult, LoopPcs, BoundaryPcs
    <3>3. CASE /\ SaveResult(result.unit, result.row, NextPosition(cursor))
               /\ pc' = "settle" /\ UNCHANGED canceled
      <4>1. rows'[cursor] = result.row /\ position' = NextPosition(cursor)
        BY <1>b, <3>1, <3>3 DEF SaveResult
      <4>2. NextPosition(cursor)' = NextPosition(cursor)
        BY <3>1 DEF NextPosition
      <4> QED BY <1>a, <3>1, <3>3, <4>1, <4>2 DEF HeadResult, LoopPcs, BoundaryPcs
    <3> QED BY <1>15, <3>2, <3>3 DEF RecordHead, Goto, Teardown
  <2>7. Synced'
    BY <1>a, <1>b, <1>f, <1>15 DEF RecordHead, Goto, Teardown, SaveResult,
       loop, trackers, files, Synced, SyncDisclosed
  <2>8. Decided'
    BY <1>a, <1>b, <1>f, <1>15 DEF RecordHead, Goto, Teardown, SaveResult,
       loop, trackers, files, Decided, LeavingPcs, Alive, Undecided, LoopPcs,
       BoundaryPcs
  <2> QED BY <2>1, <2>2, <2>3, <2>4, <2>5, <2>6, <2>7, <2>8 DEF RowsInv
<1>16. CASE SettleHead
  <2>1. Undecided'
    BY <1>a, <1>b, <1>f, <1>16 DEF SettleHead, Goto, Teardown, RequestStop,
       trackers, files, db, Undecided, LoopPcs, BoundaryPcs
  <2>2. PastEncoded'
    BY <1>a, <1>b, <1>16 DEF SettleHead, Goto, Teardown, RequestStop,
       trackers, files, db, PastEncoded, BoundaryPcs, Alive
  <2>3. NothingBehind'
    <3>1. /\ cursor \in Unit /\ result.unit = cursor /\ pc = "settle" /\ open' = open
          /\ observed = NoStop /\ ending = "none"
          /\ \A i \in 1 .. Len(open) : open[i] = cursor + i
          /\ stop # NoStop => stop.unit \in Unit /\ stop.unit >= cursor
      BY <1>a, <1>b, <1>16 DEF SettleHead, AtBoundary, BoundaryPcs, Unit, Undecided,
         NothingBehind, Alive
    <3>2. CASE /\ RequestStop(Stop(result.unit, "commit")) /\ Teardown(stop', "stop")
               /\ UNCHANGED cursor
      BY <1>b, <1>f, <3>1, <3>2 DEF NothingBehind, Teardown, RequestStop
    <3>3. CASE Teardown(StopNow, "stop") /\ UNCHANGED <<stop, cursor>>
      BY <1>b, <1>f, <3>1, <3>3 DEF NothingBehind, Teardown
    <3>4. CASE StopNow = NoStop /\ Teardown(NoStop, "all") /\ UNCHANGED <<stop, cursor>>
      BY <1>b, <1>f, <3>1, <3>4 DEF NothingBehind, Teardown
    <3>5. CASE /\ StopNow = NoStop /\ cursor' = cursor + 1
               /\ UNCHANGED <<observed, ending, stop>>
      BY <1>b, <1>f, <3>1, <3>5 DEF NothingBehind
    <3> QED BY <1>16, <3>2, <3>3, <3>4, <3>5 DEF SettleHead
  <2>4. FrozenOrder'
    BY <1>a, <1>b, <1>16 DEF SettleHead, Goto, Teardown, RequestStop,
       trackers, files, db, FrozenOrder, Alive, Settled
  <2>5. Settled'
    <3>1. /\ cursor \in Unit /\ result.unit = cursor /\ pc = "settle"
          /\ rows[cursor] = result.row /\ UNCHANGED <<open, disk, rows, verdict>>
          /\ result.row.status \in {"succeeded", "failed", "canceled"}
          /\ result.row.status = "canceled" => canceled
          /\ pc' # "sync" /\ pc' # "record"
      BY <1>a, <1>b, <1>16 DEF SettleHead, AtBoundary, BoundaryPcs, Unit, HeadResult,
         files, db, Goto, Teardown
    <3>2. CASE cursor' = cursor /\ pc' = "join"
      BY <1>a, <1>b, <3>1, <3>2 DEF Settled, Alive, LoopPcs
    <3>3. CASE /\ cursor' = cursor + 1 /\ pc' = "top"
               /\ result.row.status # "failed" /\ StopNow = NoStop
      <4>1. rows[cursor].status = "succeeded"
        BY <1>f, <3>1, <3>3
      <4>2. \A v \in Unit : v < cursor + 1 => v < cursor \/ v = cursor
        BY <1>b
      <4>3. \A v \in Unit : v >= cursor + 1 => v > cursor
        BY <1>b
      <4> QED BY <1>a, <1>b, <3>1, <3>3, <4>1, <4>2, <4>3 DEF Settled, Alive, LoopPcs
    <3> QED BY <1>16, <3>2, <3>3 DEF SettleHead, Goto, Teardown
  <2>6. HeadResult'
    <3>1. /\ pc = "settle" /\ cursor <= NumUnits
          /\ position = NextPosition(cursor) /\ position' = position
      BY <1>a, <1>16 DEF SettleHead, AtBoundary, BoundaryPcs, HeadResult, db
    <3>2. CASE pc' = "join"
      BY <3>2 DEF HeadResult, LoopPcs, BoundaryPcs
    <3>3. CASE cursor # NumUnits /\ cursor' = cursor + 1 /\ pc' = "top"
      <4>1. position' = cursor'
        BY <1>b, <3>1, <3>3 DEF NextPosition
      <4> QED BY <3>3, <4>1 DEF HeadResult, LoopPcs, BoundaryPcs
    <3> QED BY <1>16, <3>2, <3>3 DEF SettleHead, Goto, Teardown
  <2>7. Synced'
    BY <1>a, <1>b, <1>f, <1>16 DEF SettleHead, Goto, Teardown, RequestStop,
       trackers, files, db, Synced, SyncDisclosed
  <2>8. Decided'
    BY <1>a, <1>b, <1>f, <1>16 DEF SettleHead, Goto, Teardown, RequestStop,
       trackers, files, db, Decided, LeavingPcs, Alive, Undecided, LoopPcs,
       BoundaryPcs
  <2> QED BY <2>1, <2>2, <2>3, <2>4, <2>5, <2>6, <2>7, <2>8 DEF RowsInv
<1>17. CASE Join
  <2>a. /\ pc = "join"
        /\ UNCHANGED <<cursor, open, stop, queue, phase, ending, disk, rows>>
        /\ queue = <<>>
        /\ \A t \in Task : phase[t] \notin {"encoding", "refused", "reporting"}
        /\ pc' \in {"discard", "report", "finish"}
    BY <1>17 DEF Join, Drained, Busy, Goto, EndWith, loop, pool, trackers, files, db
  <2>1. Undecided'
    BY <1>a, <1>b, <1>f, <1>17 DEF Join, Goto, EndWith, Drained, Busy, loop,
       pool, trackers, files, db, Undecided, LoopPcs, BoundaryPcs
  <2>2. PastEncoded'
    BY <1>a, <1>b, <1>17 DEF Join, Goto, EndWith, Drained, Busy, loop, pool,
       trackers, files, db, PastEncoded, BoundaryPcs, Alive
  <2>3. NothingBehind'
    <3>2. observed' = observed \/ observed' = FinalStop
      BY <1>17 DEF Join
    <3>3. observed'.unit # 0 => observed'.unit >= cursor
      BY <1>a, <2>a, <3>2 DEF NothingBehind, Alive, FinalStop
    <3> QED BY <1>a, <2>a, <3>3 DEF NothingBehind, Alive
  <2>4. FrozenOrder'
    BY <1>a, <1>b, <1>17 DEF Join, Goto, EndWith, Drained, Busy, loop, pool,
       trackers, files, db, FrozenOrder, Alive, Settled
  <2>5. Settled'
    <3>2. verdict.code = "persist" => verdict' = verdict
      BY <1>a, <2>a, <1>17 DEF Join, Decided, Alive
    <3> QED BY <1>a, <2>a, <3>2 DEF Settled, Alive, LoopPcs
  <2>6. HeadResult'
    BY <1>a, <1>b, <1>f, <1>17 DEF Join, Goto, EndWith, Drained, Busy, loop,
       pool, trackers, files, db, HeadResult, LoopPcs, BoundaryPcs
  <2>7. Synced'
    BY <1>a, <1>b, <1>f, <1>17 DEF Join, Goto, EndWith, Drained, Busy, loop,
       pool, trackers, files, db, Synced, SyncDisclosed
  <2>8. Decided'
    <3>2. CASE ending = "all" /\ verdict' = Verdict("succeeded", "none", 0)
      BY <1>a, <1>f, <2>a, <3>2 DEF Decided, LeavingPcs, Alive, NothingBehind
    <3>3. CASE ending = "head" /\ UNCHANGED verdict
      BY <1>a, <2>a, <3>3 DEF Decided, LeavingPcs, Alive
    <3>4. CASE /\ ending = "stop"
               /\ IF FinalStop.unit = 0 THEN verdict' = Verdict("canceled", "canceled", 0)
                  ELSE verdict' = Verdict("failed", "unit", FinalStop.unit)
      <4>1. stop # NoStop => FinalStop.unit # 0
        BY <1>a, <1>b, <2>a DEF NothingBehind, Alive, FinalStop
      <4> QED BY <1>f, <2>a, <3>4, <4>1 DEF Decided, LeavingPcs, Alive
    <3> QED BY <1>17, <3>2, <3>3, <3>4 DEF Join, EndWith
  <2> QED BY <2>1, <2>2, <2>3, <2>4, <2>5, <2>6, <2>7, <2>8 DEF RowsInv
<1>18. CASE ReportFailedUnit
  <2>a. /\ UNCHANGED <<cursor, disk, inventory, result, verdict>>
        /\ pc = "report" /\ pc' = "discard"
        /\ UNCHANGED open
    BY <1>18 DEF ReportFailedUnit, Goto, loop, exit
  <2>b. /\ observed.unit \in Unit /\ observed.unit >= cursor
    BY <1>a, <2>a DEF Outside, NothingBehind, Alive, Unit
  <2>c. \/ rows' = rows
        \/ rows' = [rows EXCEPT ![observed.unit] = Row("failed", FALSE)]
    BY <1>18 DEF ReportFailedUnit, SaveResult
  <2>d. \A v \in Unit : \/ rows'[v] = rows[v]
                        \/ v >= cursor /\ rows'[v] = Row("failed", FALSE)
    BY <1>b, <2>b, <2>c
  <2>1. Undecided'
    BY <1>a, <1>b, <1>f, <1>18 DEF ReportFailedUnit, Goto, SaveResult, loop,
       exit, pool, trackers, Undecided, LoopPcs, BoundaryPcs
  <2>2. PastEncoded'
    BY <1>a, <1>b, <1>18 DEF ReportFailedUnit, Goto, SaveResult, loop, exit,
       pool, trackers, PastEncoded, BoundaryPcs, Alive
  <2>3. NothingBehind'
    BY <1>a, <1>b, <1>f, <1>18 DEF ReportFailedUnit, Goto, SaveResult, loop,
       exit, pool, trackers, NothingBehind, Alive, Undecided, LoopPcs,
       BoundaryPcs
  <2>4. FrozenOrder'
    <3>5. \A v \in Unit : v > cursor => disk[v] = "untouched"
      BY <1>a, <2>a DEF Settled, Alive
    <3>6. ASSUME NEW u \in Unit, disk[u] # "untouched", NEW v \in 1 .. u - 1
          PROVE  rows'[v].status = "succeeded"
      <4>1. v \in Unit /\ ~(v >= cursor)
        BY <1>b, <3>5, <3>6 DEF Unit
      <4>2. rows[v].status = "succeeded"
        BY <1>a, <3>6 DEF FrozenOrder
      <4> QED BY <2>d, <4>1, <4>2
    <3> QED BY <2>a, <3>6 DEF FrozenOrder
  <2>5. Settled'
    <3>5. ASSUME NEW v \in Unit, v < cursor PROVE rows'[v] = rows[v]
      <4>1. ~(v >= cursor)
        BY <1>b, <3>5
      <4> QED BY <2>d, <4>1
    <3>6. \A v \in Unit : rows'[v] = rows[v] \/ rows'[v].status = "failed"
      BY <2>d DEF Row
    <3>7. /\ \A v \in Unit : v < cursor => rows'[v].status = "succeeded"
          /\ \A v \in Unit : v > cursor => disk'[v] = "untouched"
      BY <1>a, <2>a, <3>5 DEF Settled, Alive
    <3>8. ASSUME NEW u \in Unit, u = cursor, disk[u] # "untouched"
          PROVE  /\ \A i \in 1 .. Len(open') : open'[i] # u
                 /\ \/ verdict.code = "persist" /\ verdict.unit = u
                    \/ rows'[u].status \notin {"none", "pending"}
      BY <1>a, <2>a, <3>8, <3>6 DEF Settled, Alive
    <3> QED BY <2>a, <3>7, <3>8 DEF Settled, Alive, LoopPcs
  <2>6. HeadResult'
    BY <1>a, <1>b, <1>f, <1>18 DEF ReportFailedUnit, Goto, SaveResult, loop,
       exit, pool, trackers, HeadResult, LoopPcs, BoundaryPcs
  <2>7. Synced'
    <3> QED BY <1>a, <1>f, <2>a, <2>d DEF Synced, SyncDisclosed
  <2>8. Decided'
    BY <1>a, <1>b, <1>f, <1>18 DEF ReportFailedUnit, Goto, SaveResult, loop,
       exit, pool, trackers, Decided, LeavingPcs, Alive, Undecided, LoopPcs,
       BoundaryPcs
  <2> QED BY <2>1, <2>2, <2>3, <2>4, <2>5, <2>6, <2>7, <2>8 DEF RowsInv
<1>19. CASE DiscardOpen
  <2>a. /\ UNCHANGED <<cursor, disk, inventory, result, verdict>>
        /\ pc = "discard" /\ pc' = "discard"
        /\ open # <<>> /\ open' = Tail(open)
    BY <1>19 DEF DiscardOpen, exit
  <2>b. Head(open) = open[1] /\ Head(open) \in Unit /\ Head(open) >= cursor
    BY <1>a, <1>b, <2>a, TailFacts DEF NothingBehind, Alive
  <2>c. \/ rows' = rows
        \/ rows' = [rows EXCEPT ![Head(open)] = Row("pending", FALSE)]
    BY <1>19 DEF DiscardOpen, SaveResult, DiscardedRow
  <2>d. \A v \in Unit : \/ rows'[v] = rows[v]
                        \/ /\ v >= cursor /\ v = Head(open)
                           /\ rows'[v] = Row("pending", FALSE)
    BY <1>b, <2>b, <2>c
  <2>1. Undecided'
    BY <1>a, <1>b, <1>f, <1>19 DEF DiscardOpen, Goto, SaveResult, exit, pool,
       trackers, Undecided, LoopPcs, BoundaryPcs
  <2>2. PastEncoded'
    BY <1>a, <1>b, <1>19 DEF DiscardOpen, Goto, SaveResult, exit, pool,
       trackers, PastEncoded, BoundaryPcs, Alive
  <2>3. NothingBehind'
    BY <1>a, <1>b, <1>f, <1>19 DEF DiscardOpen, Goto, SaveResult, exit, pool,
       trackers, NothingBehind, Alive, Undecided, LoopPcs, BoundaryPcs
  <2>4. FrozenOrder'
    <3>5. \A v \in Unit : v > cursor => disk[v] = "untouched"
      BY <1>a, <2>a DEF Settled, Alive
    <3>6. ASSUME NEW u \in Unit, disk[u] # "untouched", NEW v \in 1 .. u - 1
          PROVE  rows'[v].status = "succeeded"
      <4>1. v \in Unit /\ ~(v >= cursor)
        BY <1>b, <3>5, <3>6 DEF Unit
      <4>2. rows[v].status = "succeeded"
        BY <1>a, <3>6 DEF FrozenOrder
      <4> QED BY <2>d, <4>1, <4>2
    <3> QED BY <2>a, <3>6 DEF FrozenOrder
  <2>5. Settled'
    <3>5. \A i \in 1 .. Len(open') : i + 1 \in 1 .. Len(open) /\ open'[i] = open[i + 1]
      BY <1>b, <2>a, TailFacts
    <3>6. ASSUME NEW v \in Unit, v < cursor PROVE rows'[v] = rows[v]
      <4>1. ~(v >= cursor)
        BY <1>b, <3>6
      <4> QED BY <2>d, <4>1
    <3>7. ASSUME cursor \in Unit, disk[cursor] # "untouched"
          PROVE  /\ rows'[cursor] = rows[cursor]
                 /\ \A i \in 1 .. Len(open') : open'[i] # cursor
      <4>1. \A i \in 1 .. Len(open) : open[i] # cursor
        BY <1>a, <2>a, <3>7 DEF Settled, Alive
      <4>2. Head(open) # cursor
        BY <1>b, <2>a, <2>b, <4>1, TailFacts
      <4> QED BY <2>d, <3>5, <3>7, <4>1, <4>2
    <3>8. /\ \A v \in Unit : v < cursor => rows'[v].status = "succeeded"
          /\ \A v \in Unit : v > cursor => disk'[v] = "untouched"
      BY <1>a, <2>a, <3>6 DEF Settled, Alive
    <3>9. ASSUME NEW u \in Unit, u = cursor, disk[u] # "untouched"
          PROVE  /\ \A i \in 1 .. Len(open') : open'[i] # u
                 /\ \/ verdict.code = "persist" /\ verdict.unit = u
                    \/ rows'[u].status \notin {"none", "pending"}
      BY <1>a, <2>a, <3>9, <3>7 DEF Settled, Alive
    <3> QED BY <2>a, <3>8, <3>9 DEF Settled, Alive, LoopPcs
  <2>6. HeadResult'
    BY <1>a, <1>b, <1>f, <1>19 DEF DiscardOpen, Goto, SaveResult, exit, pool,
       trackers, HeadResult, LoopPcs, BoundaryPcs
  <2>7. Synced'
    <3> QED BY <1>a, <1>f, <2>a, <2>d DEF Synced, SyncDisclosed
  <2>8. Decided'
    BY <1>a, <1>b, <1>f, <1>19 DEF DiscardOpen, Goto, SaveResult, exit, pool,
       trackers, Decided, LeavingPcs, Alive, Undecided, LoopPcs, BoundaryPcs
  <2> QED BY <2>1, <2>2, <2>3, <2>4, <2>5, <2>6, <2>7, <2>8 DEF RowsInv
<1>20. CASE DiscardEnds
  <2>1. Undecided'
    BY <1>a, <1>b, <1>f, <1>20 DEF DiscardEnds, Goto, loop, exit, pool,
       trackers, files, db, Undecided, LoopPcs, BoundaryPcs
  <2>2. PastEncoded'
    BY <1>a, <1>b, <1>20 DEF DiscardEnds, Goto, loop, exit, pool, trackers,
       files, db, PastEncoded, BoundaryPcs, Alive
  <2>3. NothingBehind'
    BY <1>a, <1>b, <1>f, <1>20 DEF DiscardEnds, Goto, loop, exit, pool,
       trackers, files, db, NothingBehind, Alive, Undecided, LoopPcs,
       BoundaryPcs
  <2>4. FrozenOrder'
    BY <1>a, <1>b, <1>20 DEF DiscardEnds, Goto, loop, exit, pool, trackers,
       files, db, FrozenOrder, Alive, Settled
  <2>5. Settled'
    BY <1>a, <1>b, <1>20 DEF DiscardEnds, Goto, loop, exit, pool, trackers,
       files, db, Settled, Alive, LoopPcs
  <2>6. HeadResult'
    BY <1>a, <1>b, <1>f, <1>20 DEF DiscardEnds, Goto, loop, exit, pool,
       trackers, files, db, HeadResult, LoopPcs, BoundaryPcs
  <2>7. Synced'
    BY <1>a, <1>b, <1>f, <1>20 DEF DiscardEnds, Goto, loop, exit, pool,
       trackers, files, db, Synced, SyncDisclosed
  <2>8. Decided'
    BY <1>a, <1>b, <1>f, <1>20 DEF DiscardEnds, Goto, loop, exit, pool,
       trackers, files, db, Decided, LeavingPcs, Alive, Undecided, LoopPcs,
       BoundaryPcs
  <2> QED BY <2>1, <2>2, <2>3, <2>4, <2>5, <2>6, <2>7, <2>8 DEF RowsInv
<1>21. CASE Finish
  <2>1. Undecided'
    BY <1>a, <1>b, <1>f, <1>21 DEF Finish, Goto, loop, exit, pool, trackers,
       files, Undecided, LoopPcs, BoundaryPcs
  <2>2. PastEncoded'
    BY <1>a, <1>b, <1>21 DEF Finish, Goto, loop, exit, pool, trackers, files,
       PastEncoded, BoundaryPcs, Alive
  <2>3. NothingBehind'
    BY <1>a, <1>b, <1>f, <1>21 DEF Finish, Goto, loop, exit, pool, trackers,
       files, NothingBehind, Alive, Undecided, LoopPcs, BoundaryPcs
  <2>4. FrozenOrder'
    BY <1>a, <1>b, <1>21 DEF Finish, Goto, loop, exit, pool, trackers, files,
       FrozenOrder, Alive, Settled
  <2>5. Settled'
    BY <1>a, <1>b, <1>21 DEF Finish, Goto, loop, exit, pool, trackers, files,
       Settled, Alive, LoopPcs
  <2>6. HeadResult'
    BY <1>a, <1>b, <1>f, <1>21 DEF Finish, Goto, loop, exit, pool, trackers,
       files, HeadResult, LoopPcs, BoundaryPcs
  <2>7. Synced'
    BY <1>a, <1>b, <1>f, <1>21 DEF Finish, Goto, loop, exit, pool, trackers,
       files, Synced, SyncDisclosed
  <2>8. Decided'
    BY <1>a, <1>b, <1>f, <1>21 DEF Finish, Goto, loop, exit, pool, trackers,
       files, Decided, LeavingPcs, Alive, Undecided, LoopPcs, BoundaryPcs
  <2> QED BY <2>1, <2>2, <2>3, <2>4, <2>5, <2>6, <2>7, <2>8 DEF RowsInv
<1>22. CASE RequestCancel
  <2>1. Undecided'
    BY <1>a, <1>b, <1>f, <1>22 DEF RequestCancel, coordinator, loop, exit,
       pool, trackers, files, Undecided, LoopPcs, BoundaryPcs
  <2>2. PastEncoded'
    BY <1>a, <1>b, <1>22 DEF RequestCancel, coordinator, loop, exit, pool,
       trackers, files, PastEncoded, BoundaryPcs, Alive
  <2>3. NothingBehind'
    BY <1>a, <1>b, <1>f, <1>22 DEF RequestCancel, coordinator, loop, exit,
       pool, trackers, files, NothingBehind, Alive, Undecided, LoopPcs,
       BoundaryPcs
  <2>4. FrozenOrder'
    BY <1>a, <1>b, <1>22 DEF RequestCancel, coordinator, loop, exit, pool,
       trackers, files, FrozenOrder, Alive, Settled
  <2>5. Settled'
    BY <1>a, <1>b, <1>22 DEF RequestCancel, coordinator, loop, exit, pool,
       trackers, files, Settled, Alive, LoopPcs
  <2>6. HeadResult'
    BY <1>a, <1>b, <1>f, <1>22 DEF RequestCancel, coordinator, loop, exit,
       pool, trackers, files, HeadResult, LoopPcs, BoundaryPcs
  <2>7. Synced'
    BY <1>a, <1>b, <1>f, <1>22 DEF RequestCancel, coordinator, loop, exit,
       pool, trackers, files, Synced, SyncDisclosed
  <2>8. Decided'
    BY <1>a, <1>b, <1>f, <1>22 DEF RequestCancel, coordinator, loop, exit,
       pool, trackers, files, Decided, LeavingPcs, Alive, Undecided, LoopPcs,
       BoundaryPcs
  <2> QED BY <2>1, <2>2, <2>3, <2>4, <2>5, <2>6, <2>7, <2>8 DEF RowsInv
<1>23. CASE ObserveCancel
  <2>1. Undecided'
    BY <1>a, <1>b, <1>f, <1>23 DEF ObserveCancel, coordinator, loop, exit,
       trackers, files, db, Undecided, LoopPcs, BoundaryPcs
  <2>2. PastEncoded'
    BY <1>a, <1>b, <1>23 DEF ObserveCancel, coordinator, loop, exit, trackers,
       files, db, PastEncoded, BoundaryPcs, Alive
  <2>3. NothingBehind'
    BY <1>a, <1>b, <1>f, <1>23 DEF ObserveCancel, coordinator, loop, exit,
       trackers, files, db, NothingBehind, Alive, Undecided, LoopPcs,
       BoundaryPcs
  <2>4. FrozenOrder'
    BY <1>a, <1>b, <1>23 DEF ObserveCancel, coordinator, loop, exit, trackers,
       files, db, FrozenOrder, Alive, Settled
  <2>5. Settled'
    BY <1>a, <1>b, <1>23 DEF ObserveCancel, coordinator, loop, exit, trackers,
       files, db, Settled, Alive, LoopPcs
  <2>6. HeadResult'
    BY <1>a, <1>b, <1>f, <1>23 DEF ObserveCancel, coordinator, loop, exit,
       trackers, files, db, HeadResult, LoopPcs, BoundaryPcs
  <2>7. Synced'
    BY <1>a, <1>b, <1>f, <1>23 DEF ObserveCancel, coordinator, loop, exit,
       trackers, files, db, Synced, SyncDisclosed
  <2>8. Decided'
    BY <1>a, <1>b, <1>f, <1>23 DEF ObserveCancel, coordinator, loop, exit,
       trackers, files, db, Decided, LeavingPcs, Alive, Undecided, LoopPcs,
       BoundaryPcs
  <2> QED BY <2>1, <2>2, <2>3, <2>4, <2>5, <2>6, <2>7, <2>8 DEF RowsInv
<1>24. CASE Crash
  <2>1. Undecided'
    BY <1>a, <1>b, <1>f, <1>24 DEF Crash, Goto, db, Undecided, LoopPcs,
       BoundaryPcs
  <2>2. PastEncoded'
    BY <1>a, <1>b, <1>24 DEF Crash, Goto, db, PastEncoded, BoundaryPcs, Alive
  <2>3. NothingBehind'
    BY <1>a, <1>b, <1>f, <1>24 DEF Crash, Goto, db, NothingBehind, Alive,
       Undecided, LoopPcs, BoundaryPcs
  <2>4. FrozenOrder'
    <3>1. rows' = rows
      BY <1>24 DEF Crash, db
    <3>2. CASE disk' = disk
      BY <1>a, <3>1, <3>2 DEF FrozenOrder
    <3>3. CASE pc = "commit" /\ \E d \in {"untouched", "partial", "landed"} :
                 disk' = [disk EXCEPT ![Head(open)] = d]
      <4>1. /\ cursor \in Unit /\ Head(open) = cursor
            /\ \A v \in Unit : v # cursor => disk'[v] = disk[v]
        BY <1>a, <1>b, <3>3 DEF InLoop, LoopPcs, Unit
      <4>2. /\ \A v \in Unit : v < cursor => rows[v].status = "succeeded"
            /\ \A v \in Unit : v > cursor => disk[v] = "untouched"
        BY <1>a, <3>3 DEF Settled, Alive
      <4>3. ASSUME NEW u \in Unit, disk'[u] # "untouched", NEW v \in 1 .. u - 1
            PROVE  v \in Unit /\ v < cursor
        BY <1>b, <4>1, <4>2, <4>3 DEF Unit
      <4> QED BY <3>1, <4>2, <4>3 DEF FrozenOrder
    <3> QED BY <1>24, <3>2, <3>3 DEF Crash
  <2>5. Settled'
    BY <1>a, <1>b, <1>24 DEF Crash, Goto, db, Settled, Alive, LoopPcs
  <2>6. HeadResult'
    BY <1>a, <1>b, <1>f, <1>24 DEF Crash, Goto, db, HeadResult, LoopPcs,
       BoundaryPcs
  <2>7. Synced'
    <3>1. ~result'.row.synced /\ UNCHANGED <<rows, inventory>>
      BY <1>24 DEF Crash, NoResult, NoRow, Row, db
    <3> QED BY <1>a, <3>1 DEF Synced, SyncDisclosed
  <2>8. Decided'
    BY <1>a, <1>b, <1>f, <1>24 DEF Crash, Goto, db, Decided, LeavingPcs,
       Alive, Undecided, LoopPcs, BoundaryPcs
  <2> QED BY <2>1, <2>2, <2>3, <2>4, <2>5, <2>6, <2>7, <2>8 DEF RowsInv
<1>25. CASE Restart
  <2>1. Undecided'
    BY <1>a, <1>b, <1>f, <1>25 DEF Restart, Goto, loop, exit, pool, trackers,
       files, Undecided, LoopPcs, BoundaryPcs
  <2>2. PastEncoded'
    BY <1>a, <1>b, <1>25 DEF Restart, Goto, loop, exit, pool, trackers, files,
       PastEncoded, BoundaryPcs, Alive
  <2>3. NothingBehind'
    BY <1>a, <1>b, <1>f, <1>25 DEF Restart, Goto, loop, exit, pool, trackers,
       files, NothingBehind, Alive, Undecided, LoopPcs, BoundaryPcs
  <2>4. FrozenOrder'
    BY <1>a, <1>b, <1>25 DEF Restart, Goto, loop, exit, pool, trackers, files,
       FrozenOrder, Alive, Settled
  <2>5. Settled'
    BY <1>a, <1>b, <1>25 DEF Restart, Goto, loop, exit, pool, trackers, files,
       Settled, Alive, LoopPcs
  <2>6. HeadResult'
    BY <1>a, <1>b, <1>f, <1>25 DEF Restart, Goto, loop, exit, pool, trackers,
       files, HeadResult, LoopPcs, BoundaryPcs
  <2>7. Synced'
    BY <1>a, <1>b, <1>f, <1>25 DEF Restart, Goto, loop, exit, pool, trackers,
       files, Synced, SyncDisclosed
  <2>8. Decided'
    BY <1>a, <1>b, <1>f, <1>25 DEF Restart, Goto, loop, exit, pool, trackers,
       files, Decided, LeavingPcs, Alive, Undecided, LoopPcs, BoundaryPcs
  <2> QED BY <2>1, <2>2, <2>3, <2>4, <2>5, <2>6, <2>7, <2>8 DEF RowsInv
<1>26. ASSUME NEW t \in Task, TakeTask(t) PROVE RowsInv'
  <2>1. Undecided'
    BY <1>a, <1>b, <1>f, <1>26 DEF TakeTask, coordinator, loop, exit,
       trackers, files, db, Undecided, LoopPcs, BoundaryPcs
  <2>2. PastEncoded'
    <3>1. queue \in Seq(Task) /\ queue # <<>> /\ t = queue[1]
      BY <1>26, TailFacts DEF TakeTask, Shape, TypeOK, PoolType
    <3>2. phase[t] = "idle"
      BY <3>1 DEF Bookkeeping, QueueFresh
    <3>3. \A s \in Task : phase[s] = "encoded" => phase'[s] = "encoded"
      BY <1>b, <3>2, <1>26 DEF TakeTask
    <3> QED BY <1>a, <3>3, <1>26 DEF TakeTask, PastEncoded, Alive, coordinator, loop, exit
  <2>3. NothingBehind'
    BY <1>a, <1>b, <1>f, <1>26 DEF TakeTask, coordinator, loop, exit,
       trackers, files, db, NothingBehind, Alive, Undecided, LoopPcs,
       BoundaryPcs
  <2>4. FrozenOrder'
    BY <1>a, <1>b, <1>26 DEF TakeTask, coordinator, loop, exit, trackers,
       files, db, FrozenOrder, Alive, Settled
  <2>5. Settled'
    BY <1>a, <1>b, <1>26 DEF TakeTask, coordinator, loop, exit, trackers,
       files, db, Settled, Alive, LoopPcs
  <2>6. HeadResult'
    BY <1>a, <1>b, <1>f, <1>26 DEF TakeTask, coordinator, loop, exit,
       trackers, files, db, HeadResult, LoopPcs, BoundaryPcs
  <2>7. Synced'
    BY <1>a, <1>b, <1>f, <1>26 DEF TakeTask, coordinator, loop, exit,
       trackers, files, db, Synced, SyncDisclosed
  <2>8. Decided'
    BY <1>a, <1>b, <1>f, <1>26 DEF TakeTask, coordinator, loop, exit,
       trackers, files, db, Decided, LeavingPcs, Alive, Undecided, LoopPcs,
       BoundaryPcs
  <2> QED BY <2>1, <2>2, <2>3, <2>4, <2>5, <2>6, <2>7, <2>8 DEF RowsInv
<1>27. ASSUME NEW t \in Task, EncodeSucceeds(t) PROVE RowsInv'
  <2>1. Undecided'
    BY <1>a, <1>b, <1>f, <1>27 DEF EncodeSucceeds, TaskReturned, coordinator,
       loop, exit, files, db, Undecided, LoopPcs, BoundaryPcs
  <2>2. PastEncoded'
    BY <1>a, <1>b, <1>27 DEF EncodeSucceeds, TaskReturned, coordinator, loop,
       exit, files, db, PastEncoded, BoundaryPcs, Alive
  <2>3. NothingBehind'
    BY <1>a, <1>b, <1>f, <1>27 DEF EncodeSucceeds, TaskReturned, coordinator,
       loop, exit, files, db, NothingBehind, Alive, Undecided, LoopPcs,
       BoundaryPcs
  <2>4. FrozenOrder'
    BY <1>a, <1>b, <1>27 DEF EncodeSucceeds, TaskReturned, coordinator, loop,
       exit, files, db, FrozenOrder, Alive, Settled
  <2>5. Settled'
    BY <1>a, <1>b, <1>27 DEF EncodeSucceeds, TaskReturned, coordinator, loop,
       exit, files, db, Settled, Alive, LoopPcs
  <2>6. HeadResult'
    BY <1>a, <1>b, <1>f, <1>27 DEF EncodeSucceeds, TaskReturned, coordinator,
       loop, exit, files, db, HeadResult, LoopPcs, BoundaryPcs
  <2>7. Synced'
    BY <1>a, <1>b, <1>f, <1>27 DEF EncodeSucceeds, TaskReturned, coordinator,
       loop, exit, files, db, Synced, SyncDisclosed
  <2>8. Decided'
    BY <1>a, <1>b, <1>f, <1>27 DEF EncodeSucceeds, TaskReturned, coordinator,
       loop, exit, files, db, Decided, LeavingPcs, Alive, Undecided, LoopPcs,
       BoundaryPcs
  <2> QED BY <2>1, <2>2, <2>3, <2>4, <2>5, <2>6, <2>7, <2>8 DEF RowsInv
<1>28. ASSUME NEW t \in Task, EncodeCanceled(t) PROVE RowsInv'
  <2>1. Undecided'
    BY <1>a, <1>b, <1>f, <1>28 DEF EncodeCanceled, TaskReturned, coordinator,
       loop, exit, files, db, Undecided, LoopPcs, BoundaryPcs
  <2>2. PastEncoded'
    BY <1>a, <1>b, <1>28 DEF EncodeCanceled, TaskReturned, coordinator, loop,
       exit, files, db, PastEncoded, BoundaryPcs, Alive
  <2>3. NothingBehind'
    BY <1>a, <1>b, <1>f, <1>28 DEF EncodeCanceled, TaskReturned, coordinator,
       loop, exit, files, db, NothingBehind, Alive, Undecided, LoopPcs,
       BoundaryPcs
  <2>4. FrozenOrder'
    BY <1>a, <1>b, <1>28 DEF EncodeCanceled, TaskReturned, coordinator, loop,
       exit, files, db, FrozenOrder, Alive, Settled
  <2>5. Settled'
    BY <1>a, <1>b, <1>28 DEF EncodeCanceled, TaskReturned, coordinator, loop,
       exit, files, db, Settled, Alive, LoopPcs
  <2>6. HeadResult'
    BY <1>a, <1>b, <1>f, <1>28 DEF EncodeCanceled, TaskReturned, coordinator,
       loop, exit, files, db, HeadResult, LoopPcs, BoundaryPcs
  <2>7. Synced'
    BY <1>a, <1>b, <1>f, <1>28 DEF EncodeCanceled, TaskReturned, coordinator,
       loop, exit, files, db, Synced, SyncDisclosed
  <2>8. Decided'
    BY <1>a, <1>b, <1>f, <1>28 DEF EncodeCanceled, TaskReturned, coordinator,
       loop, exit, files, db, Decided, LeavingPcs, Alive, Undecided, LoopPcs,
       BoundaryPcs
  <2> QED BY <2>1, <2>2, <2>3, <2>4, <2>5, <2>6, <2>7, <2>8 DEF RowsInv
<1>29. ASSUME NEW t \in Task, EncodeFails(t) PROVE RowsInv'
  <2>1. Undecided'
    BY <1>a, <1>b, <1>f, <1>29 DEF EncodeFails, TaskReturned, coordinator,
       loop, exit, files, db, Undecided, LoopPcs, BoundaryPcs
  <2>2. PastEncoded'
    BY <1>a, <1>b, <1>29 DEF EncodeFails, TaskReturned, coordinator, loop,
       exit, files, db, PastEncoded, BoundaryPcs, Alive
  <2>3. NothingBehind'
    BY <1>a, <1>b, <1>f, <1>29 DEF EncodeFails, TaskReturned, coordinator,
       loop, exit, files, db, NothingBehind, Alive, Undecided, LoopPcs,
       BoundaryPcs
  <2>4. FrozenOrder'
    BY <1>a, <1>b, <1>29 DEF EncodeFails, TaskReturned, coordinator, loop,
       exit, files, db, FrozenOrder, Alive, Settled
  <2>5. Settled'
    BY <1>a, <1>b, <1>29 DEF EncodeFails, TaskReturned, coordinator, loop,
       exit, files, db, Settled, Alive, LoopPcs
  <2>6. HeadResult'
    BY <1>a, <1>b, <1>f, <1>29 DEF EncodeFails, TaskReturned, coordinator,
       loop, exit, files, db, HeadResult, LoopPcs, BoundaryPcs
  <2>7. Synced'
    BY <1>a, <1>b, <1>f, <1>29 DEF EncodeFails, TaskReturned, coordinator,
       loop, exit, files, db, Synced, SyncDisclosed
  <2>8. Decided'
    BY <1>a, <1>b, <1>f, <1>29 DEF EncodeFails, TaskReturned, coordinator,
       loop, exit, files, db, Decided, LeavingPcs, Alive, Undecided, LoopPcs,
       BoundaryPcs
  <2> QED BY <2>1, <2>2, <2>3, <2>4, <2>5, <2>6, <2>7, <2>8 DEF RowsInv
<1>30. ASSUME NEW t \in Task, ReportFailure(t) PROVE RowsInv'
  <2>1. Undecided'
    BY <1>a, <1>b, <1>f, <1>30 DEF ReportFailure, RequestStop, coordinator,
       loop, exit, trackers, files, db, Undecided, LoopPcs, BoundaryPcs
  <2>2. PastEncoded'
    BY <1>a, <1>b, <1>30 DEF ReportFailure, RequestStop, coordinator, loop,
       exit, trackers, files, db, PastEncoded, BoundaryPcs, Alive
  <2>3. NothingBehind'
    <3>1. /\ Alive /\ phase[t] = "reporting"
          /\ stop' = IF stop = NoStop THEN Stop(t[1], "encode") ELSE stop
          /\ UNCHANGED <<pc, cursor, open, observed, ending>>
      BY <1>30 DEF ReportFailure, Running, Alive, RequestStop, coordinator, loop, exit
    <3>2. t[1] \in Unit /\ ~(t[1] < cursor) /\ ending # "all"
      BY <1>a, <1>b, <3>1 DEF PastEncoded
    <3>3. t[1] >= cursor
      BY <1>b, <3>2
    <3> QED BY <1>a, <1>f, <3>1, <3>2, <3>3 DEF NothingBehind, Alive
  <2>4. FrozenOrder'
    BY <1>a, <1>b, <1>30 DEF ReportFailure, RequestStop, coordinator, loop,
       exit, trackers, files, db, FrozenOrder, Alive, Settled
  <2>5. Settled'
    BY <1>a, <1>b, <1>30 DEF ReportFailure, RequestStop, coordinator, loop,
       exit, trackers, files, db, Settled, Alive, LoopPcs
  <2>6. HeadResult'
    BY <1>a, <1>b, <1>f, <1>30 DEF ReportFailure, RequestStop, coordinator,
       loop, exit, trackers, files, db, HeadResult, LoopPcs, BoundaryPcs
  <2>7. Synced'
    BY <1>a, <1>b, <1>f, <1>30 DEF ReportFailure, RequestStop, coordinator,
       loop, exit, trackers, files, db, Synced, SyncDisclosed
  <2>8. Decided'
    BY <1>a, <1>b, <1>f, <1>30 DEF ReportFailure, RequestStop, coordinator,
       loop, exit, trackers, files, db, Decided, LeavingPcs, Alive, Undecided,
       LoopPcs, BoundaryPcs
  <2> QED BY <2>1, <2>2, <2>3, <2>4, <2>5, <2>6, <2>7, <2>8 DEF RowsInv
<1>31. CASE UNCHANGED vars
  BY <1>a, <1>31 DEF vars, coordinator, loop, exit, pool, trackers, files, db, RowsInv,
     Undecided, PastEncoded, NothingBehind, FrozenOrder, Settled, HeadResult, Synced, Decided,
     SyncDisclosed, Alive
<1> QED
  BY <1>1, <1>2, <1>3, <1>4, <1>5, <1>6, <1>7, <1>8, <1>9, <1>10, <1>11,
     <1>12, <1>13, <1>14, <1>15, <1>16, <1>17, <1>18, <1>19, <1>20, <1>21,
     <1>22, <1>23, <1>24, <1>25, <1>26, <1>27, <1>28, <1>29, <1>30, <1>31 DEF
     Next, Coordinator, WorkerStep

-----------------------------------------------------------------------------
\* The rows, the position, the inventory and the verdict of a session agree with
\* what it did to the disk (persistEntry, discardOpen, stopSession,
\* FinishExecution).
THEOREM RowsAgreeWithDisk == Spec => []RowsTellDisk
<1>1. Init => Shape /\ Bookkeeping /\ RowsInv
  BY ShapeInit, BookkeepingInit, RowsInit
<1>2. Shape /\ Bookkeeping /\ RowsInv /\ [Next]_vars
        => (Shape /\ Bookkeeping /\ RowsInv)'
  BY ShapeNext, BookkeepingNext, RowsNext
<1>3. Shape /\ Bookkeeping /\ RowsInv => RowsTellDisk
  <2> SUFFICES ASSUME Shape, Bookkeeping, RowsInv PROVE RowsTellDisk
    OBVIOUS
  <2>1. FrozenOrder /\ SyncDisclosed
    BY DEF RowsInv, Synced
  <2>2. PendingUntouched
    BY RowsFacts DEF RowsInv, PendingUntouched, Settled, Alive, AtBoundary,
       Shape, BoundaryPcs
  <2>3. PositionNamesHead
    BY DEF RowsInv, PositionNamesHead, HeadResult, LoopPcs
  <2>4. RealErrorNeverMasked
    BY DEF RowsInv, RealErrorNeverMasked, Decided, LeavingPcs
  <2> QED BY <2>1, <2>2, <2>3, <2>4 DEF RowsTellDisk
<1> QED BY <1>1, <1>2, <1>3, PTL DEF Spec

-----------------------------------------------------------------------------
(***************************************************************************)
(* The pool, the window and the stops are invisible: a session implements  *)
(* SequentialSession, for every worklist and every window.  What the       *)
(* abstract guards ask (whose turn it is, that a row is not written twice, *)
(* that a canceled session was asked to stop) is what Serially adds to the *)
(* invariant of the rows.                                                  *)
(***************************************************************************)

EndPcs == {"discard", "finish", "done"}
TeardownPcs == {"join", "report", "discard", "finish"}
RunPcs == LoopPcs \cup BoundaryPcs \cup TeardownPcs \cup {"verify"}

\* The row of the session follows the process that claimed it.
Status ==
    /\ pc = "queued" => session.status \in {"queued", "canceled"}
    /\ pc \in RunPcs => session.status = "running"

\* Every unit before the next one was delivered whole, and none after it.
Delivered ==
    /\ pc \in {"queued", "verify"} => \A u \in Unit : delivered[u] = 0
    /\ pc \in LoopPcs \cup BoundaryPcs =>
         /\ \A u \in Unit : u < next => delivered[u] = Tasks[u]
         /\ \A u \in Unit : u > next => delivered[u] = 0
         /\ \A u \in Unit : u = next =>
              IF pc \in {"deliver", "count"}
              THEN delivered[u] + 1 = deliver /\ deliver <= Tasks[u] + 1
              ELSE delivered[u] = 0

\* A head that woke the coordinator without a stop is sealed.
HeadWoken == pc = "woken" => Sealed(Head(open)) \/ canceled

\* Somebody asked for the end, or a recorded error did, or a worker is about
\* to record one.
Asked ==
    /\ Alive /\ pc \notin LeavingPcs =>
         /\ canceled => cancelRequested \/ stop # NoStop
         /\ \A u \in Unit : failure[u] # "none" =>
              cancelRequested \/ stop # NoStop \/ \E t \in Task : phase[t] = "reporting"
    /\ pc = "join" /\ ending = "stop" =>
         cancelRequested \/ stop # NoStop \/ \E t \in Task : phase[t] = "reporting"
    /\ Alive /\ verdict.status = "canceled" => cancelRequested

\* No row is written before its turn, and none is left pending before the end.
Unwritten ==
    Alive /\ pc \notin EndPcs =>
        /\ \A u \in Unit :
              (u > cursor \/ (u = cursor /\ pc \in LoopPcs \cup {"queued", "verify", "sync", "record"}))
                  => rows[u].status = "none"
        /\ \A u \in Unit : rows[u].status # "pending"

\* A failed row is a recorded stop.
FailedStops ==
    Alive => \A u \in Unit : rows[u].status = "failed" =>
        stop # NoStop \/ (pc = "settle" /\ u = cursor)

\* Who has a row or changed the disk has no worker left that could fail.
Touched ==
    Alive /\ pc \notin EndPcs =>
        \A t \in Task : disk[t[1]] # "untouched" \/ rows[t[1]].status # "none" =>
            phase[t] = "encoded"

\* What stopped the session outside a commit has neither row nor trace.
StopFree ==
    /\ Alive /\ pc \notin EndPcs /\ stop.at \in {"prepare", "encode"} =>
         rows[stop.unit].status = "none" /\ disk[stop.unit] = "untouched"
    /\ pc \in BoundaryPcs \cup {"admit", "commit"} /\ stop # NoStop => stop.unit > cursor
    /\ pc \in LoopPcs \cup BoundaryPcs => stop.at # "prepare"
    /\ Alive /\ observed.unit # 0 => stop # NoStop
    /\ ending \in {"all", "head"} => observed.unit = 0
    /\ pc \in LeavingPcs \ {"join"} /\ observed.unit # 0 => observed = stop

\* The open units are ordered and unwritten, but for the one just named.
OpenFree ==
    Alive =>
        /\ \A i, j \in 1 .. Len(open) : i < j => open[i] < open[j]
        /\ \A i \in 1 .. Len(open) :
             /\ \/ rows[open[i]].status = "none"
                \/ pc = "discard" /\ observed = Stop(open[i], "encode")
             /\ stop.at = "prepare" => stop.unit # open[i]

\* The verdicts the abstract session knows.
Verdicts ==
    /\ pc \in BoundaryPcs /\ pc # "settle" =>
         (result.row.status = "succeeded" <=> disk[cursor] = "landed")
    /\ ending = "all" => pc \in {"join", "finish", "done"}
    /\ Alive /\ (ending = "all" \/ verdict.status = "succeeded") =>
         \A u \in Unit : rows[u].status = "succeeded"
    /\ verdict.status = "succeeded" => pc \in {"finish", "done"}
    /\ pc \in {"report", "discard", "finish"} =>
         verdict.status \in {"succeeded", "failed", "canceled"}

Serially ==
    /\ Status /\ Delivered /\ HeadWoken /\ Asked /\ Unwritten /\ FailedStops
    /\ Touched /\ StopFree /\ OpenFree /\ Verdicts

-----------------------------------------------------------------------------
\* A queued session asked for nothing, delivered nothing and wrote nothing.
LEMMA SeriallyInit == Init => Serially
<1> SUFFICES ASSUME Init PROVE Serially
  OBVIOUS
<1>1. Status /\ Asked /\ Verdicts
  BY RecordFields DEF Init, Status, RunPcs, LoopPcs, BoundaryPcs, TeardownPcs, Asked,
     Verdicts, LeavingPcs
<1>2. Delivered /\ HeadWoken
  BY DEF Init, Delivered, HeadWoken, LoopPcs, BoundaryPcs
<1>3. Unwritten /\ FailedStops /\ Touched
  BY TaskFacts DEF Init, Unwritten, FailedStops, Touched, NoRow, Row
<1>4. StopFree /\ OpenFree
  BY Kinds DEF Init, StopFree, OpenFree, BoundaryPcs, LeavingPcs
<1> QED BY <1>1, <1>2, <1>3, <1>4 DEF Serially

\* The types the counters and the records of a session have.
LEMMA SeriallyFacts ==
    ASSUME Shape, Bookkeeping
    PROVE  /\ delivered \in [Unit -> Nat] /\ completed \in [Unit -> Nat]
           /\ failure \in [Unit -> {"none", "error", "canceled"}]
           /\ ended \in [Unit -> BOOLEAN]
           /\ deliver \in Nat \ {0} /\ queue \in Seq(Task)
           /\ result \in [unit : Unit \cup {0}, row : RowType]
           /\ \A u \in Unit : Tasks[u] \in Nat
           /\ \A s \in StopType : s.unit \in Unit \cup {0}
           /\ \A s \in StopType : s.unit \in Unit => s.at \in {"prepare", "encode", "commit"}
           /\ \A s \in StopType : s.unit = 0 => s.at \notin {"prepare", "encode", "commit"}
<1>1. CoordinatorType /\ PoolType
  BY DEF Shape, TypeOK
<1>2. /\ \A s \in StopType : s.unit \in Unit \cup {0}
      /\ \A s \in StopType : s.unit \in Unit => s.at \in {"prepare", "encode", "commit"}
      /\ \A s \in StopType : s.unit = 0 => s.at \notin {"prepare", "encode", "commit"}
  BY SessionAssumption DEF StopType, NoStop, CancelStop, Stop, Unit
<1> QED BY <1>1, <1>2, SessionAssumption DEF CoordinatorType, PoolType

\* In the loop the head of the window is the unit at the cursor.
LEMMA HeadIsCursor ==
    ASSUME Shape, pc \in LoopPcs, open # <<>>
    PROVE  Head(open) = cursor /\ cursor \in Unit
<1>1. /\ open \in Seq(Unit) /\ cursor \in Nat
      /\ \A i \in 1 .. Len(open) : open[i] + 1 = cursor + i
  BY DEF Shape, TypeOK, CoordinatorType, InLoop
<1>2. Head(open) = open[1] /\ Head(open) \in Unit /\ 1 \in 1 .. Len(open)
  BY <1>1, TailFacts
<1>3. open[1] + 1 = cursor + 1 /\ open[1] \in Nat
  BY <1>1, <1>2 DEF Unit
<1> QED BY <1>1, <1>2, <1>3

\* An ordered sequence of units without its head is ordered and lacks it.
LEMMA TailIsAhead ==
    ASSUME NEW s \in Seq(Unit), s # <<>>,
           \A i, j \in 1 .. Len(s) : i < j => s[i] < s[j]
    PROVE  /\ \A i \in 1 .. Len(Tail(s)) :
                /\ i + 1 \in 1 .. Len(s) /\ Tail(s)[i] = s[i + 1]
                /\ Tail(s)[i] \in Unit /\ Tail(s)[i] # Head(s)
           /\ \A i, j \in 1 .. Len(Tail(s)) : i < j => Tail(s)[i] < Tail(s)[j]
<1>1. /\ Head(s) = s[1] /\ Len(s) = Len(Tail(s)) + 1 /\ Len(Tail(s)) \in Nat
      /\ \A i \in 1 .. Len(Tail(s)) : Tail(s)[i] = s[i + 1]
  BY TailFacts
<1>2. ASSUME NEW i \in 1 .. Len(Tail(s))
      PROVE  /\ i + 1 \in 1 .. Len(s) /\ Tail(s)[i] = s[i + 1]
             /\ Tail(s)[i] \in Unit /\ Tail(s)[i] # Head(s)
  <2>1. 1 \in 1 .. Len(s) /\ i + 1 \in 1 .. Len(s) /\ 1 < i + 1
    BY <1>1
  <2>2. s[1] < s[i + 1] /\ s[1] \in Unit /\ s[i + 1] \in Unit
    BY <2>1
  <2>3. s[1] # s[i + 1]
    BY <2>2, SessionAssumption DEF Unit
  <2> QED BY <1>1, <2>1, <2>2, <2>3
<1>3. ASSUME NEW i \in 1 .. Len(Tail(s)), NEW j \in 1 .. Len(Tail(s)), i < j
      PROVE  Tail(s)[i] < Tail(s)[j]
  BY <1>1, <1>2, <1>3
<1> QED BY <1>2, <1>3

\* Every step preserves Serially: one case per action, in it one step per conjunct.
LEMMA SeriallyNext ==
    Shape /\ Bookkeeping /\ RowsInv /\ Serially /\ [Next]_vars => Serially'
<1> SUFFICES ASSUME Shape, Bookkeeping, RowsInv, Serially, [Next]_vars PROVE Serially'
  OBVIOUS
<1>a. /\ Status /\ Delivered /\ HeadWoken /\ Asked /\ Unwritten /\ FailedStops
      /\ Touched /\ StopFree /\ OpenFree /\ Verdicts
      /\ Undecided /\ PastEncoded /\ NothingBehind /\ FrozenOrder /\ Settled
      /\ HeadResult /\ Decided
      /\ InLoop /\ AtBoundary /\ Outside /\ Permit
  BY DEF Serially, RowsInv, Shape, Bookkeeping
<1>b. /\ cursor \in Nat \ {0} /\ next \in Nat \ {0}
      /\ open \in Seq(Unit) /\ Len(open) \in Nat
      /\ \A i \in 1 .. Len(open) : open[i] \in Unit
      /\ \A u \in Unit : u \in Nat \ {0} /\ u <= NumUnits
      /\ \A t \in Task : t[1] \in Unit
      /\ phase \in [Task -> PhaseValues] /\ rows \in [Unit -> RowType]
      /\ disk \in [Unit -> {"untouched", "partial", "landed"}]
      /\ stop \in StopType /\ observed \in StopType
      /\ observed.unit \in Unit \cup {0}
      /\ canceled \in BOOLEAN
      /\ NumUnits \in Nat
      /\ delivered \in [Unit -> Nat] /\ completed \in [Unit -> Nat]
      /\ failure \in [Unit -> {"none", "error", "canceled"}]
      /\ ended \in [Unit -> BOOLEAN]
      /\ deliver \in Nat \ {0}
      /\ result \in [unit : Unit \cup {0}, row : RowType]
      /\ \A u \in Unit : Tasks[u] \in Nat
      /\ \A s \in StopType : s.unit \in Unit \cup {0}
      /\ \A s \in StopType : s.unit \in Unit => s.at \in {"prepare", "encode", "commit"}
      /\ \A s \in StopType : s.unit = 0 => s.at \notin {"prepare", "encode", "commit"}
  BY RowsFacts, SeriallyFacts
<1>f. /\ \A s, c, u : Verdict(s, c, u).status = s
      /\ \A st, b : Row(st, b).status = st
      /\ \A u, at : Stop(u, at).unit = u /\ Stop(u, at).at = at
      /\ NoStop.unit = 0 /\ CancelStop.unit = 0 /\ CancelStop # NoStop
      /\ NoStop.at = "none"
      /\ StopNow = NoStop => stop = NoStop /\ ~canceled
      /\ StopNow # NoStop => StopNow = stop \/ (stop = NoStop /\ StopNow.unit = 0)
      /\ StopNow # NoStop => stop # NoStop \/ canceled
  BY RecordFields, Kinds
<1>1. CASE Claim
  <2>1. Status'
    BY <1>a, <1>b, <1>f, <1>1 DEF Claim, Goto, pool, trackers, loop, exit,
       files, Status, RunPcs, LoopPcs, BoundaryPcs, TeardownPcs, Outside
  <2>2. Delivered'
    BY <1>a, <1>b, <1>f, <1>1 DEF Claim, Goto, pool, trackers, loop, exit,
       files, Delivered, LoopPcs, BoundaryPcs, InLoop, AtBoundary, Outside
  <2>3. HeadWoken'
    BY <1>a, <1>b, <1>f, <1>1 DEF Claim, Goto, pool, trackers, loop, exit,
       files, HeadWoken, Sealed, LoopPcs, InLoop
  <2>4. Asked'
    BY <1>a, <1>b, <1>f, <1>1 DEF Claim, Goto, pool, trackers, loop, exit,
       files, Asked, Alive, LeavingPcs, LoopPcs, BoundaryPcs, Undecided
  <2>5. Unwritten'
    BY <1>a, <1>b, <1>f, <1>1 DEF Claim, Goto, pool, trackers, loop, exit,
       files, Unwritten, Alive, EndPcs, LoopPcs, BoundaryPcs, Outside
  <2>6. FailedStops'
    BY <1>a, <1>b, <1>f, <1>1 DEF Claim, Goto, pool, trackers, loop, exit,
       files, FailedStops, Alive
  <2>7. Touched'
    BY <1>a, <1>b, <1>f, <1>1 DEF Claim, Goto, pool, trackers, loop, exit,
       files, Touched, Alive, EndPcs
  <2>8. StopFree'
    BY <1>a, <1>b, <1>f, <1>1 DEF Claim, Goto, pool, trackers, loop, exit,
       files, StopFree, Alive, EndPcs, BoundaryPcs, LeavingPcs, LoopPcs,
       Undecided
  <2>9. OpenFree'
    BY <1>a, <1>b, <1>f, <1>1 DEF Claim, Goto, pool, trackers, loop, exit,
       files, OpenFree, Alive
  <2>10. Verdicts'
    BY <1>a, <1>b, <1>f, <1>1 DEF Claim, Goto, pool, trackers, loop, exit,
       files, Verdicts, BoundaryPcs, Alive, Undecided, LoopPcs
  <2> QED BY <2>1, <2>2, <2>3, <2>4, <2>5, <2>6, <2>7, <2>8, <2>9, <2>10 DEF Serially
<1>2. CASE VerifyInputs
  <2>1. Status'
    BY <1>a, <1>b, <1>f, <1>2 DEF VerifyInputs, Goto, EndWith, pool, trackers,
       loop, exit, files, db, Status, RunPcs, LoopPcs, BoundaryPcs,
       TeardownPcs, Outside
  <2>2. Delivered'
    BY <1>a, <1>b, <1>f, <1>2 DEF VerifyInputs, Goto, EndWith, pool, trackers,
       loop, exit, files, db, Delivered, LoopPcs, BoundaryPcs, InLoop,
       AtBoundary, Outside
  <2>3. HeadWoken'
    BY <1>a, <1>b, <1>f, <1>2 DEF VerifyInputs, Goto, EndWith, pool, trackers,
       loop, exit, files, db, HeadWoken, Sealed, LoopPcs, InLoop
  <2>4. Asked'
    BY <1>a, <1>b, <1>f, <1>2 DEF VerifyInputs, Goto, EndWith, pool, trackers,
       loop, exit, files, db, Asked, Alive, LeavingPcs, LoopPcs, BoundaryPcs,
       Undecided
  <2>5. Unwritten'
    BY <1>a, <1>b, <1>f, <1>2 DEF VerifyInputs, Goto, EndWith, pool, trackers,
       loop, exit, files, db, Unwritten, Alive, EndPcs, LoopPcs, BoundaryPcs,
       Outside
  <2>6. FailedStops'
    BY <1>a, <1>b, <1>f, <1>2 DEF VerifyInputs, Goto, EndWith, pool, trackers,
       loop, exit, files, db, FailedStops, Alive
  <2>7. Touched'
    BY <1>a, <1>b, <1>f, <1>2 DEF VerifyInputs, Goto, EndWith, pool, trackers,
       loop, exit, files, db, Touched, Alive, EndPcs
  <2>8. StopFree'
    BY <1>a, <1>b, <1>f, <1>2 DEF VerifyInputs, Goto, EndWith, pool, trackers,
       loop, exit, files, db, StopFree, Alive, EndPcs, BoundaryPcs,
       LeavingPcs, LoopPcs, Undecided
  <2>9. OpenFree'
    BY <1>a, <1>b, <1>f, <1>2 DEF VerifyInputs, Goto, EndWith, pool, trackers,
       loop, exit, files, db, OpenFree, Alive
  <2>10. Verdicts'
    BY <1>a, <1>b, <1>f, <1>2 DEF VerifyInputs, Goto, EndWith, pool, trackers,
       loop, exit, files, db, Verdicts, BoundaryPcs, Alive, Undecided, LoopPcs
  <2> QED BY <2>1, <2>2, <2>3, <2>4, <2>5, <2>6, <2>7, <2>8, <2>9, <2>10 DEF Serially
<1>3. CASE LoopTop
  <2>1. Status'
    BY <1>a, <1>b, <1>f, <1>3 DEF LoopTop, Goto, Teardown, loop, exit, pool,
       trackers, files, Status, RunPcs, LoopPcs, BoundaryPcs, TeardownPcs,
       Outside
  <2>2. Delivered'
    BY <1>a, <1>b, <1>f, <1>3 DEF LoopTop, Goto, Teardown, loop, exit, pool,
       trackers, files, Delivered, LoopPcs, BoundaryPcs, InLoop, AtBoundary,
       Outside
  <2>3. HeadWoken'
    BY <1>a, <1>b, <1>f, <1>3 DEF LoopTop, Goto, Teardown, loop, exit, pool,
       trackers, files, HeadWoken, Sealed, LoopPcs, InLoop
  <2>4. Asked'
    BY <1>a, <1>b, <1>f, <1>3 DEF LoopTop, Goto, Teardown, loop, exit, pool,
       trackers, files, Asked, Alive, LeavingPcs, LoopPcs, BoundaryPcs,
       Undecided
  <2>5. Unwritten'
    BY <1>a, <1>b, <1>f, <1>3 DEF LoopTop, Goto, Teardown, loop, exit, pool,
       trackers, files, Unwritten, Alive, EndPcs, LoopPcs, BoundaryPcs,
       Outside
  <2>6. FailedStops'
    BY <1>a, <1>b, <1>f, <1>3 DEF LoopTop, Goto, Teardown, loop, exit, pool,
       trackers, files, FailedStops, Alive
  <2>7. Touched'
    BY <1>a, <1>b, <1>f, <1>3 DEF LoopTop, Goto, Teardown, loop, exit, pool,
       trackers, files, Touched, Alive, EndPcs
  <2>8. StopFree'
    BY <1>a, <1>b, <1>f, <1>3 DEF LoopTop, Goto, Teardown, loop, exit, pool,
       trackers, files, StopFree, Alive, EndPcs, BoundaryPcs, LeavingPcs,
       LoopPcs, Undecided
  <2>9. OpenFree'
    BY <1>a, <1>b, <1>f, <1>3 DEF LoopTop, Goto, Teardown, loop, exit, pool,
       trackers, files, OpenFree, Alive
  <2>10. Verdicts'
    BY <1>a, <1>b, <1>f, <1>3 DEF LoopTop, Goto, Teardown, loop, exit, pool,
       trackers, files, Verdicts, BoundaryPcs, Alive, Undecided, LoopPcs
  <2> QED BY <2>1, <2>2, <2>3, <2>4, <2>5, <2>6, <2>7, <2>8, <2>9, <2>10 DEF Serially
<1>4. CASE PrepareUnit
  <2>1. Status'
    BY <1>a, <1>b, <1>f, <1>4 DEF PrepareUnit, Goto, Teardown, RequestStop,
       files, db, trackers, Status, RunPcs, LoopPcs, BoundaryPcs, TeardownPcs,
       Outside
  <2>2. Delivered'
    <3>1. pc = "fill" /\ UNCHANGED <<delivered, next>>
      BY <1>4 DEF PrepareUnit, trackers
    <3>2. pc' = "join" \/ (pc' = "deliver" /\ deliver' = 1 /\ next <= NumUnits)
      BY <1>4 DEF PrepareUnit, Goto, Teardown
    <3> QED BY <1>a, <1>b, <3>1, <3>2 DEF Delivered, LoopPcs, BoundaryPcs
  <2>3. HeadWoken'
    BY <1>a, <1>b, <1>f, <1>4 DEF PrepareUnit, Goto, Teardown, RequestStop,
       files, db, trackers, HeadWoken, Sealed, LoopPcs, InLoop
  <2>4. Asked'
    BY <1>a, <1>b, <1>f, <1>4 DEF PrepareUnit, Goto, Teardown, RequestStop,
       files, db, trackers, Asked, Alive, LeavingPcs, LoopPcs, BoundaryPcs,
       Undecided
  <2>5. Unwritten'
    BY <1>a, <1>b, <1>f, <1>4 DEF PrepareUnit, Goto, Teardown, RequestStop,
       files, db, trackers, Unwritten, Alive, EndPcs, LoopPcs, BoundaryPcs,
       Outside
  <2>6. FailedStops'
    BY <1>a, <1>b, <1>f, <1>4 DEF PrepareUnit, Goto, Teardown, RequestStop,
       files, db, trackers, FailedStops, Alive
  <2>7. Touched'
    BY <1>a, <1>b, <1>f, <1>4 DEF PrepareUnit, Goto, Teardown, RequestStop,
       files, db, trackers, Touched, Alive, EndPcs
  <2>8. StopFree'
    <3>0. next \in Unit /\ next >= cursor /\ pc = "fill"
      BY <1>a, <1>b, <1>4 DEF PrepareUnit, InLoop, LoopPcs, Unit
    <3>1. /\ UNCHANGED <<cursor, rows, disk>> /\ pc = "fill" /\ observed = NoStop
          /\ next \in Unit /\ rows[next].status = "none" /\ disk[next] = "untouched"
      <4>1. next > cursor \/ next = cursor
        BY <1>b, <3>0
      <4> QED
        BY <1>a, <3>0, <4>1, <1>4 DEF PrepareUnit, LoopPcs, Alive, Undecided, Unwritten,
           Settled, EndPcs, files, db
    <3>2. CASE UNCHANGED <<observed, ending, stop>> /\ pc' = "deliver"
      BY <1>a, <1>f, <3>1, <3>2 DEF StopFree, Alive, EndPcs, LoopPcs, BoundaryPcs,
         LeavingPcs
    <3>3. CASE Teardown(CancelStop, "stop") /\ UNCHANGED stop
      BY <1>a, <1>f, <3>1, <3>3 DEF StopFree, Alive, EndPcs, LoopPcs, BoundaryPcs,
         LeavingPcs, Teardown, Goto
    <3>4. CASE /\ RequestStop(Stop(next, "prepare"))
               /\ Teardown(Stop(next, "prepare"), "stop")
      <4>1. Stop(next, "prepare") # NoStop
        BY <1>b, <1>f, <3>1
      <4>2. /\ stop' # NoStop /\ pc' = "join" /\ ending' = "stop"
            /\ stop' = stop \/ stop' = Stop(next, "prepare")
        BY <3>4, <4>1 DEF Teardown, RequestStop, Goto
      <4> QED
        BY <1>a, <1>f, <3>1, <4>2 DEF StopFree, Alive, EndPcs, LoopPcs, BoundaryPcs,
           LeavingPcs
    <3> QED BY <1>4, <3>2, <3>3, <3>4 DEF PrepareUnit, Goto
  <2>9. OpenFree'
    <3>1. /\ next \in Unit /\ UNCHANGED rows /\ pc = "fill"
          /\ rows[next].status = "none" /\ stop.at # "prepare"
      BY <1>a, <1>b, <1>4 DEF PrepareUnit, InLoop, LoopPcs, Unit, Alive, Unwritten,
         StopFree, EndPcs, db
    <3>2. ASSUME NEW i \in 1 .. Len(open) PROVE open[i] \in Unit /\ open[i] < next
      <4>1. next = cursor + Len(open) /\ open[i] + 1 = cursor + i
        BY <1>a, <3>1 DEF InLoop, LoopPcs
      <4>2. open[i] \in Unit /\ open[i] \in Nat
        BY <1>b
      <4> QED BY <1>b, <4>1, <4>2
    <3>3. CASE open' = Append(open, next) /\ UNCHANGED stop /\ pc' = "deliver"
      <4>1. /\ Len(open') = Len(open) + 1 /\ open'[Len(open) + 1] = next
            /\ \A i \in 1 .. Len(open) : open'[i] = open[i]
        BY <1>b, <3>1, <3>3, AppendFacts
      <4>2. ASSUME NEW i \in 1 .. Len(open'), NEW j \in 1 .. Len(open'), i < j
            PROVE  open'[i] < open'[j]
        <5>0. Len(open) \in Nat
          BY <1>b
        <5>1. i \in 1 .. Len(open) /\ (j \in 1 .. Len(open) \/ j = Len(open) + 1)
          BY <4>1, <4>2, <5>0
        <5>2. j \in 1 .. Len(open) => open[i] < open[j]
          BY <1>a, <3>1, <4>2, <5>1 DEF OpenFree, Alive
        <5> QED BY <3>2, <4>1, <5>1, <5>2
      <4>3. \A i \in 1 .. Len(open') : rows[open'[i]].status = "none"
        <5>1. \A i \in 1 .. Len(open) : rows[open[i]].status = "none"
          BY <1>a, <3>1 DEF OpenFree, Alive
        <5> QED BY <1>b, <3>1, <4>1, <5>1
      <4> QED BY <3>1, <3>3, <4>2, <4>3 DEF OpenFree
    <3>4. CASE open' = open /\ pc' = "join" /\ (stop' = stop \/ stop' = Stop(next, "prepare"))
      <4>1. \A i \in 1 .. Len(open) : open[i] # next
        BY <1>b, <3>1, <3>2
      <4> QED BY <1>a, <1>f, <3>1, <3>4, <4>1 DEF OpenFree, Alive
    <3> QED BY <1>4, <3>3, <3>4 DEF PrepareUnit, Goto, Teardown, RequestStop
  <2>10. Verdicts'
    BY <1>a, <1>b, <1>f, <1>4 DEF PrepareUnit, Goto, Teardown, RequestStop,
       files, db, trackers, Verdicts, BoundaryPcs, Alive, Undecided, LoopPcs
  <2> QED BY <2>1, <2>2, <2>3, <2>4, <2>5, <2>6, <2>7, <2>8, <2>9, <2>10 DEF Serially
<1>5. CASE FillEnds
  <2>1. Status'
    BY <1>a, <1>b, <1>f, <1>5 DEF FillEnds, Goto, loop, exit, pool, trackers,
       files, db, Status, RunPcs, LoopPcs, BoundaryPcs, TeardownPcs, Outside
  <2>2. Delivered'
    BY <1>a, <1>b, <1>f, <1>5 DEF FillEnds, Goto, loop, exit, pool, trackers,
       files, db, Delivered, LoopPcs, BoundaryPcs, InLoop, AtBoundary, Outside
  <2>3. HeadWoken'
    BY <1>a, <1>b, <1>f, <1>5 DEF FillEnds, Goto, loop, exit, pool, trackers,
       files, db, HeadWoken, Sealed, LoopPcs, InLoop
  <2>4. Asked'
    BY <1>a, <1>b, <1>f, <1>5 DEF FillEnds, Goto, loop, exit, pool, trackers,
       files, db, Asked, Alive, LeavingPcs, LoopPcs, BoundaryPcs, Undecided
  <2>5. Unwritten'
    BY <1>a, <1>b, <1>f, <1>5 DEF FillEnds, Goto, loop, exit, pool, trackers,
       files, db, Unwritten, Alive, EndPcs, LoopPcs, BoundaryPcs, Outside
  <2>6. FailedStops'
    BY <1>a, <1>b, <1>f, <1>5 DEF FillEnds, Goto, loop, exit, pool, trackers,
       files, db, FailedStops, Alive
  <2>7. Touched'
    BY <1>a, <1>b, <1>f, <1>5 DEF FillEnds, Goto, loop, exit, pool, trackers,
       files, db, Touched, Alive, EndPcs
  <2>8. StopFree'
    BY <1>a, <1>b, <1>f, <1>5 DEF FillEnds, Goto, loop, exit, pool, trackers,
       files, db, StopFree, Alive, EndPcs, BoundaryPcs, LeavingPcs, LoopPcs,
       Undecided
  <2>9. OpenFree'
    BY <1>a, <1>b, <1>f, <1>5 DEF FillEnds, Goto, loop, exit, pool, trackers,
       files, db, OpenFree, Alive
  <2>10. Verdicts'
    BY <1>a, <1>b, <1>f, <1>5 DEF FillEnds, Goto, loop, exit, pool, trackers,
       files, db, Verdicts, BoundaryPcs, Alive, Undecided, LoopPcs
  <2> QED BY <2>1, <2>2, <2>3, <2>4, <2>5, <2>6, <2>7, <2>8, <2>9, <2>10 DEF Serially
<1>6. CASE SendTask
  <2>1. Status'
    BY <1>a, <1>b, <1>f, <1>6 DEF SendTask, Goto, loop, exit, trackers, files,
       db, Status, RunPcs, LoopPcs, BoundaryPcs, TeardownPcs, Outside
  <2>2. Delivered'
    BY <1>a, <1>b, <1>f, <1>6 DEF SendTask, Goto, loop, exit, trackers, files,
       db, Delivered, LoopPcs, BoundaryPcs, InLoop, AtBoundary, Outside
  <2>3. HeadWoken'
    BY <1>a, <1>b, <1>f, <1>6 DEF SendTask, Goto, loop, exit, trackers, files,
       db, HeadWoken, Sealed, LoopPcs, InLoop
  <2>4. Asked'
    BY <1>a, <1>b, <1>f, <1>6 DEF SendTask, Goto, loop, exit, trackers, files,
       db, Asked, Alive, LeavingPcs, LoopPcs, BoundaryPcs, Undecided
  <2>5. Unwritten'
    BY <1>a, <1>b, <1>f, <1>6 DEF SendTask, Goto, loop, exit, trackers, files,
       db, Unwritten, Alive, EndPcs, LoopPcs, BoundaryPcs, Outside
  <2>6. FailedStops'
    BY <1>a, <1>b, <1>f, <1>6 DEF SendTask, Goto, loop, exit, trackers, files,
       db, FailedStops, Alive
  <2>7. Touched'
    BY <1>a, <1>b, <1>f, <1>6 DEF SendTask, Goto, loop, exit, trackers, files,
       db, Touched, Alive, EndPcs
  <2>8. StopFree'
    BY <1>a, <1>b, <1>f, <1>6 DEF SendTask, Goto, loop, exit, trackers, files,
       db, StopFree, Alive, EndPcs, BoundaryPcs, LeavingPcs, LoopPcs,
       Undecided
  <2>9. OpenFree'
    BY <1>a, <1>b, <1>f, <1>6 DEF SendTask, Goto, loop, exit, trackers, files,
       db, OpenFree, Alive
  <2>10. Verdicts'
    BY <1>a, <1>b, <1>f, <1>6 DEF SendTask, Goto, loop, exit, trackers, files,
       db, Verdicts, BoundaryPcs, Alive, Undecided, LoopPcs
  <2> QED BY <2>1, <2>2, <2>3, <2>4, <2>5, <2>6, <2>7, <2>8, <2>9, <2>10 DEF Serially
<1>7. CASE CountTask
  <2>1. Status'
    BY <1>a, <1>b, <1>f, <1>7 DEF CountTask, Goto, exit, files, db, trackers,
       pool, Status, RunPcs, LoopPcs, BoundaryPcs, TeardownPcs, Outside
  <2>2. Delivered'
    <3>1. /\ pc = "count" /\ pc' = "deliver" /\ deliver' = deliver + 1 /\ next' = next
          /\ deliver <= Tasks[next] /\ next \in Unit
          /\ delivered' = [delivered EXCEPT ![next] = @ + 1]
      BY <1>a, <1>b, <1>7 DEF CountTask, Goto, InLoop, LoopPcs, Unit
    <3>2. \A u \in Unit : delivered'[u] = IF u = next THEN delivered[u] + 1 ELSE delivered[u]
      BY <1>b, <3>1
    <3>3. /\ \A u \in Unit : u < next => delivered[u] = Tasks[u]
          /\ \A u \in Unit : u > next => delivered[u] = 0
          /\ delivered[next] + 1 = deliver
      BY <1>a, <3>1 DEF Delivered, LoopPcs
    <3>4. \A u \in Unit : u < next \/ u > next => delivered'[u] = delivered[u]
      BY <1>b, <3>2
    <3>5. delivered'[next] + 1 = deliver' /\ deliver' <= Tasks[next] + 1
      BY <1>b, <3>1, <3>2, <3>3
    <3> QED BY <3>1, <3>3, <3>4, <3>5 DEF Delivered
  <2>3. HeadWoken'
    BY <1>a, <1>b, <1>f, <1>7 DEF CountTask, Goto, exit, files, db, trackers,
       pool, HeadWoken, Sealed, LoopPcs, InLoop
  <2>4. Asked'
    BY <1>a, <1>b, <1>f, <1>7 DEF CountTask, Goto, exit, files, db, trackers,
       pool, Asked, Alive, LeavingPcs, LoopPcs, BoundaryPcs, Undecided
  <2>5. Unwritten'
    BY <1>a, <1>b, <1>f, <1>7 DEF CountTask, Goto, exit, files, db, trackers,
       pool, Unwritten, Alive, EndPcs, LoopPcs, BoundaryPcs, Outside
  <2>6. FailedStops'
    BY <1>a, <1>b, <1>f, <1>7 DEF CountTask, Goto, exit, files, db, trackers,
       pool, FailedStops, Alive
  <2>7. Touched'
    BY <1>a, <1>b, <1>f, <1>7 DEF CountTask, Goto, exit, files, db, trackers,
       pool, Touched, Alive, EndPcs
  <2>8. StopFree'
    BY <1>a, <1>b, <1>f, <1>7 DEF CountTask, Goto, exit, files, db, trackers,
       pool, StopFree, Alive, EndPcs, BoundaryPcs, LeavingPcs, LoopPcs,
       Undecided
  <2>9. OpenFree'
    BY <1>a, <1>b, <1>f, <1>7 DEF CountTask, Goto, exit, files, db, trackers,
       pool, OpenFree, Alive
  <2>10. Verdicts'
    BY <1>a, <1>b, <1>f, <1>7 DEF CountTask, Goto, exit, files, db, trackers,
       pool, Verdicts, BoundaryPcs, Alive, Undecided, LoopPcs
  <2> QED BY <2>1, <2>2, <2>3, <2>4, <2>5, <2>6, <2>7, <2>8, <2>9, <2>10 DEF Serially
<1>8. CASE AbortDelivery
  <2>1. Status'
    BY <1>a, <1>b, <1>f, <1>8 DEF AbortDelivery, Goto, Teardown, loop, exit,
       trackers, files, db, Status, RunPcs, LoopPcs, BoundaryPcs, TeardownPcs,
       Outside
  <2>2. Delivered'
    BY <1>a, <1>b, <1>f, <1>8 DEF AbortDelivery, Goto, Teardown, loop, exit,
       trackers, files, db, Delivered, LoopPcs, BoundaryPcs, InLoop,
       AtBoundary, Outside
  <2>3. HeadWoken'
    BY <1>a, <1>b, <1>f, <1>8 DEF AbortDelivery, Goto, Teardown, loop, exit,
       trackers, files, db, HeadWoken, Sealed, LoopPcs, InLoop
  <2>4. Asked'
    BY <1>a, <1>b, <1>f, <1>8 DEF AbortDelivery, Goto, Teardown, loop, exit,
       trackers, files, db, Asked, Alive, LeavingPcs, LoopPcs, BoundaryPcs,
       Undecided
  <2>5. Unwritten'
    BY <1>a, <1>b, <1>f, <1>8 DEF AbortDelivery, Goto, Teardown, loop, exit,
       trackers, files, db, Unwritten, Alive, EndPcs, LoopPcs, BoundaryPcs,
       Outside
  <2>6. FailedStops'
    BY <1>a, <1>b, <1>f, <1>8 DEF AbortDelivery, Goto, Teardown, loop, exit,
       trackers, files, db, FailedStops, Alive
  <2>7. Touched'
    BY <1>a, <1>b, <1>f, <1>8 DEF AbortDelivery, Goto, Teardown, loop, exit,
       trackers, files, db, Touched, Alive, EndPcs
  <2>8. StopFree'
    BY <1>a, <1>b, <1>f, <1>8 DEF AbortDelivery, Goto, Teardown, loop, exit,
       trackers, files, db, StopFree, Alive, EndPcs, BoundaryPcs, LeavingPcs,
       LoopPcs, Undecided
  <2>9. OpenFree'
    BY <1>a, <1>b, <1>f, <1>8 DEF AbortDelivery, Goto, Teardown, loop, exit,
       trackers, files, db, OpenFree, Alive
  <2>10. Verdicts'
    BY <1>a, <1>b, <1>f, <1>8 DEF AbortDelivery, Goto, Teardown, loop, exit,
       trackers, files, db, Verdicts, BoundaryPcs, Alive, Undecided, LoopPcs
  <2> QED BY <2>1, <2>2, <2>3, <2>4, <2>5, <2>6, <2>7, <2>8, <2>9, <2>10 DEF Serially
<1>9. CASE EndDelivery
  <2>1. Status'
    BY <1>a, <1>b, <1>f, <1>9 DEF EndDelivery, Goto, exit, files, db, Status,
       RunPcs, LoopPcs, BoundaryPcs, TeardownPcs, Outside
  <2>2. Delivered'
    BY <1>a, <1>b, <1>f, <1>9 DEF EndDelivery, Goto, exit, files, db,
       Delivered, LoopPcs, BoundaryPcs, InLoop, AtBoundary, Outside
  <2>3. HeadWoken'
    BY <1>a, <1>b, <1>f, <1>9 DEF EndDelivery, Goto, exit, files, db,
       HeadWoken, Sealed, LoopPcs, InLoop
  <2>4. Asked'
    BY <1>a, <1>b, <1>f, <1>9 DEF EndDelivery, Goto, exit, files, db, Asked,
       Alive, LeavingPcs, LoopPcs, BoundaryPcs, Undecided
  <2>5. Unwritten'
    BY <1>a, <1>b, <1>f, <1>9 DEF EndDelivery, Goto, exit, files, db,
       Unwritten, Alive, EndPcs, LoopPcs, BoundaryPcs, Outside
  <2>6. FailedStops'
    BY <1>a, <1>b, <1>f, <1>9 DEF EndDelivery, Goto, exit, files, db,
       FailedStops, Alive
  <2>7. Touched'
    BY <1>a, <1>b, <1>f, <1>9 DEF EndDelivery, Goto, exit, files, db, Touched,
       Alive, EndPcs
  <2>8. StopFree'
    BY <1>a, <1>b, <1>f, <1>9 DEF EndDelivery, Goto, exit, files, db,
       StopFree, Alive, EndPcs, BoundaryPcs, LeavingPcs, LoopPcs, Undecided
  <2>9. OpenFree'
    BY <1>a, <1>b, <1>f, <1>9 DEF EndDelivery, Goto, exit, files, db,
       OpenFree, Alive
  <2>10. Verdicts'
    BY <1>a, <1>b, <1>f, <1>9 DEF EndDelivery, Goto, exit, files, db,
       Verdicts, BoundaryPcs, Alive, Undecided, LoopPcs
  <2> QED BY <2>1, <2>2, <2>3, <2>4, <2>5, <2>6, <2>7, <2>8, <2>9, <2>10 DEF Serially
<1>10. CASE WaitHead
  <2>1. Status'
    BY <1>a, <1>b, <1>f, <1>10 DEF WaitHead, Goto, loop, exit, pool, trackers,
       files, db, Status, RunPcs, LoopPcs, BoundaryPcs, TeardownPcs, Outside
  <2>2. Delivered'
    BY <1>a, <1>b, <1>f, <1>10 DEF WaitHead, Goto, loop, exit, pool, trackers,
       files, db, Delivered, LoopPcs, BoundaryPcs, InLoop, AtBoundary, Outside
  <2>3. HeadWoken'
    BY <1>a, <1>b, <1>f, <1>10 DEF WaitHead, Goto, loop, exit, pool, trackers,
       files, db, HeadWoken, Sealed, LoopPcs, InLoop
  <2>4. Asked'
    BY <1>a, <1>b, <1>f, <1>10 DEF WaitHead, Goto, loop, exit, pool, trackers,
       files, db, Asked, Alive, LeavingPcs, LoopPcs, BoundaryPcs, Undecided
  <2>5. Unwritten'
    BY <1>a, <1>b, <1>f, <1>10 DEF WaitHead, Goto, loop, exit, pool, trackers,
       files, db, Unwritten, Alive, EndPcs, LoopPcs, BoundaryPcs, Outside
  <2>6. FailedStops'
    BY <1>a, <1>b, <1>f, <1>10 DEF WaitHead, Goto, loop, exit, pool, trackers,
       files, db, FailedStops, Alive
  <2>7. Touched'
    BY <1>a, <1>b, <1>f, <1>10 DEF WaitHead, Goto, loop, exit, pool, trackers,
       files, db, Touched, Alive, EndPcs
  <2>8. StopFree'
    BY <1>a, <1>b, <1>f, <1>10 DEF WaitHead, Goto, loop, exit, pool, trackers,
       files, db, StopFree, Alive, EndPcs, BoundaryPcs, LeavingPcs, LoopPcs,
       Undecided
  <2>9. OpenFree'
    BY <1>a, <1>b, <1>f, <1>10 DEF WaitHead, Goto, loop, exit, pool, trackers,
       files, db, OpenFree, Alive
  <2>10. Verdicts'
    BY <1>a, <1>b, <1>f, <1>10 DEF WaitHead, Goto, loop, exit, pool, trackers,
       files, db, Verdicts, BoundaryPcs, Alive, Undecided, LoopPcs
  <2> QED BY <2>1, <2>2, <2>3, <2>4, <2>5, <2>6, <2>7, <2>8, <2>9, <2>10 DEF Serially
<1>11. CASE CheckHead
  <2>1. Status'
    BY <1>a, <1>b, <1>f, <1>11 DEF CheckHead, Goto, Teardown, loop, trackers,
       files, db, Status, RunPcs, LoopPcs, BoundaryPcs, TeardownPcs, Outside
  <2>2. Delivered'
    BY <1>a, <1>b, <1>f, <1>11 DEF CheckHead, Goto, Teardown, loop, trackers,
       files, db, Delivered, LoopPcs, BoundaryPcs, InLoop, AtBoundary, Outside
  <2>3. HeadWoken'
    BY <1>a, <1>b, <1>f, <1>11 DEF CheckHead, Goto, Teardown, loop, trackers,
       files, db, HeadWoken, Sealed, LoopPcs, InLoop
  <2>4. Asked'
    <3>1. /\ pc = "woken" /\ UNCHANGED <<stop, phase, failure, cancelRequested, verdict>>
          /\ verdict.status = "canceled" => cancelRequested
          /\ canceled => cancelRequested \/ stop # NoStop
      BY <1>a, <1>11 DEF CheckHead, Asked, Alive, LeavingPcs, trackers, db
    <3>2. CASE StopNow # NoStop /\ pc' = "join"
      BY <1>f, <3>1, <3>2 DEF Asked, Alive, LeavingPcs
    <3>3. CASE StopNow = NoStop /\ ~Committable(Head(open)) /\ pc' = "join"
      <4>1. open # <<>> /\ next = cursor + Len(open) /\ \A i \in 1 .. Len(open) : open[i] + 1 = cursor + i
        BY <1>a, <3>1 DEF InLoop, LoopPcs
      <4>2. Head(open) = open[1] /\ Len(open) >= 1 /\ Head(open) \in Unit
        BY <1>b, <4>1, TailFacts
      <4>3. Head(open) = cursor /\ Head(open) < next
        BY <1>b, <4>1, <4>2
      <4>4. Sealed(Head(open)) /\ delivered[Head(open)] = Tasks[Head(open)]
        BY <1>a, <1>f, <3>1, <3>3, <4>2, <4>3 DEF Delivered, HeadWoken, LoopPcs
      <4>5. failure[Head(open)] # "none"
        BY <3>3, <4>4 DEF Committable
      <4> QED BY <1>a, <3>1, <3>3, <4>2, <4>5 DEF Asked, Alive, LeavingPcs
    <3>4. CASE pc' = "admit" /\ UNCHANGED canceled
      BY <1>a, <3>1, <3>4 DEF Asked, Alive, LeavingPcs
    <3> QED BY <1>11, <3>2, <3>3, <3>4 DEF CheckHead, Goto, Teardown
  <2>5. Unwritten'
    BY <1>a, <1>b, <1>f, <1>11 DEF CheckHead, Goto, Teardown, loop, trackers,
       files, db, Unwritten, Alive, EndPcs, LoopPcs, BoundaryPcs, Outside
  <2>6. FailedStops'
    BY <1>a, <1>b, <1>f, <1>11 DEF CheckHead, Goto, Teardown, loop, trackers,
       files, db, FailedStops, Alive
  <2>7. Touched'
    BY <1>a, <1>b, <1>f, <1>11 DEF CheckHead, Goto, Teardown, loop, trackers,
       files, db, Touched, Alive, EndPcs
  <2>8. StopFree'
    BY <1>a, <1>b, <1>f, <1>11 DEF CheckHead, Goto, Teardown, loop, trackers,
       files, db, StopFree, Alive, EndPcs, BoundaryPcs, LeavingPcs, LoopPcs,
       Undecided
  <2>9. OpenFree'
    BY <1>a, <1>b, <1>f, <1>11 DEF CheckHead, Goto, Teardown, loop, trackers,
       files, db, OpenFree, Alive
  <2>10. Verdicts'
    BY <1>a, <1>b, <1>f, <1>11 DEF CheckHead, Goto, Teardown, loop, trackers,
       files, db, Verdicts, BoundaryPcs, Alive, Undecided, LoopPcs
  <2> QED BY <2>1, <2>2, <2>3, <2>4, <2>5, <2>6, <2>7, <2>8, <2>9, <2>10 DEF Serially
<1>12. CASE AdmitCommit
  <2>1. Status'
    BY <1>a, <1>b, <1>f, <1>12 DEF AdmitCommit, Goto, Teardown, loop,
       trackers, files, db, Status, RunPcs, LoopPcs, BoundaryPcs, TeardownPcs,
       Outside
  <2>2. Delivered'
    BY <1>a, <1>b, <1>f, <1>12 DEF AdmitCommit, Goto, Teardown, loop,
       trackers, files, db, Delivered, LoopPcs, BoundaryPcs, InLoop,
       AtBoundary, Outside
  <2>3. HeadWoken'
    BY <1>a, <1>b, <1>f, <1>12 DEF AdmitCommit, Goto, Teardown, loop,
       trackers, files, db, HeadWoken, Sealed, LoopPcs, InLoop
  <2>4. Asked'
    BY <1>a, <1>b, <1>f, <1>12 DEF AdmitCommit, Goto, Teardown, loop,
       trackers, files, db, Asked, Alive, LeavingPcs, LoopPcs, BoundaryPcs,
       Undecided
  <2>5. Unwritten'
    BY <1>a, <1>b, <1>f, <1>12 DEF AdmitCommit, Goto, Teardown, loop,
       trackers, files, db, Unwritten, Alive, EndPcs, LoopPcs, BoundaryPcs,
       Outside
  <2>6. FailedStops'
    BY <1>a, <1>b, <1>f, <1>12 DEF AdmitCommit, Goto, Teardown, loop,
       trackers, files, db, FailedStops, Alive
  <2>7. Touched'
    BY <1>a, <1>b, <1>f, <1>12 DEF AdmitCommit, Goto, Teardown, loop,
       trackers, files, db, Touched, Alive, EndPcs
  <2>8. StopFree'
    BY <1>a, <1>b, <1>f, <1>12 DEF AdmitCommit, Goto, Teardown, loop,
       trackers, files, db, StopFree, Alive, EndPcs, BoundaryPcs, LeavingPcs,
       LoopPcs, Undecided
  <2>9. OpenFree'
    BY <1>a, <1>b, <1>f, <1>12 DEF AdmitCommit, Goto, Teardown, loop,
       trackers, files, db, OpenFree, Alive
  <2>10. Verdicts'
    BY <1>a, <1>b, <1>f, <1>12 DEF AdmitCommit, Goto, Teardown, loop,
       trackers, files, db, Verdicts, BoundaryPcs, Alive, Undecided, LoopPcs
  <2> QED BY <2>1, <2>2, <2>3, <2>4, <2>5, <2>6, <2>7, <2>8, <2>9, <2>10 DEF Serially
<1>13. CASE CommitReturns
  <2>a. /\ Head(open) = cursor /\ cursor \in Unit /\ pc = "commit" /\ pc' = "sync"
        /\ UNCHANGED <<cursor, rows, phase, stop, observed, ending, verdict>>
    <4>1. pc \in LoopPcs /\ open # <<>>
      BY <1>a, <1>13 DEF CommitReturns, InLoop, LoopPcs
    <4>2. Head(open) = cursor /\ cursor \in Unit
      BY <4>1, HeadIsCursor
    <4> QED BY <4>2, <1>13 DEF CommitReturns, db, pool, exit, Goto
  <2>b. PICK status \in {"succeeded", "failed"}
                          \cup (IF canceled THEN {"canceled"} ELSE {}) :
          /\ result' = [unit |-> Head(open), row |-> Row(status, FALSE)]
          /\ \E d \in Landed(status) : disk' = [disk EXCEPT ![Head(open)] = d]
    BY <1>13 DEF CommitReturns
  <2>c. PICK d \in Landed(status) :
          \A v \in Unit : disk'[v] = IF v = cursor THEN d ELSE disk[v]
    BY <1>b, <2>a, <2>b
  <2>1. Status'
    BY <1>a, <1>b, <1>f, <1>13 DEF CommitReturns, Goto, exit, pool, trackers,
       db, Status, RunPcs, LoopPcs, BoundaryPcs, TeardownPcs, Outside
  <2>2. Delivered'
    BY <1>a, <1>b, <1>f, <1>13 DEF CommitReturns, Goto, exit, pool, trackers,
       db, Delivered, LoopPcs, BoundaryPcs, InLoop, AtBoundary, Outside
  <2>3. HeadWoken'
    BY <1>a, <1>b, <1>f, <1>13 DEF CommitReturns, Goto, exit, pool, trackers,
       db, HeadWoken, Sealed, LoopPcs, InLoop
  <2>4. Asked'
    BY <1>a, <1>b, <1>f, <1>13 DEF CommitReturns, Goto, exit, pool, trackers,
       db, Asked, Alive, LeavingPcs, LoopPcs, BoundaryPcs, Undecided
  <2>5. Unwritten'
    BY <1>a, <1>b, <1>f, <1>13 DEF CommitReturns, Goto, exit, pool, trackers,
       db, Unwritten, Alive, EndPcs, LoopPcs, BoundaryPcs, Outside
  <2>6. FailedStops'
    BY <1>a, <1>b, <1>f, <1>13 DEF CommitReturns, Goto, exit, pool, trackers,
       db, FailedStops, Alive
  <2>7. Touched'
    <3>4. \A t \in Task : t[1] = cursor => phase[t] = "encoded"
      BY <1>a, <2>a, TaskFacts DEF Permit, TasksOf
    <3> QED BY <1>a, <1>b, <2>a, <2>c, <3>4 DEF Touched, Alive, EndPcs
  <2>8. StopFree'
    <3>4. stop # NoStop => stop.unit \in Unit /\ stop.unit # cursor
      BY <1>a, <1>b, <2>a DEF StopFree, NothingBehind, Alive
    <3> QED
      BY <1>a, <1>b, <1>f, <2>a, <2>c, <3>4 DEF StopFree, Alive, EndPcs, LoopPcs,
         BoundaryPcs, LeavingPcs
  <2>9. OpenFree'
    <3>1. /\ open # <<>> /\ open' = Tail(open) /\ pc = "commit" /\ pc' = "sync"
          /\ UNCHANGED <<rows, stop, observed>>
      BY <1>a, <1>13 DEF CommitReturns, InLoop, LoopPcs, Goto, db, pool, exit
    <3>4. \A i, j \in 1 .. Len(open) : i < j => open[i] < open[j]
      BY <1>a, <3>1 DEF OpenFree, Alive
    <3>5. /\ \A i \in 1 .. Len(open') :
               /\ i + 1 \in 1 .. Len(open) /\ open'[i] = open[i + 1]
               /\ open'[i] \in Unit /\ open'[i] # Head(open)
          /\ \A i, j \in 1 .. Len(open') : i < j => open'[i] < open'[j]
      BY <1>b, <3>1, <3>4, TailIsAhead
    <3> QED BY <1>a, <3>1, <3>5 DEF OpenFree, Alive
  <2>10. Verdicts'
    <3>4. result'.row.status = status
      BY <1>f, <2>b
    <3>5. status = "succeeded" <=> d = "landed"
      BY DEF Landed
    <3>6. ending = "none" /\ verdict.status # "succeeded"
      BY <1>a, <2>a DEF Undecided, Verdicts, LoopPcs
    <3> QED BY <2>a, <2>c, <3>4, <3>5, <3>6 DEF Verdicts, BoundaryPcs
  <2> QED BY <2>1, <2>2, <2>3, <2>4, <2>5, <2>6, <2>7, <2>8, <2>9, <2>10 DEF Serially
<1>14. CASE SyncInventory
  <2>1. Status'
    BY <1>a, <1>b, <1>f, <1>14 DEF SyncInventory, Goto, exit, pool, trackers,
       files, Status, RunPcs, LoopPcs, BoundaryPcs, TeardownPcs, Outside
  <2>2. Delivered'
    BY <1>a, <1>b, <1>f, <1>14 DEF SyncInventory, Goto, exit, pool, trackers,
       files, Delivered, LoopPcs, BoundaryPcs, InLoop, AtBoundary, Outside
  <2>3. HeadWoken'
    BY <1>a, <1>b, <1>f, <1>14 DEF SyncInventory, Goto, exit, pool, trackers,
       files, HeadWoken, Sealed, LoopPcs, InLoop
  <2>4. Asked'
    BY <1>a, <1>b, <1>f, <1>14 DEF SyncInventory, Goto, exit, pool, trackers,
       files, Asked, Alive, LeavingPcs, LoopPcs, BoundaryPcs, Undecided
  <2>5. Unwritten'
    BY <1>a, <1>b, <1>f, <1>14 DEF SyncInventory, Goto, exit, pool, trackers,
       files, Unwritten, Alive, EndPcs, LoopPcs, BoundaryPcs, Outside
  <2>6. FailedStops'
    BY <1>a, <1>b, <1>f, <1>14 DEF SyncInventory, Goto, exit, pool, trackers,
       files, FailedStops, Alive
  <2>7. Touched'
    BY <1>a, <1>b, <1>f, <1>14 DEF SyncInventory, Goto, exit, pool, trackers,
       files, Touched, Alive, EndPcs
  <2>8. StopFree'
    BY <1>a, <1>b, <1>f, <1>14 DEF SyncInventory, Goto, exit, pool, trackers,
       files, StopFree, Alive, EndPcs, BoundaryPcs, LeavingPcs, LoopPcs,
       Undecided
  <2>9. OpenFree'
    BY <1>a, <1>b, <1>f, <1>14 DEF SyncInventory, Goto, exit, pool, trackers,
       files, OpenFree, Alive
  <2>10. Verdicts'
    <3>1. /\ pc = "sync" /\ pc' = "record" /\ UNCHANGED <<disk, cursor, ending, verdict>>
          /\ result'.row.status = result.row.status
      BY <1>b, <1>14 DEF SyncInventory, Goto, exit, files, RowType
    <3>2. ending = "none" /\ verdict.status # "succeeded"
      BY <1>a, <3>1 DEF Undecided, Verdicts, BoundaryPcs
    <3> QED BY <1>a, <3>1, <3>2 DEF Verdicts, BoundaryPcs
  <2> QED BY <2>1, <2>2, <2>3, <2>4, <2>5, <2>6, <2>7, <2>8, <2>9, <2>10 DEF Serially
<1>15. CASE RecordHead
  <2>a. /\ cursor \in Unit /\ result.unit = cursor /\ pc = "record"
        /\ UNCHANGED <<cursor, disk, open, stop, phase>>
        /\ result.row.status \in {"succeeded", "failed", "canceled"}
        /\ observed = NoStop
    BY <1>a, <1>b, <1>15 DEF RecordHead, AtBoundary, BoundaryPcs, Unit, HeadResult,
       Undecided, files, loop
  <2>b. \/ /\ pc' = "join" /\ rows' = rows
           /\ observed' = NoStop
        \/ /\ pc' = "settle" /\ rows' = [rows EXCEPT ![cursor] = result.row]
           /\ UNCHANGED <<observed, ending>>
    BY <2>a, <1>15 DEF RecordHead, SaveResult, Goto, Teardown
  <2>c. \A v \in Unit : \/ rows'[v] = rows[v]
                        \/ pc' = "settle" /\ v = cursor /\ rows'[v] = result.row
    BY <1>b, <2>a, <2>b
  <2>d. \A v \in Unit : v # cursor => rows'[v] = rows[v]
    BY <2>c
  <2>e. \A v \in Unit : v > cursor => v # cursor
    BY <1>b
  <2>1. Status'
    BY <1>a, <1>b, <1>f, <1>15 DEF RecordHead, Goto, Teardown, SaveResult,
       loop, trackers, files, Status, RunPcs, LoopPcs, BoundaryPcs,
       TeardownPcs, Outside
  <2>2. Delivered'
    BY <1>a, <1>b, <1>f, <1>15 DEF RecordHead, Goto, Teardown, SaveResult,
       loop, trackers, files, Delivered, LoopPcs, BoundaryPcs, InLoop,
       AtBoundary, Outside
  <2>3. HeadWoken'
    BY <1>a, <1>b, <1>f, <1>15 DEF RecordHead, Goto, Teardown, SaveResult,
       loop, trackers, files, HeadWoken, Sealed, LoopPcs, InLoop
  <2>4. Asked'
    BY <1>a, <1>b, <1>f, <1>15 DEF RecordHead, Goto, Teardown, SaveResult,
       loop, trackers, files, Asked, Alive, LeavingPcs, LoopPcs, BoundaryPcs,
       Undecided
  <2>5. Unwritten'
    <3>6. \A v \in Unit : v > cursor => rows'[v].status = "none"
      BY <1>a, <2>a, <2>d, <2>e DEF Unwritten, Alive, EndPcs
    <3>7. \A v \in Unit : rows'[v].status # "pending"
      BY <1>a, <2>a, <2>c DEF Unwritten, Alive, EndPcs
    <3> QED BY <2>a, <2>b, <3>6, <3>7 DEF Unwritten, LoopPcs
  <2>6. FailedStops'
    <3> QED BY <1>a, <2>a, <2>c DEF FailedStops, Alive
  <2>7. Touched'
    <3>6. \A t \in Task : t[1] = cursor => phase[t] = "encoded"
      BY <1>a, <2>a DEF PastEncoded, Alive, BoundaryPcs
    <3>7. \A t \in Task : t[1] # cursor => rows'[t[1]] = rows[t[1]]
      BY <1>b, <2>d
    <3> QED BY <1>a, <2>a, <3>6, <3>7 DEF Touched, Alive, EndPcs
  <2>8. StopFree'
    <3>6. stop # NoStop => stop.unit \in Unit /\ stop.unit > cursor /\ rows'[stop.unit] = rows[stop.unit]
      <4>1. stop # NoStop => stop.unit \in Unit /\ stop.unit > cursor
        BY <1>a, <2>a DEF StopFree, NothingBehind, Alive, BoundaryPcs
      <4> QED BY <2>d, <2>e, <4>1
    <3> QED
      BY <1>a, <1>f, <2>a, <2>b, <3>6 DEF StopFree, Alive, EndPcs, LoopPcs,
         BoundaryPcs, LeavingPcs
  <2>9. OpenFree'
    <3>6. ASSUME NEW i \in 1 .. Len(open)
          PROVE  open[i] # cursor /\ rows'[open[i]] = rows[open[i]]
      <4>1. open[i] = cursor + i
        BY <1>a, <2>a DEF AtBoundary, BoundaryPcs
      <4>2. open[i] # cursor
        BY <1>b, <4>1
      <4> QED BY <1>b, <2>d, <4>2
    <3> QED BY <1>a, <2>a, <3>6 DEF OpenFree, Alive
  <2>10. Verdicts'
    BY <1>a, <1>b, <1>f, <1>15 DEF RecordHead, Goto, Teardown, SaveResult,
       loop, trackers, files, Verdicts, BoundaryPcs, Alive, Undecided, LoopPcs
  <2> QED BY <2>1, <2>2, <2>3, <2>4, <2>5, <2>6, <2>7, <2>8, <2>9, <2>10 DEF Serially
<1>16. CASE SettleHead
  <2>a. /\ pc = "settle" /\ cursor \in Unit /\ result.unit = cursor
        /\ rows[cursor] = result.row
        /\ UNCHANGED <<rows, phase, failure, cancelRequested, verdict>>
        /\ result.row.status \in {"succeeded", "failed", "canceled"}
        /\ result.row.status = "canceled" => canceled
        /\ ending = "none"
    BY <1>a, <1>b, <1>16 DEF SettleHead, AtBoundary, BoundaryPcs, HeadResult, Unit,
       Undecided, trackers, db
  <2>b. Stop(cursor, "commit") # NoStop
    BY <1>b, <1>f, <2>a
  <2>c. \/ /\ result.row.status = "failed" /\ pc' = "join" /\ stop' # NoStop
           /\ ending' = "stop"
        \/ /\ result.row.status # "failed" /\ StopNow # NoStop /\ pc' = "join"
           /\ ending' = "stop" /\ stop' = stop
        \/ /\ result.row.status # "failed" /\ StopNow = NoStop /\ pc' = "join"
           /\ ending' = "all" /\ stop' = stop /\ cursor = NumUnits
        \/ /\ result.row.status # "failed" /\ StopNow = NoStop /\ pc' = "top"
           /\ ending' = ending /\ stop' = stop /\ UNCHANGED canceled
    BY <2>a, <2>b, <1>16 DEF SettleHead, RequestStop, Teardown, Goto
  <2>1. Status'
    BY <1>a, <1>b, <1>f, <1>16 DEF SettleHead, Goto, Teardown, RequestStop,
       trackers, files, db, Status, RunPcs, LoopPcs, BoundaryPcs, TeardownPcs,
       Outside
  <2>2. Delivered'
    BY <1>a, <1>b, <1>f, <1>16 DEF SettleHead, Goto, Teardown, RequestStop,
       trackers, files, db, Delivered, LoopPcs, BoundaryPcs, InLoop,
       AtBoundary, Outside
  <2>3. HeadWoken'
    BY <1>a, <1>b, <1>f, <1>16 DEF SettleHead, Goto, Teardown, RequestStop,
       trackers, files, db, HeadWoken, Sealed, LoopPcs, InLoop
  <2>4. Asked'
    <3>4. /\ canceled => cancelRequested \/ stop # NoStop
          /\ verdict.status = "canceled" => cancelRequested
      BY <1>a, <2>a DEF Asked, Alive, LeavingPcs
    <3> QED BY <1>a, <1>f, <2>a, <2>c, <3>4 DEF Asked, Alive, LeavingPcs
  <2>5. Unwritten'
    BY <1>a, <1>b, <1>f, <1>16 DEF SettleHead, Goto, Teardown, RequestStop,
       trackers, files, db, Unwritten, Alive, EndPcs, LoopPcs, BoundaryPcs,
       Outside
  <2>6. FailedStops'
    <3> QED BY <1>a, <1>f, <2>a, <2>c DEF FailedStops, Alive
  <2>7. Touched'
    BY <1>a, <1>b, <1>f, <1>16 DEF SettleHead, Goto, Teardown, RequestStop,
       trackers, files, db, Touched, Alive, EndPcs
  <2>8. StopFree'
    BY <1>a, <1>b, <1>f, <1>16 DEF SettleHead, Goto, Teardown, RequestStop,
       trackers, files, db, StopFree, Alive, EndPcs, BoundaryPcs, LeavingPcs,
       LoopPcs, Undecided
  <2>9. OpenFree'
    BY <1>a, <1>b, <1>f, <1>16 DEF SettleHead, Goto, Teardown, RequestStop,
       trackers, files, db, OpenFree, Alive
  <2>10. Verdicts'
    <3>4. ASSUME ending' = "all" PROVE \A v \in Unit : rows[v].status = "succeeded"
      <4>1. cursor = NumUnits /\ rows[cursor].status = "succeeded"
        BY <1>f, <2>a, <2>c, <3>4
      <4>2. \A v \in Unit : v < cursor \/ v = cursor
        BY <1>b, <4>1
      <4> QED BY <1>a, <2>a, <4>1, <4>2 DEF Settled, Alive
    <3>5. verdict.status # "succeeded"
      BY <1>a, <2>a DEF Verdicts
    <3> QED BY <2>a, <2>c, <3>4, <3>5 DEF Verdicts, BoundaryPcs
  <2> QED BY <2>1, <2>2, <2>3, <2>4, <2>5, <2>6, <2>7, <2>8, <2>9, <2>10 DEF Serially
<1>17. CASE Join
  <2>a. /\ pc = "join"
        /\ UNCHANGED <<cursor, open, stop, phase, ending, disk, rows, cancelRequested>>
        /\ \A t \in Task : phase[t] # "reporting"
        /\ pc' \in {"discard", "report", "finish"}
    BY <1>17 DEF Join, Drained, Busy, Goto, EndWith, loop, pool, trackers, files, db
  <2>b. \/ /\ ending = "all" /\ verdict' = Verdict("succeeded", "none", 0)
           /\ observed' = observed /\ pc' = "finish"
        \/ ending = "head" /\ UNCHANGED <<verdict, observed>> /\ pc' = "discard"
        \/ /\ ending = "stop" /\ observed' = FinalStop /\ FinalStop.unit = 0
           /\ verdict' = Verdict("canceled", "canceled", 0) /\ pc' = "discard"
        \/ /\ ending = "stop" /\ observed' = FinalStop /\ FinalStop.unit # 0
           /\ verdict' = Verdict("failed", "unit", FinalStop.unit) /\ pc' = "report"
    BY <1>17 DEF Join, EndWith, Goto
  <2>c. stop # NoStop => FinalStop = stop /\ stop.unit # 0
    BY <1>a, <1>b, <2>a DEF NothingBehind, Alive, FinalStop
  <2>1. Status'
    BY <1>a, <1>b, <1>f, <1>17 DEF Join, Goto, EndWith, Drained, Busy, loop,
       pool, trackers, files, db, Status, RunPcs, LoopPcs, BoundaryPcs,
       TeardownPcs, Outside
  <2>2. Delivered'
    BY <1>a, <1>b, <1>f, <1>17 DEF Join, Goto, EndWith, Drained, Busy, loop,
       pool, trackers, files, db, Delivered, LoopPcs, BoundaryPcs, InLoop,
       AtBoundary, Outside
  <2>3. HeadWoken'
    BY <1>a, <1>b, <1>f, <1>17 DEF Join, Goto, EndWith, Drained, Busy, loop,
       pool, trackers, files, db, HeadWoken, Sealed, LoopPcs, InLoop
  <2>4. Asked'
    <3>4. /\ ending = "stop" => cancelRequested \/ stop # NoStop
          /\ ending = "head" => verdict.status = "failed"
      BY <1>a, <2>a DEF Asked, Decided
    <3> QED BY <1>f, <2>a, <2>b, <2>c, <3>4 DEF Asked, Alive, LeavingPcs
  <2>5. Unwritten'
    BY <1>a, <1>b, <1>f, <1>17 DEF Join, Goto, EndWith, Drained, Busy, loop,
       pool, trackers, files, db, Unwritten, Alive, EndPcs, LoopPcs,
       BoundaryPcs, Outside
  <2>6. FailedStops'
    BY <1>a, <1>b, <1>f, <1>17 DEF Join, Goto, EndWith, Drained, Busy, loop,
       pool, trackers, files, db, FailedStops, Alive
  <2>7. Touched'
    BY <1>a, <1>b, <1>f, <1>17 DEF Join, Goto, EndWith, Drained, Busy, loop,
       pool, trackers, files, db, Touched, Alive, EndPcs
  <2>8. StopFree'
    <3>4. stop = NoStop => FinalStop = observed /\ observed.unit = 0
      BY <1>a, <1>b, <2>a DEF StopFree, Alive, FinalStop
    <3>5. observed'.unit # 0 => stop # NoStop /\ observed' = stop
      BY <1>a, <2>a, <2>b, <2>c, <3>4 DEF StopFree
    <3>6. ending \in {"all", "head"} => observed'.unit = 0
      BY <1>a, <2>b DEF StopFree
    <3> QED
      BY <1>a, <2>a, <3>5, <3>6 DEF StopFree, Alive, EndPcs, LoopPcs, BoundaryPcs
  <2>9. OpenFree'
    BY <1>a, <1>b, <1>f, <1>17 DEF Join, Goto, EndWith, Drained, Busy, loop,
       pool, trackers, files, db, OpenFree, Alive
  <2>10. Verdicts'
    <3>4. /\ ending = "head" => verdict.status = "failed"
          /\ ending = "all" => \A v \in Unit : rows[v].status = "succeeded"
      BY <1>a, <2>a DEF Verdicts, Decided, Alive
    <3> QED BY <1>f, <2>a, <2>b, <3>4 DEF Verdicts, BoundaryPcs, Alive
  <2> QED BY <2>1, <2>2, <2>3, <2>4, <2>5, <2>6, <2>7, <2>8, <2>9, <2>10 DEF Serially
<1>18. CASE ReportFailedUnit
  <2>a. /\ UNCHANGED <<cursor, open, stop, observed>> /\ pc = "report" /\ pc' = "discard"
    BY <1>18 DEF ReportFailedUnit, Goto, loop, exit, pool
  <2>b. observed.unit \in Unit /\ observed.unit # 0
    BY <1>a, <1>b, <2>a DEF Outside
  <2>c. stop # NoStop /\ observed = stop
    BY <1>a, <2>a, <2>b DEF StopFree, Alive, LeavingPcs
  <2>1. Status'
    BY <1>a, <1>b, <1>f, <1>18 DEF ReportFailedUnit, Goto, SaveResult, loop,
       exit, pool, trackers, Status, RunPcs, LoopPcs, BoundaryPcs,
       TeardownPcs, Outside
  <2>2. Delivered'
    BY <1>a, <1>b, <1>f, <1>18 DEF ReportFailedUnit, Goto, SaveResult, loop,
       exit, pool, trackers, Delivered, LoopPcs, BoundaryPcs, InLoop,
       AtBoundary, Outside
  <2>3. HeadWoken'
    BY <1>a, <1>b, <1>f, <1>18 DEF ReportFailedUnit, Goto, SaveResult, loop,
       exit, pool, trackers, HeadWoken, Sealed, LoopPcs, InLoop
  <2>4. Asked'
    BY <1>a, <1>b, <1>f, <1>18 DEF ReportFailedUnit, Goto, SaveResult, loop,
       exit, pool, trackers, Asked, Alive, LeavingPcs, LoopPcs, BoundaryPcs,
       Undecided
  <2>5. Unwritten'
    BY <1>a, <1>b, <1>f, <1>18 DEF ReportFailedUnit, Goto, SaveResult, loop,
       exit, pool, trackers, Unwritten, Alive, EndPcs, LoopPcs, BoundaryPcs,
       Outside
  <2>6. FailedStops'
    <3> QED BY <2>a, <2>c DEF FailedStops
  <2>7. Touched'
    BY <1>a, <1>b, <1>f, <1>18 DEF ReportFailedUnit, Goto, SaveResult, loop,
       exit, pool, trackers, Touched, Alive, EndPcs
  <2>8. StopFree'
    BY <1>a, <1>b, <1>f, <1>18 DEF ReportFailedUnit, Goto, SaveResult, loop,
       exit, pool, trackers, StopFree, Alive, EndPcs, BoundaryPcs, LeavingPcs,
       LoopPcs, Undecided
  <2>9. OpenFree'
    <3>4. \/ rows' = rows
          \/ observed.at # "commit" /\ rows' = [rows EXCEPT ![observed.unit] = Row("failed", FALSE)]
      BY <1>18 DEF ReportFailedUnit, SaveResult
    <3>5. observed.at \in {"prepare", "encode", "commit"}
      BY <1>b, <2>b
    <3>6. observed = Stop(observed.unit, observed.at)
      BY <1>b, <2>b DEF StopType, Stop, NoStop, CancelStop
    <3>7. ASSUME NEW i \in 1 .. Len(open)
          PROVE  rows'[open[i]].status = "none" \/ observed = Stop(open[i], "encode")
      <4>1. /\ open[i] \in Unit /\ rows[open[i]].status = "none"
            /\ stop.at = "prepare" => stop.unit # open[i]
        BY <1>a, <1>b, <2>a DEF OpenFree, Alive
      <4>2. CASE rows'[open[i]] = rows[open[i]]
        BY <4>1, <4>2
      <4>3. CASE observed.at # "commit" /\ open[i] = observed.unit
        <5>1. observed.at = "encode"
          BY <2>c, <3>5, <4>1, <4>3
        <5> QED BY <3>6, <4>3, <5>1
      <4> QED BY <1>b, <2>b, <3>4, <4>1, <4>2, <4>3
    <3> QED BY <1>a, <2>a, <3>7 DEF OpenFree, Alive
  <2>10. Verdicts'
    BY <1>a, <1>b, <1>f, <1>18 DEF ReportFailedUnit, Goto, SaveResult, loop,
       exit, pool, trackers, Verdicts, BoundaryPcs, Alive, Undecided, LoopPcs
  <2> QED BY <2>1, <2>2, <2>3, <2>4, <2>5, <2>6, <2>7, <2>8, <2>9, <2>10 DEF Serially
<1>19. CASE DiscardOpen
  <2>a. /\ UNCHANGED <<cursor, stop, observed>> /\ pc = "discard" /\ pc' = "discard"
        /\ open # <<>> /\ open' = Tail(open)
    BY <1>19 DEF DiscardOpen, exit, pool
  <2>b. /\ Head(open) = open[1] /\ Head(open) \in Unit
        /\ Len(open') \in Nat /\ Len(open) = Len(open') + 1
        /\ \A i \in 1 .. Len(open') : open'[i] = open[i + 1]
    BY <1>b, <2>a, TailFacts
  <2>c. \A v \in Unit : \/ rows'[v] = rows[v]
                        \/ v = Head(open) /\ rows'[v].status = "pending"
    <4>1. rows' = rows \/ rows' = [rows EXCEPT ![Head(open)] = Row("pending", FALSE)]
      BY <1>19 DEF DiscardOpen, SaveResult, DiscardedRow
    <4> QED BY <1>b, <2>b, <4>1 DEF Row
  <2>1. Status'
    BY <1>a, <1>b, <1>f, <1>19 DEF DiscardOpen, Goto, SaveResult, exit, pool,
       trackers, Status, RunPcs, LoopPcs, BoundaryPcs, TeardownPcs, Outside
  <2>2. Delivered'
    BY <1>a, <1>b, <1>f, <1>19 DEF DiscardOpen, Goto, SaveResult, exit, pool,
       trackers, Delivered, LoopPcs, BoundaryPcs, InLoop, AtBoundary, Outside
  <2>3. HeadWoken'
    BY <1>a, <1>b, <1>f, <1>19 DEF DiscardOpen, Goto, SaveResult, exit, pool,
       trackers, HeadWoken, Sealed, LoopPcs, InLoop
  <2>4. Asked'
    BY <1>a, <1>b, <1>f, <1>19 DEF DiscardOpen, Goto, SaveResult, exit, pool,
       trackers, Asked, Alive, LeavingPcs, LoopPcs, BoundaryPcs, Undecided
  <2>5. Unwritten'
    BY <1>a, <1>b, <1>f, <1>19 DEF DiscardOpen, Goto, SaveResult, exit, pool,
       trackers, Unwritten, Alive, EndPcs, LoopPcs, BoundaryPcs, Outside
  <2>6. FailedStops'
    <3> QED BY <1>a, <2>a, <2>c DEF FailedStops, Alive
  <2>7. Touched'
    BY <1>a, <1>b, <1>f, <1>19 DEF DiscardOpen, Goto, SaveResult, exit, pool,
       trackers, Touched, Alive, EndPcs
  <2>8. StopFree'
    BY <1>a, <1>b, <1>f, <1>19 DEF DiscardOpen, Goto, SaveResult, exit, pool,
       trackers, StopFree, Alive, EndPcs, BoundaryPcs, LeavingPcs, LoopPcs,
       Undecided
  <2>9. OpenFree'
    <3>4. \A i, j \in 1 .. Len(open) : i < j => open[i] < open[j]
      BY <1>a, <2>a DEF OpenFree, Alive
    <3>5. /\ \A i \in 1 .. Len(open') :
               /\ i + 1 \in 1 .. Len(open) /\ open'[i] = open[i + 1]
               /\ open'[i] \in Unit /\ open'[i] # Head(open)
          /\ \A i, j \in 1 .. Len(open') : i < j => open'[i] < open'[j]
      BY <1>b, <2>a, <3>4, TailIsAhead
    <3>6. \A i \in 1 .. Len(open') : rows'[open'[i]] = rows[open[i + 1]]
      BY <2>c, <3>5
    <3> QED BY <1>a, <2>a, <3>5, <3>6 DEF OpenFree, Alive
  <2>10. Verdicts'
    BY <1>a, <1>b, <1>f, <1>19 DEF DiscardOpen, Goto, SaveResult, exit, pool,
       trackers, Verdicts, BoundaryPcs, Alive, Undecided, LoopPcs
  <2> QED BY <2>1, <2>2, <2>3, <2>4, <2>5, <2>6, <2>7, <2>8, <2>9, <2>10 DEF Serially
<1>20. CASE DiscardEnds
  <2>1. Status'
    BY <1>a, <1>b, <1>f, <1>20 DEF DiscardEnds, Goto, loop, exit, pool,
       trackers, files, db, Status, RunPcs, LoopPcs, BoundaryPcs, TeardownPcs,
       Outside
  <2>2. Delivered'
    BY <1>a, <1>b, <1>f, <1>20 DEF DiscardEnds, Goto, loop, exit, pool,
       trackers, files, db, Delivered, LoopPcs, BoundaryPcs, InLoop,
       AtBoundary, Outside
  <2>3. HeadWoken'
    BY <1>a, <1>b, <1>f, <1>20 DEF DiscardEnds, Goto, loop, exit, pool,
       trackers, files, db, HeadWoken, Sealed, LoopPcs, InLoop
  <2>4. Asked'
    BY <1>a, <1>b, <1>f, <1>20 DEF DiscardEnds, Goto, loop, exit, pool,
       trackers, files, db, Asked, Alive, LeavingPcs, LoopPcs, BoundaryPcs,
       Undecided
  <2>5. Unwritten'
    BY <1>a, <1>b, <1>f, <1>20 DEF DiscardEnds, Goto, loop, exit, pool,
       trackers, files, db, Unwritten, Alive, EndPcs, LoopPcs, BoundaryPcs,
       Outside
  <2>6. FailedStops'
    BY <1>a, <1>b, <1>f, <1>20 DEF DiscardEnds, Goto, loop, exit, pool,
       trackers, files, db, FailedStops, Alive
  <2>7. Touched'
    BY <1>a, <1>b, <1>f, <1>20 DEF DiscardEnds, Goto, loop, exit, pool,
       trackers, files, db, Touched, Alive, EndPcs
  <2>8. StopFree'
    BY <1>a, <1>b, <1>f, <1>20 DEF DiscardEnds, Goto, loop, exit, pool,
       trackers, files, db, StopFree, Alive, EndPcs, BoundaryPcs, LeavingPcs,
       LoopPcs, Undecided
  <2>9. OpenFree'
    BY <1>a, <1>b, <1>f, <1>20 DEF DiscardEnds, Goto, loop, exit, pool,
       trackers, files, db, OpenFree, Alive
  <2>10. Verdicts'
    BY <1>a, <1>b, <1>f, <1>20 DEF DiscardEnds, Goto, loop, exit, pool,
       trackers, files, db, Verdicts, BoundaryPcs, Alive, Undecided, LoopPcs
  <2> QED BY <2>1, <2>2, <2>3, <2>4, <2>5, <2>6, <2>7, <2>8, <2>9, <2>10 DEF Serially
<1>21. CASE Finish
  <2>1. Status'
    BY <1>a, <1>b, <1>f, <1>21 DEF Finish, Goto, loop, exit, pool, trackers,
       files, Status, RunPcs, LoopPcs, BoundaryPcs, TeardownPcs, Outside
  <2>2. Delivered'
    BY <1>a, <1>b, <1>f, <1>21 DEF Finish, Goto, loop, exit, pool, trackers,
       files, Delivered, LoopPcs, BoundaryPcs, InLoop, AtBoundary, Outside
  <2>3. HeadWoken'
    BY <1>a, <1>b, <1>f, <1>21 DEF Finish, Goto, loop, exit, pool, trackers,
       files, HeadWoken, Sealed, LoopPcs, InLoop
  <2>4. Asked'
    BY <1>a, <1>b, <1>f, <1>21 DEF Finish, Goto, loop, exit, pool, trackers,
       files, Asked, Alive, LeavingPcs, LoopPcs, BoundaryPcs, Undecided
  <2>5. Unwritten'
    BY <1>a, <1>b, <1>f, <1>21 DEF Finish, Goto, loop, exit, pool, trackers,
       files, Unwritten, Alive, EndPcs, LoopPcs, BoundaryPcs, Outside
  <2>6. FailedStops'
    BY <1>a, <1>b, <1>f, <1>21 DEF Finish, Goto, loop, exit, pool, trackers,
       files, FailedStops, Alive
  <2>7. Touched'
    BY <1>a, <1>b, <1>f, <1>21 DEF Finish, Goto, loop, exit, pool, trackers,
       files, Touched, Alive, EndPcs
  <2>8. StopFree'
    BY <1>a, <1>b, <1>f, <1>21 DEF Finish, Goto, loop, exit, pool, trackers,
       files, StopFree, Alive, EndPcs, BoundaryPcs, LeavingPcs, LoopPcs,
       Undecided
  <2>9. OpenFree'
    BY <1>a, <1>b, <1>f, <1>21 DEF Finish, Goto, loop, exit, pool, trackers,
       files, OpenFree, Alive
  <2>10. Verdicts'
    BY <1>a, <1>b, <1>f, <1>21 DEF Finish, Goto, loop, exit, pool, trackers,
       files, Verdicts, BoundaryPcs, Alive, Undecided, LoopPcs
  <2> QED BY <2>1, <2>2, <2>3, <2>4, <2>5, <2>6, <2>7, <2>8, <2>9, <2>10 DEF Serially
<1>22. CASE RequestCancel
  <2>1. Status'
    BY <1>a, <1>b, <1>f, <1>22 DEF RequestCancel, coordinator, loop, exit,
       pool, trackers, files, Status, RunPcs, LoopPcs, BoundaryPcs,
       TeardownPcs, Outside
  <2>2. Delivered'
    BY <1>a, <1>b, <1>f, <1>22 DEF RequestCancel, coordinator, loop, exit,
       pool, trackers, files, Delivered, LoopPcs, BoundaryPcs, InLoop,
       AtBoundary, Outside
  <2>3. HeadWoken'
    BY <1>a, <1>b, <1>f, <1>22 DEF RequestCancel, coordinator, loop, exit,
       pool, trackers, files, HeadWoken, Sealed, LoopPcs, InLoop
  <2>4. Asked'
    BY <1>a, <1>b, <1>f, <1>22 DEF RequestCancel, coordinator, loop, exit,
       pool, trackers, files, Asked, Alive, LeavingPcs, LoopPcs, BoundaryPcs,
       Undecided
  <2>5. Unwritten'
    BY <1>a, <1>b, <1>f, <1>22 DEF RequestCancel, coordinator, loop, exit,
       pool, trackers, files, Unwritten, Alive, EndPcs, LoopPcs, BoundaryPcs,
       Outside
  <2>6. FailedStops'
    BY <1>a, <1>b, <1>f, <1>22 DEF RequestCancel, coordinator, loop, exit,
       pool, trackers, files, FailedStops, Alive
  <2>7. Touched'
    BY <1>a, <1>b, <1>f, <1>22 DEF RequestCancel, coordinator, loop, exit,
       pool, trackers, files, Touched, Alive, EndPcs
  <2>8. StopFree'
    BY <1>a, <1>b, <1>f, <1>22 DEF RequestCancel, coordinator, loop, exit,
       pool, trackers, files, StopFree, Alive, EndPcs, BoundaryPcs,
       LeavingPcs, LoopPcs, Undecided
  <2>9. OpenFree'
    BY <1>a, <1>b, <1>f, <1>22 DEF RequestCancel, coordinator, loop, exit,
       pool, trackers, files, OpenFree, Alive
  <2>10. Verdicts'
    BY <1>a, <1>b, <1>f, <1>22 DEF RequestCancel, coordinator, loop, exit,
       pool, trackers, files, Verdicts, BoundaryPcs, Alive, Undecided, LoopPcs
  <2> QED BY <2>1, <2>2, <2>3, <2>4, <2>5, <2>6, <2>7, <2>8, <2>9, <2>10 DEF Serially
<1>23. CASE ObserveCancel
  <2>1. Status'
    BY <1>a, <1>b, <1>f, <1>23 DEF ObserveCancel, coordinator, loop, exit,
       trackers, files, db, Status, RunPcs, LoopPcs, BoundaryPcs, TeardownPcs,
       Outside
  <2>2. Delivered'
    BY <1>a, <1>b, <1>f, <1>23 DEF ObserveCancel, coordinator, loop, exit,
       trackers, files, db, Delivered, LoopPcs, BoundaryPcs, InLoop,
       AtBoundary, Outside
  <2>3. HeadWoken'
    BY <1>a, <1>b, <1>f, <1>23 DEF ObserveCancel, coordinator, loop, exit,
       trackers, files, db, HeadWoken, Sealed, LoopPcs, InLoop
  <2>4. Asked'
    BY <1>a, <1>b, <1>f, <1>23 DEF ObserveCancel, coordinator, loop, exit,
       trackers, files, db, Asked, Alive, LeavingPcs, LoopPcs, BoundaryPcs,
       Undecided
  <2>5. Unwritten'
    BY <1>a, <1>b, <1>f, <1>23 DEF ObserveCancel, coordinator, loop, exit,
       trackers, files, db, Unwritten, Alive, EndPcs, LoopPcs, BoundaryPcs,
       Outside
  <2>6. FailedStops'
    BY <1>a, <1>b, <1>f, <1>23 DEF ObserveCancel, coordinator, loop, exit,
       trackers, files, db, FailedStops, Alive
  <2>7. Touched'
    BY <1>a, <1>b, <1>f, <1>23 DEF ObserveCancel, coordinator, loop, exit,
       trackers, files, db, Touched, Alive, EndPcs
  <2>8. StopFree'
    BY <1>a, <1>b, <1>f, <1>23 DEF ObserveCancel, coordinator, loop, exit,
       trackers, files, db, StopFree, Alive, EndPcs, BoundaryPcs, LeavingPcs,
       LoopPcs, Undecided
  <2>9. OpenFree'
    BY <1>a, <1>b, <1>f, <1>23 DEF ObserveCancel, coordinator, loop, exit,
       trackers, files, db, OpenFree, Alive
  <2>10. Verdicts'
    BY <1>a, <1>b, <1>f, <1>23 DEF ObserveCancel, coordinator, loop, exit,
       trackers, files, db, Verdicts, BoundaryPcs, Alive, Undecided, LoopPcs
  <2> QED BY <2>1, <2>2, <2>3, <2>4, <2>5, <2>6, <2>7, <2>8, <2>9, <2>10 DEF Serially
<1>24. CASE Crash
  <2>1. Status'
    BY <1>a, <1>b, <1>f, <1>24 DEF Crash, Goto, db, Status, RunPcs, LoopPcs,
       BoundaryPcs, TeardownPcs, Outside
  <2>2. Delivered'
    BY <1>a, <1>b, <1>f, <1>24 DEF Crash, Goto, db, Delivered, LoopPcs,
       BoundaryPcs, InLoop, AtBoundary, Outside
  <2>3. HeadWoken'
    BY <1>a, <1>b, <1>f, <1>24 DEF Crash, Goto, db, HeadWoken, Sealed,
       LoopPcs, InLoop
  <2>4. Asked'
    BY <1>a, <1>b, <1>f, <1>24 DEF Crash, Goto, db, Asked, Alive, LeavingPcs,
       LoopPcs, BoundaryPcs, Undecided
  <2>5. Unwritten'
    BY <1>a, <1>b, <1>f, <1>24 DEF Crash, Goto, db, Unwritten, Alive, EndPcs,
       LoopPcs, BoundaryPcs, Outside
  <2>6. FailedStops'
    BY <1>a, <1>b, <1>f, <1>24 DEF Crash, Goto, db, FailedStops, Alive
  <2>7. Touched'
    BY <1>a, <1>b, <1>f, <1>24 DEF Crash, Goto, db, Touched, Alive, EndPcs
  <2>8. StopFree'
    BY <1>a, <1>b, <1>f, <1>24 DEF Crash, Goto, db, StopFree, Alive, EndPcs,
       BoundaryPcs, LeavingPcs, LoopPcs, Undecided
  <2>9. OpenFree'
    BY <1>a, <1>b, <1>f, <1>24 DEF Crash, Goto, db, OpenFree, Alive
  <2>10. Verdicts'
    BY <1>a, <1>b, <1>f, <1>24 DEF Crash, Goto, db, Verdicts, BoundaryPcs,
       Alive, Undecided, LoopPcs
  <2> QED BY <2>1, <2>2, <2>3, <2>4, <2>5, <2>6, <2>7, <2>8, <2>9, <2>10 DEF Serially
<1>25. CASE Restart
  <2>1. Status'
    BY <1>a, <1>b, <1>f, <1>25 DEF Restart, Goto, loop, exit, pool, trackers,
       files, Status, RunPcs, LoopPcs, BoundaryPcs, TeardownPcs, Outside
  <2>2. Delivered'
    BY <1>a, <1>b, <1>f, <1>25 DEF Restart, Goto, loop, exit, pool, trackers,
       files, Delivered, LoopPcs, BoundaryPcs, InLoop, AtBoundary, Outside
  <2>3. HeadWoken'
    BY <1>a, <1>b, <1>f, <1>25 DEF Restart, Goto, loop, exit, pool, trackers,
       files, HeadWoken, Sealed, LoopPcs, InLoop
  <2>4. Asked'
    BY <1>a, <1>b, <1>f, <1>25 DEF Restart, Goto, loop, exit, pool, trackers,
       files, Asked, Alive, LeavingPcs, LoopPcs, BoundaryPcs, Undecided
  <2>5. Unwritten'
    BY <1>a, <1>b, <1>f, <1>25 DEF Restart, Goto, loop, exit, pool, trackers,
       files, Unwritten, Alive, EndPcs, LoopPcs, BoundaryPcs, Outside
  <2>6. FailedStops'
    BY <1>a, <1>b, <1>f, <1>25 DEF Restart, Goto, loop, exit, pool, trackers,
       files, FailedStops, Alive
  <2>7. Touched'
    BY <1>a, <1>b, <1>f, <1>25 DEF Restart, Goto, loop, exit, pool, trackers,
       files, Touched, Alive, EndPcs
  <2>8. StopFree'
    BY <1>a, <1>b, <1>f, <1>25 DEF Restart, Goto, loop, exit, pool, trackers,
       files, StopFree, Alive, EndPcs, BoundaryPcs, LeavingPcs, LoopPcs,
       Undecided
  <2>9. OpenFree'
    BY <1>a, <1>b, <1>f, <1>25 DEF Restart, Goto, loop, exit, pool, trackers,
       files, OpenFree, Alive
  <2>10. Verdicts'
    BY <1>a, <1>b, <1>f, <1>25 DEF Restart, Goto, loop, exit, pool, trackers,
       files, Verdicts, BoundaryPcs, Alive, Undecided, LoopPcs
  <2> QED BY <2>1, <2>2, <2>3, <2>4, <2>5, <2>6, <2>7, <2>8, <2>9, <2>10 DEF Serially
<1>26. ASSUME NEW t \in Task, TakeTask(t) PROVE Serially'
  <2>a. queue \in Seq(Task) /\ queue # <<>> /\ t = queue[1]
    BY <1>26, TailFacts DEF TakeTask, Shape, TypeOK, PoolType
  <2>b. phase[t] = "idle"
    BY <2>a DEF Bookkeeping, QueueFresh
  <2>c. \A s \in Task : phase[s] \in {"encoded", "reporting"} => phase'[s] = phase[s]
    BY <1>b, <2>b, <1>26 DEF TakeTask
  <2>1. Status'
    BY <1>a, <1>b, <1>f, <1>26 DEF TakeTask, coordinator, loop, exit,
       trackers, files, db, Status, RunPcs, LoopPcs, BoundaryPcs, TeardownPcs,
       Outside
  <2>2. Delivered'
    BY <1>a, <1>b, <1>f, <1>26 DEF TakeTask, coordinator, loop, exit,
       trackers, files, db, Delivered, LoopPcs, BoundaryPcs, InLoop,
       AtBoundary, Outside
  <2>3. HeadWoken'
    BY <1>a, <1>b, <1>f, <1>26 DEF TakeTask, coordinator, loop, exit,
       trackers, files, db, HeadWoken, Sealed, LoopPcs, InLoop
  <2>4. Asked'
    <3>4. UNCHANGED <<pc, canceled, cancelRequested, stop, failure, verdict, ending>>
      BY <1>26 DEF TakeTask, coordinator, exit, trackers, db
    <3>5. (\E s \in Task : phase[s] = "reporting") => \E s \in Task : phase'[s] = "reporting"
      BY <2>c
    <3> QED BY <1>a, <3>4, <3>5 DEF Asked, Alive
  <2>5. Unwritten'
    BY <1>a, <1>b, <1>f, <1>26 DEF TakeTask, coordinator, loop, exit,
       trackers, files, db, Unwritten, Alive, EndPcs, LoopPcs, BoundaryPcs,
       Outside
  <2>6. FailedStops'
    BY <1>a, <1>b, <1>f, <1>26 DEF TakeTask, coordinator, loop, exit,
       trackers, files, db, FailedStops, Alive
  <2>7. Touched'
    <3> QED BY <1>a, <2>c, <1>26 DEF TakeTask, Touched, Alive, EndPcs, coordinator, db
  <2>8. StopFree'
    BY <1>a, <1>b, <1>f, <1>26 DEF TakeTask, coordinator, loop, exit,
       trackers, files, db, StopFree, Alive, EndPcs, BoundaryPcs, LeavingPcs,
       LoopPcs, Undecided
  <2>9. OpenFree'
    BY <1>a, <1>b, <1>f, <1>26 DEF TakeTask, coordinator, loop, exit,
       trackers, files, db, OpenFree, Alive
  <2>10. Verdicts'
    BY <1>a, <1>b, <1>f, <1>26 DEF TakeTask, coordinator, loop, exit,
       trackers, files, db, Verdicts, BoundaryPcs, Alive, Undecided, LoopPcs
  <2> QED BY <2>1, <2>2, <2>3, <2>4, <2>5, <2>6, <2>7, <2>8, <2>9, <2>10 DEF Serially
<1>27. ASSUME NEW t \in Task, EncodeSucceeds(t) PROVE Serially'
  <2>1. Status'
    BY <1>a, <1>b, <1>f, <1>27 DEF EncodeSucceeds, TaskReturned, coordinator,
       loop, exit, files, db, Status, RunPcs, LoopPcs, BoundaryPcs,
       TeardownPcs, Outside
  <2>2. Delivered'
    BY <1>a, <1>b, <1>f, <1>27 DEF EncodeSucceeds, TaskReturned, coordinator,
       loop, exit, files, db, Delivered, LoopPcs, BoundaryPcs, InLoop,
       AtBoundary, Outside
  <2>3. HeadWoken'
    <3> SUFFICES ASSUME pc = "woken", ~canceled PROVE Sealed(Head(open))'
      BY <1>27 DEF EncodeSucceeds, HeadWoken, coordinator, loop
    <3>1. open # <<>> /\ pc \in LoopPcs
      BY <1>a DEF InLoop, LoopPcs
    <3>2. Head(open) \in Unit /\ UNCHANGED <<open, ended, delivered>>
      BY <3>1, HeadIsCursor, <1>27 DEF EncodeSucceeds, coordinator, loop
    <3>3. /\ completed[Head(open)] \in Nat /\ delivered[Head(open)] \in Nat
          /\ completed'[Head(open)] \in {completed[Head(open)], completed[Head(open)] + 1}
      BY <1>b, <3>2, <1>27 DEF EncodeSucceeds, TaskReturned
    <3>4. ended[Head(open)] /\ completed[Head(open)] >= delivered[Head(open)]
      BY <1>a, <1>27 DEF HeadWoken, Sealed
    <3>5. completed'[Head(open)] >= delivered[Head(open)]
      BY <3>3, <3>4
    <3> QED BY <3>2, <3>4, <3>5 DEF Sealed
  <2>4. Asked'
    BY <1>a, <1>b, <1>f, <1>27 DEF EncodeSucceeds, TaskReturned, coordinator,
       loop, exit, files, db, Asked, Alive, LeavingPcs, LoopPcs, BoundaryPcs,
       Undecided
  <2>5. Unwritten'
    BY <1>a, <1>b, <1>f, <1>27 DEF EncodeSucceeds, TaskReturned, coordinator,
       loop, exit, files, db, Unwritten, Alive, EndPcs, LoopPcs, BoundaryPcs,
       Outside
  <2>6. FailedStops'
    BY <1>a, <1>b, <1>f, <1>27 DEF EncodeSucceeds, TaskReturned, coordinator,
       loop, exit, files, db, FailedStops, Alive
  <2>7. Touched'
    BY <1>a, <1>b, <1>f, <1>27 DEF EncodeSucceeds, TaskReturned, coordinator,
       loop, exit, files, db, Touched, Alive, EndPcs
  <2>8. StopFree'
    BY <1>a, <1>b, <1>f, <1>27 DEF EncodeSucceeds, TaskReturned, coordinator,
       loop, exit, files, db, StopFree, Alive, EndPcs, BoundaryPcs,
       LeavingPcs, LoopPcs, Undecided
  <2>9. OpenFree'
    BY <1>a, <1>b, <1>f, <1>27 DEF EncodeSucceeds, TaskReturned, coordinator,
       loop, exit, files, db, OpenFree, Alive
  <2>10. Verdicts'
    BY <1>a, <1>b, <1>f, <1>27 DEF EncodeSucceeds, TaskReturned, coordinator,
       loop, exit, files, db, Verdicts, BoundaryPcs, Alive, Undecided, LoopPcs
  <2> QED BY <2>1, <2>2, <2>3, <2>4, <2>5, <2>6, <2>7, <2>8, <2>9, <2>10 DEF Serially
<1>28. ASSUME NEW t \in Task, EncodeCanceled(t) PROVE Serially'
  <2>1. Status'
    BY <1>a, <1>b, <1>f, <1>28 DEF EncodeCanceled, TaskReturned, coordinator,
       loop, exit, files, db, Status, RunPcs, LoopPcs, BoundaryPcs,
       TeardownPcs, Outside
  <2>2. Delivered'
    BY <1>a, <1>b, <1>f, <1>28 DEF EncodeCanceled, TaskReturned, coordinator,
       loop, exit, files, db, Delivered, LoopPcs, BoundaryPcs, InLoop,
       AtBoundary, Outside
  <2>3. HeadWoken'
    BY <1>a, <1>b, <1>f, <1>28 DEF EncodeCanceled, TaskReturned, coordinator,
       loop, exit, files, db, HeadWoken, Sealed, LoopPcs, InLoop
  <2>4. Asked'
    BY <1>a, <1>b, <1>f, <1>28 DEF EncodeCanceled, TaskReturned, coordinator,
       loop, exit, files, db, Asked, Alive, LeavingPcs, LoopPcs, BoundaryPcs,
       Undecided
  <2>5. Unwritten'
    BY <1>a, <1>b, <1>f, <1>28 DEF EncodeCanceled, TaskReturned, coordinator,
       loop, exit, files, db, Unwritten, Alive, EndPcs, LoopPcs, BoundaryPcs,
       Outside
  <2>6. FailedStops'
    BY <1>a, <1>b, <1>f, <1>28 DEF EncodeCanceled, TaskReturned, coordinator,
       loop, exit, files, db, FailedStops, Alive
  <2>7. Touched'
    BY <1>a, <1>b, <1>f, <1>28 DEF EncodeCanceled, TaskReturned, coordinator,
       loop, exit, files, db, Touched, Alive, EndPcs
  <2>8. StopFree'
    BY <1>a, <1>b, <1>f, <1>28 DEF EncodeCanceled, TaskReturned, coordinator,
       loop, exit, files, db, StopFree, Alive, EndPcs, BoundaryPcs,
       LeavingPcs, LoopPcs, Undecided
  <2>9. OpenFree'
    BY <1>a, <1>b, <1>f, <1>28 DEF EncodeCanceled, TaskReturned, coordinator,
       loop, exit, files, db, OpenFree, Alive
  <2>10. Verdicts'
    BY <1>a, <1>b, <1>f, <1>28 DEF EncodeCanceled, TaskReturned, coordinator,
       loop, exit, files, db, Verdicts, BoundaryPcs, Alive, Undecided, LoopPcs
  <2> QED BY <2>1, <2>2, <2>3, <2>4, <2>5, <2>6, <2>7, <2>8, <2>9, <2>10 DEF Serially
<1>29. ASSUME NEW t \in Task, EncodeFails(t) PROVE Serially'
  <2>1. Status'
    BY <1>a, <1>b, <1>f, <1>29 DEF EncodeFails, TaskReturned, coordinator,
       loop, exit, files, db, Status, RunPcs, LoopPcs, BoundaryPcs,
       TeardownPcs, Outside
  <2>2. Delivered'
    BY <1>a, <1>b, <1>f, <1>29 DEF EncodeFails, TaskReturned, coordinator,
       loop, exit, files, db, Delivered, LoopPcs, BoundaryPcs, InLoop,
       AtBoundary, Outside
  <2>3. HeadWoken'
    <3> SUFFICES ASSUME pc = "woken", ~canceled PROVE Sealed(Head(open))'
      BY <1>29 DEF EncodeFails, HeadWoken, coordinator, loop
    <3>1. open # <<>> /\ pc \in LoopPcs
      BY <1>a DEF InLoop, LoopPcs
    <3>2. Head(open) \in Unit /\ UNCHANGED <<open, ended, delivered>>
      BY <3>1, HeadIsCursor, <1>29 DEF EncodeFails, coordinator, loop
    <3>3. /\ completed[Head(open)] \in Nat /\ delivered[Head(open)] \in Nat
          /\ completed'[Head(open)] \in {completed[Head(open)], completed[Head(open)] + 1}
      BY <1>b, <3>2, <1>29 DEF EncodeFails, TaskReturned
    <3>4. ended[Head(open)] /\ completed[Head(open)] >= delivered[Head(open)]
      BY <1>a, <1>29 DEF HeadWoken, Sealed
    <3>5. completed'[Head(open)] >= delivered[Head(open)]
      BY <3>3, <3>4
    <3> QED BY <3>2, <3>4, <3>5 DEF Sealed
  <2>4. Asked'
    BY <1>a, <1>b, <1>f, <1>29 DEF EncodeFails, TaskReturned, coordinator,
       loop, exit, files, db, Asked, Alive, LeavingPcs, LoopPcs, BoundaryPcs,
       Undecided
  <2>5. Unwritten'
    BY <1>a, <1>b, <1>f, <1>29 DEF EncodeFails, TaskReturned, coordinator,
       loop, exit, files, db, Unwritten, Alive, EndPcs, LoopPcs, BoundaryPcs,
       Outside
  <2>6. FailedStops'
    BY <1>a, <1>b, <1>f, <1>29 DEF EncodeFails, TaskReturned, coordinator,
       loop, exit, files, db, FailedStops, Alive
  <2>7. Touched'
    BY <1>a, <1>b, <1>f, <1>29 DEF EncodeFails, TaskReturned, coordinator,
       loop, exit, files, db, Touched, Alive, EndPcs
  <2>8. StopFree'
    BY <1>a, <1>b, <1>f, <1>29 DEF EncodeFails, TaskReturned, coordinator,
       loop, exit, files, db, StopFree, Alive, EndPcs, BoundaryPcs,
       LeavingPcs, LoopPcs, Undecided
  <2>9. OpenFree'
    BY <1>a, <1>b, <1>f, <1>29 DEF EncodeFails, TaskReturned, coordinator,
       loop, exit, files, db, OpenFree, Alive
  <2>10. Verdicts'
    BY <1>a, <1>b, <1>f, <1>29 DEF EncodeFails, TaskReturned, coordinator,
       loop, exit, files, db, Verdicts, BoundaryPcs, Alive, Undecided, LoopPcs
  <2> QED BY <2>1, <2>2, <2>3, <2>4, <2>5, <2>6, <2>7, <2>8, <2>9, <2>10 DEF Serially
<1>30. ASSUME NEW t \in Task, ReportFailure(t) PROVE Serially'
  <2>1. Status'
    BY <1>a, <1>b, <1>f, <1>30 DEF ReportFailure, RequestStop, coordinator,
       loop, exit, trackers, files, db, Status, RunPcs, LoopPcs, BoundaryPcs,
       TeardownPcs, Outside
  <2>2. Delivered'
    BY <1>a, <1>b, <1>f, <1>30 DEF ReportFailure, RequestStop, coordinator,
       loop, exit, trackers, files, db, Delivered, LoopPcs, BoundaryPcs,
       InLoop, AtBoundary, Outside
  <2>3. HeadWoken'
    BY <1>a, <1>b, <1>f, <1>30 DEF ReportFailure, RequestStop, coordinator,
       loop, exit, trackers, files, db, HeadWoken, Sealed, LoopPcs, InLoop
  <2>4. Asked'
    BY <1>a, <1>b, <1>f, <1>30 DEF ReportFailure, RequestStop, coordinator,
       loop, exit, trackers, files, db, Asked, Alive, LeavingPcs, LoopPcs,
       BoundaryPcs, Undecided
  <2>5. Unwritten'
    BY <1>a, <1>b, <1>f, <1>30 DEF ReportFailure, RequestStop, coordinator,
       loop, exit, trackers, files, db, Unwritten, Alive, EndPcs, LoopPcs,
       BoundaryPcs, Outside
  <2>6. FailedStops'
    BY <1>a, <1>b, <1>f, <1>30 DEF ReportFailure, RequestStop, coordinator,
       loop, exit, trackers, files, db, FailedStops, Alive
  <2>7. Touched'
    BY <1>a, <1>b, <1>f, <1>30 DEF ReportFailure, RequestStop, coordinator,
       loop, exit, trackers, files, db, Touched, Alive, EndPcs
  <2>8. StopFree'
    <3>1. /\ Alive /\ phase[t] = "reporting"
          /\ stop' = stop \/ (stop = NoStop /\ stop' = Stop(t[1], "encode"))
          /\ UNCHANGED <<pc, cursor, open, observed, ending, rows, disk>>
      BY <1>30 DEF ReportFailure, Running, Alive, RequestStop, coordinator, loop, exit,
         files, db
    <3>2. CASE stop' = stop
      BY <1>a, <3>1, <3>2 DEF StopFree, Alive
    <3>3. CASE stop = NoStop /\ stop' = Stop(t[1], "encode")
      <4>1. stop' # NoStop /\ stop'.unit = t[1] /\ stop'.at = "encode" /\ observed.unit = 0
        BY <1>a, <1>b, <1>f, <3>1, <3>3 DEF StopFree
      <4>2. pc \notin EndPcs => rows[t[1]].status = "none" /\ disk[t[1]] = "untouched"
        BY <1>a, <3>1 DEF Touched
      <4>3. pc \in BoundaryPcs \cup {"admit", "commit"} => t[1] > cursor
        <5> SUFFICES ASSUME pc \in BoundaryPcs \cup {"admit", "commit"} PROVE t[1] > cursor
          OBVIOUS
        <5>1. ~(t[1] < cursor)
          BY <1>a, <3>1 DEF PastEncoded
        <5>2. pc \in BoundaryPcs => t[1] # cursor
          BY <1>a, <3>1 DEF PastEncoded
        <5>3. pc \in {"admit", "commit"} => t[1] # cursor
          <6> SUFFICES ASSUME pc \in {"admit", "commit"} PROVE t[1] # cursor
            OBVIOUS
          <6>1. Head(open) = cursor
            BY <1>a, HeadIsCursor DEF InLoop, LoopPcs
          <6> QED BY <1>a, <3>1, <6>1, TaskFacts DEF Permit, TasksOf
        <5> QED BY <1>b, <5>1, <5>2, <5>3
      <4> QED BY <3>1, <4>1, <4>2, <4>3 DEF StopFree, Alive
    <3> QED BY <3>1, <3>2, <3>3
  <2>9. OpenFree'
    BY <1>a, <1>b, <1>f, <1>30 DEF ReportFailure, RequestStop, coordinator,
       loop, exit, trackers, files, db, OpenFree, Alive
  <2>10. Verdicts'
    BY <1>a, <1>b, <1>f, <1>30 DEF ReportFailure, RequestStop, coordinator,
       loop, exit, trackers, files, db, Verdicts, BoundaryPcs, Alive,
       Undecided, LoopPcs
  <2> QED BY <2>1, <2>2, <2>3, <2>4, <2>5, <2>6, <2>7, <2>8, <2>9, <2>10 DEF Serially
<1>31. CASE UNCHANGED vars
  <2>1. Status' /\ Delivered' /\ HeadWoken' /\ Asked' /\ Unwritten' /\ FailedStops'
    BY <1>a, <1>31 DEF vars, coordinator, loop, exit, pool, trackers, files, db,
       Status, Delivered, HeadWoken, Sealed, Asked, Unwritten, FailedStops, Alive
  <2>2. Touched' /\ StopFree' /\ OpenFree' /\ Verdicts'
    BY <1>a, <1>31 DEF vars, coordinator, loop, exit, pool, trackers, files, db,
       Touched, StopFree, OpenFree, Verdicts, Alive
  <2> QED BY <2>1, <2>2 DEF Serially
<1> QED
  BY <1>1, <1>2, <1>3, <1>4, <1>5, <1>6, <1>7, <1>8, <1>9, <1>10, <1>11,
     <1>12, <1>13, <1>14, <1>15, <1>16, <1>17, <1>18, <1>19, <1>20, <1>21,
     <1>22, <1>23, <1>24, <1>25, <1>26, <1>27, <1>28, <1>29, <1>30, <1>31 DEF
     Next, Coordinator, WorkerStep

-----------------------------------------------------------------------------
(* The steps of a session, as the serial contract sees them.               *)

\* A step that touches neither rows, disk nor the session's own row.
LEMMA Unseen ==
    ASSUME UNCHANGED <<session, cancelRequested, rows, disk>>
    PROVE  UNCHANGED Serial!vars
  BY DEF Serial!vars

\* What a changed row looks like without its disclosure.
LEMMA SeenRow ==
    ASSUME DbType, NEW w \in Unit, NEW row,
           rows' = [rows EXCEPT ![w] = row]
    PROVE  [u \in Unit |-> rows'[u].status]
             = [[u \in Unit |-> rows[u].status] EXCEPT ![w] = row.status]
  BY DEF DbType

\* Every step of a session is a step of the serial contract, or invisible to it.
LEMMA SerialStep ==
    Shape /\ Bookkeeping /\ RowsInv /\ Serially /\ [Next]_vars
        => [Serial!Next]_(Serial!vars)
<1> SUFFICES ASSUME Shape, Bookkeeping, RowsInv, Serially, [Next]_vars
             PROVE  Serial!Next \/ UNCHANGED Serial!vars
  OBVIOUS
<1> DEFINE shown == [u \in Unit |-> rows[u].status]
<1>a. /\ Status /\ Asked /\ Unwritten /\ FailedStops
      /\ StopFree /\ OpenFree /\ Verdicts
      /\ NothingBehind /\ Settled /\ HeadResult /\ Decided
      /\ InLoop /\ AtBoundary /\ Outside /\ DbType /\ FilesType
  BY DEF Serially, RowsInv, Shape, TypeOK
<1>b. /\ cursor \in Nat \ {0} /\ NumUnits \in Nat
      /\ open \in Seq(Unit) /\ \A u \in Unit : u \in Nat
      /\ stop \in StopType /\ observed \in StopType
      /\ \A s \in StopType : s.unit \in Unit => s.at \in {"prepare", "encode", "commit"}
  BY RowsFacts, SeriallyFacts
<1>u. Serial!Unit = Unit
  BY DEF Serial!Unit, Unit
<1>1. ASSUME UNCHANGED <<session, cancelRequested, rows, disk>>
      PROVE  Serial!Next \/ UNCHANGED Serial!vars
  BY <1>1, Unseen
<1>2. CASE Claim
  <2>1. /\ session.status = "queued" /\ session'.status = "running"
        /\ UNCHANGED <<cancelRequested, rows, disk>>
    BY <1>2, RecordFields DEF Claim, files
  <2> QED BY <2>1 DEF Serial!Next, Serial!Claim
<1>3. ASSUME pc = "commit", UNCHANGED <<session, cancelRequested, rows>>,
             NEW d \in {"untouched", "partial", "landed"},
             disk' = [disk EXCEPT ![Head(open)] = d]
      PROVE  Serial!Next \/ UNCHANGED Serial!vars
  <2>1. Head(open) = cursor /\ cursor \in Unit
    BY <1>a, <1>3, HeadIsCursor DEF InLoop, LoopPcs
  <2>2. disk[cursor] = "untouched"
    BY <1>a, <1>3, <2>1 DEF Settled, Alive, LoopPcs
  <2>3. CASE d = "untouched"
    <3>1. disk' = disk
      BY <1>a, <1>3, <2>1, <2>2, <2>3 DEF FilesType
    <3> QED BY <1>3, <3>1, Unseen
  <2>4. CASE d # "untouched"
    <3>1. session.status = "running"
      BY <1>a, <1>3 DEF Status, RunPcs, LoopPcs
    <3>2. \A v \in Unit : shown[v] = IF v < cursor THEN "succeeded" ELSE "none"
      <4>1. \A v \in Unit : v < cursor => rows[v].status = "succeeded"
        BY <1>a, <1>3 DEF Settled, Alive
      <4>2. \A v \in Unit : v > cursor \/ v = cursor => rows[v].status = "none"
        BY <1>a, <1>3 DEF Unwritten, Alive, EndPcs, LoopPcs
      <4> QED BY <1>b, <4>1, <4>2
    <3>3. Serial!Turn(cursor)
      BY <1>u, <3>1, <3>2 DEF Serial!Turn
    <3>4. Serial!Commit(cursor)
      BY <1>3, <2>1, <2>2, <2>4, <3>3 DEF Serial!Commit
    <3> QED BY <1>u, <2>1, <3>4 DEF Serial!Next
  <2> QED BY <2>3, <2>4
<1>4. CASE CommitReturns
  <2>1. /\ pc = "commit" /\ UNCHANGED <<session, cancelRequested, rows>>
        /\ \E d \in {"untouched", "partial", "landed"} : disk' = [disk EXCEPT ![Head(open)] = d]
    BY <1>4 DEF CommitReturns, Landed, db
  <2> QED BY <1>3, <2>1
<1>5. CASE Crash
  <2>1. UNCHANGED <<session, cancelRequested, rows>>
    BY <1>5 DEF Crash, db
  <2>2. \/ disk' = disk
        \/ pc = "commit" /\ \E d \in {"untouched", "partial", "landed"} :
                              disk' = [disk EXCEPT ![Head(open)] = d]
    BY <1>5 DEF Crash
  <2> QED BY <1>1, <1>3, <2>1, <2>2
<1>6. CASE RecordHead
  <2>1. /\ pc = "record" /\ result.unit = cursor /\ cursor \in Unit
        /\ UNCHANGED <<session, cancelRequested, disk>>
        /\ rows' = rows \/ rows' = [rows EXCEPT ![cursor] = result.row]
    BY <1>a, <1>b, <1>6 DEF RecordHead, SaveResult, AtBoundary, BoundaryPcs,
       Unit, files
  <2>2. CASE rows' = rows
    BY <1>1, <2>1, <2>2
  <2>3. CASE rows' = [rows EXCEPT ![cursor] = result.row]
    <3>0. PICK status \in {"succeeded", "failed", "canceled"} : status = result.row.status
      BY <1>a, <2>1 DEF HeadResult, BoundaryPcs
    <3>1. session.status = "running"
      BY <1>a, <2>1 DEF Status, RunPcs, BoundaryPcs
    <3>2. \A v \in Unit : shown[v] = IF v < cursor THEN "succeeded" ELSE "none"
      <4>1. \A v \in Unit : v < cursor => rows[v].status = "succeeded"
        BY <1>a, <2>1 DEF Settled, Alive
      <4>2. \A v \in Unit : v > cursor \/ v = cursor => rows[v].status = "none"
        BY <1>a, <2>1 DEF Unwritten, Alive, EndPcs, LoopPcs
      <4> QED BY <1>b, <4>1, <4>2
    <3>3. Serial!Turn(cursor)
      BY <1>u, <3>1, <3>2 DEF Serial!Turn
    <3>4. status = "succeeded" <=> disk[cursor] = "landed"
      BY <1>a, <2>1, <3>0 DEF Verdicts, BoundaryPcs
    <3>5. status = "canceled" => cancelRequested \/ \E v \in Unit : v > cursor
      BY <1>a, <2>1, <3>0 DEF HeadResult, Asked, StopFree, NothingBehind,
         BoundaryPcs, Alive, LeavingPcs
    <3>6. [u \in Unit |-> rows'[u].status] = [shown EXCEPT ![cursor] = status]
      BY <1>a, <2>1, <2>3, <3>0, SeenRow
    <3>7. Serial!Record(cursor, status)
      BY <1>u, <2>1, <3>3, <3>4, <3>5, <3>6 DEF Serial!Record
    <3> QED BY <1>u, <2>1, <3>7 DEF Serial!Next
  <2> QED BY <2>1, <2>2, <2>3
<1>7. CASE ReportFailedUnit
  <2>1. /\ pc = "report" /\ UNCHANGED <<session, cancelRequested, disk>>
        /\ \/ rows' = rows
           \/ /\ observed.at # "commit"
              /\ rows' = [rows EXCEPT ![observed.unit] = Row("failed", FALSE)]
    BY <1>7 DEF ReportFailedUnit, SaveResult
  <2>2. CASE rows' = rows
    BY <1>1, <2>1, <2>2
  <2>3. CASE /\ observed.at # "commit"
             /\ rows' = [rows EXCEPT ![observed.unit] = Row("failed", FALSE)]
    <3>0. PICK w \in Unit : w = observed.unit
      BY <1>a, <2>1 DEF Outside
    <3>1. w # 0 /\ observed.at \in {"prepare", "encode"}
      BY <1>b, <2>3, <3>0 DEF Unit
    <3>2. observed = stop
      BY <1>a, <2>1, <3>0, <3>1 DEF StopFree, LeavingPcs
    <3>3. rows[w].status = "none" /\ disk[w] = "untouched"
      BY <1>a, <2>1, <3>0, <3>1, <3>2 DEF StopFree, Alive, EndPcs
    <3>4. \A v \in Unit : rows[v].status # "pending"
      BY <1>a, <2>1 DEF Unwritten, Alive, EndPcs
    <3>5. session.status = "running"
      BY <1>a, <2>1 DEF Status, RunPcs, TeardownPcs
    <3>6. [u \in Unit |-> rows'[u].status] = [shown EXCEPT ![w] = "failed"]
      <4>1. Row("failed", FALSE).status = "failed"
        BY DEF Row
      <4>2. [u \in Unit |-> rows'[u].status]
              = [shown EXCEPT ![w] = Row("failed", FALSE).status]
        BY <1>a, <2>3, <3>0, SeenRow
      <4> QED BY <4>1, <4>2
    <3>7. Serial!NameFailure(w)
      <4>1. shown[w] = "none" /\ \A v \in Unit : shown[v] # "pending"
        BY <3>3, <3>4
      <4> QED BY <1>u, <2>1, <3>3, <3>5, <3>6, <4>1 DEF Serial!NameFailure
    <3> QED BY <1>u, <3>7 DEF Serial!Next
  <2> QED BY <2>1, <2>2, <2>3
<1>8. CASE DiscardOpen
  <2>1. /\ pc = "discard" /\ open # <<>>
        /\ UNCHANGED <<session, cancelRequested, disk>>
        /\ \/ rows' = rows
           \/ /\ ~AlreadyReported(Head(open))
              /\ rows' = [rows EXCEPT ![Head(open)] = Row("pending", FALSE)]
    BY <1>8 DEF DiscardOpen, SaveResult, DiscardedRow
  <2>2. CASE rows' = rows
    BY <1>1, <2>1, <2>2
  <2>3. CASE /\ ~AlreadyReported(Head(open))
             /\ rows' = [rows EXCEPT ![Head(open)] = Row("pending", FALSE)]
    <3>0. PICK w \in Unit : w = Head(open)
      BY <1>b, <2>1, TailFacts
    <3>1. w = open[1] /\ 1 \in 1 .. Len(open)
      BY <1>b, <2>1, <3>0, TailFacts
    <3>2. rows[w].status = "none"
      BY <1>a, <2>1, <2>3, <3>0, <3>1 DEF OpenFree, Alive, AlreadyReported
    <3>3. disk[w] = "untouched"
      <4>1. w >= cursor
        BY <1>a, <2>1, <3>1 DEF NothingBehind, Alive
      <4>2. w > cursor \/ w = cursor
        BY <1>b, <3>1, <4>1
      <4> QED BY <1>a, <2>1, <3>1, <4>2 DEF Settled, Alive
    <3>4. session.status = "running"
      BY <1>a, <2>1 DEF Status, RunPcs, TeardownPcs
    <3>5. [u \in Unit |-> rows'[u].status] = [shown EXCEPT ![w] = "pending"]
      <4>1. Row("pending", FALSE).status = "pending"
        BY DEF Row
      <4>2. [u \in Unit |-> rows'[u].status]
              = [shown EXCEPT ![w] = Row("pending", FALSE).status]
        BY <1>a, <2>3, <3>0, SeenRow
      <4> QED BY <4>1, <4>2
    <3>6. Serial!LeavePending(w)
      <4>1. shown[w] = "none"
        BY <3>2
      <4> QED BY <1>u, <2>1, <3>3, <3>4, <3>5, <4>1 DEF Serial!LeavePending
    <3> QED BY <1>u, <3>6 DEF Serial!Next
  <2> QED BY <2>1, <2>2, <2>3
<1>9. CASE Finish
  <2>1. /\ pc = "finish" /\ UNCHANGED <<cancelRequested, rows, disk>>
        /\ session' = session \/ session' = verdict
    BY <1>9 DEF Finish, files
  <2>2. CASE session' = session
    BY <1>1, <2>1, <2>2
  <2>3. CASE session' = verdict
    <3>1. session.status = "running"
      BY <1>a, <2>1 DEF Status, RunPcs, TeardownPcs
    <3>2. verdict.status \in {"succeeded", "failed", "canceled"}
      BY <1>a, <2>1 DEF Verdicts
    <3>3. verdict.status = "succeeded" => \A v \in Unit : rows[v].status = "succeeded"
      BY <1>a, <2>1 DEF Verdicts, Alive
    <3>4. ASSUME verdict.status = "canceled"
          PROVE  cancelRequested /\ \A v \in Unit : rows[v].status # "failed"
      <4>1. cancelRequested
        BY <1>a, <2>1, <3>4 DEF Asked, Alive
      <4>2. stop = NoStop
        BY <1>a, <2>1, <3>4 DEF Decided, LeavingPcs
      <4> QED BY <1>a, <2>1, <4>1, <4>2 DEF FailedStops, Alive
    <3>5. Serial!Finish
      BY <1>u, <2>1, <2>3, <3>1, <3>2, <3>3, <3>4 DEF Serial!Finish
    <3> QED BY <3>5 DEF Serial!Next
  <2> QED BY <2>1, <2>2, <2>3
<1>10. CASE RequestCancel
  <2>1. UNCHANGED <<rows, disk>> /\ session.status \in {"queued", "running"}
    BY <1>10 DEF RequestCancel, files, Active
  <2>2. CASE session.status = "queued"
    <3>1. session'.status = "canceled" /\ UNCHANGED cancelRequested
      BY <1>10, <2>2, RecordFields DEF RequestCancel
    <3> QED BY <2>1, <2>2, <3>1 DEF Serial!Next, Serial!Cancel
  <2>3. CASE session.status # "queued"
    <3>1. session' = session /\ cancelRequested' = TRUE
      BY <1>10, <2>3 DEF RequestCancel
    <3> QED BY <2>1, <2>3, <3>1 DEF Serial!Next, Serial!Cancel
  <2> QED BY <2>2, <2>3
<1>11. CASE Restart
  <2>1. UNCHANGED <<cancelRequested, rows, disk>>
    BY <1>11 DEF Restart, files
  <2>2. CASE session.status \in Active
    <3>1. session'.status = "interrupted" /\ session.status \in {"queued", "running"}
      BY <1>11, <2>2, RecordFields DEF Restart, Active
    <3> QED BY <2>1, <3>1 DEF Serial!Next, Serial!Interrupt
  <2>3. CASE session.status \notin Active
    <3>1. session' = session
      BY <1>11, <2>3 DEF Restart
    <3> QED BY <1>1, <2>1, <3>1
  <2> QED BY <2>2, <2>3
<1>12. CASE VerifyInputs \/ LoopTop \/ PrepareUnit \/ FillEnds \/ SendTask \/ CountTask
  BY <1>1, <1>12 DEF VerifyInputs, LoopTop, PrepareUnit, FillEnds, SendTask,
     CountTask, files, db
<1>13. CASE AbortDelivery \/ EndDelivery \/ WaitHead \/ CheckHead \/ AdmitCommit
  BY <1>1, <1>13 DEF AbortDelivery, EndDelivery, WaitHead, CheckHead,
     AdmitCommit, files, db
<1>14. CASE SyncInventory \/ SettleHead \/ Join \/ DiscardEnds \/ ObserveCancel
  BY <1>1, <1>14 DEF SyncInventory, SettleHead, Join, DiscardEnds,
     ObserveCancel, files, db
<1>15. ASSUME NEW t \in Task, WorkerStep(t)
       PROVE  Serial!Next \/ UNCHANGED Serial!vars
  BY <1>1, <1>15 DEF WorkerStep, TakeTask, EncodeSucceeds, EncodeCanceled,
     EncodeFails, ReportFailure, files, db
<1>16. CASE UNCHANGED vars
  BY <1>1, <1>16 DEF vars, files, db
<1> QED
  BY <1>2, <1>4, <1>5, <1>6, <1>7, <1>8, <1>9, <1>10, <1>11, <1>12, <1>13,
     <1>14, <1>15, <1>16 DEF Next, Coordinator

\* A session implements the serial contract: whatever its pool, its window and
\* the order of its stops, the rows and the disk change as if the frozen units
\* were run one at a time (docs/adr/0007, decisions 3 to 5).
THEOREM SessionIsSerial == Spec => ImplementsSerial
<1>1. Init => Shape /\ Bookkeeping /\ RowsInv /\ Serially
  BY ShapeInit, BookkeepingInit, RowsInit, SeriallyInit
<1>2. Shape /\ Bookkeeping /\ RowsInv /\ Serially /\ [Next]_vars
        => (Shape /\ Bookkeeping /\ RowsInv /\ Serially)'
  BY ShapeNext, BookkeepingNext, RowsNext, SeriallyNext
<1>3. Init => Serial!Init
  <2> SUFFICES ASSUME Init PROVE Serial!Init
    OBVIOUS
  <2>1. session.status = "queued" /\ cancelRequested = FALSE
    BY RecordFields DEF Init
  <2>2. [u \in Unit |-> rows[u].status] = [u \in Unit |-> "none"]
    BY DEF Init, NoRow, Row
  <2>3. disk = [u \in Unit |-> "untouched"]
    BY DEF Init
  <2> QED BY <2>1, <2>2, <2>3 DEF Serial!Init, Serial!Unit, Unit
<1>4. Shape /\ Bookkeeping /\ RowsInv /\ Serially /\ [Next]_vars
        => [Serial!Next]_(Serial!vars)
  BY SerialStep
<1> QED BY <1>1, <1>2, <1>3, <1>4, PTL DEF Spec, ImplementsSerial, Serial!Spec

-----------------------------------------------------------------------------
(***************************************************************************)
(* Staged files and blame, for every worklist and every window.  A staged  *)
(* file is in the hands of a worker that writes it or of an open unit, so  *)
(* the window bounds them and the teardown finds them all; a stop names    *)
(* the unit whose own step failed.                                         *)
(***************************************************************************)

OpenUnits == {open[i] : i \in 1 .. Len(open)}

\* A worker writes the file it staged; a task that never ran staged nothing.
Written ==
    Alive => \A t \in Task :
        /\ t \in staged => phase[t] \notin {"idle", "refused"}
        /\ phase[t] \in {"encoding", "reporting"} => t \in staged

\* What is queued and what is staged belongs to the window.
QueuedOpen == \A i \in 1 .. Len(queue) : queue[i][1] \in OpenUnits
StagedOpen == Alive => \A t \in staged : t[1] \in OpenUnits

\* The window is bounded, holds the unit under delivery, and is empty when
\* nothing is left to discard.
Narrow ==
    /\ Len(open) <= Window
    /\ pc \in {"deliver", "count"} => open # <<>>
    /\ ending = "all" \/ pc \in {"finish", "done"} => open = <<>>

\* The failed encode that was reported has no staged file left.
Reported ==
    pc \in EndPcs /\ observed.at = "encode" =>
        \A t \in staged : t[1] # observed.unit

\* A recorded stop names a unit whose own step failed.
Blamed ==
    Alive =>
        /\ stop.at = "prepare" => delivered[stop.unit] = 0
        /\ stop.at = "encode" => \E t \in TasksOf(stop.unit) : phase[t] = "failed"

Staging ==
    /\ Written /\ QueuedOpen /\ StagedOpen /\ Narrow /\ Reported /\ Blamed
    /\ FailedEncodeStaysOpen /\ WindowBoundsStaging

-----------------------------------------------------------------------------
\* A window of units holds the staged files of no more units.
LEMMA Bounded ==
    ASSUME NEW o \in Seq(Unit), NEW S, Len(o) <= Window,
           \A t \in S : t[1] \in {o[i] : i \in 1 .. Len(o)}
    PROVE  Cardinality({t[1] : t \in S}) <= Window
<1> DEFINE I == 1 .. Len(o)
           U == {o[i] : i \in I}
           f == [i \in I |-> o[i]]
<1>1. IsFiniteSet(I) /\ Cardinality(I) = Len(o)
  <2>1. Len(o) \in Nat /\ 1 \in Int
    OBVIOUS
  <2>2. /\ IsFiniteSet(1 .. Len(o))
        /\ Cardinality(1 .. Len(o)) = IF 1 > Len(o) THEN 0 ELSE Len(o) - 1 + 1
    BY <2>1, FS_Interval
  <2> QED BY <2>1, <2>2
<1>2. f \in Surjection(I, U)
  BY DEF Surjection
<1>3. IsFiniteSet(U) /\ Cardinality(U) <= Cardinality(I)
  <2> HIDE DEF I, U, f
  <2> QED BY <1>1, <1>2, FS_Surjection
<1>4. {t[1] : t \in S} \in SUBSET U
  OBVIOUS
<1>5. Cardinality({t[1] : t \in S}) <= Cardinality(U) /\ Cardinality({t[1] : t \in S}) \in Nat
  <2> HIDE DEF U
  <2>1. IsFiniteSet({t[1] : t \in S})
        /\ Cardinality({t[1] : t \in S}) <= Cardinality(U)
    BY <1>3, <1>4, FS_Subset
  <2> QED BY <2>1, FS_CardinalityType
<1>6. Cardinality(U) \in Nat /\ Len(o) \in Nat
  BY <1>3, FS_CardinalityType
<1>7. Window \in Nat
  BY SessionAssumption
<1> DEFINE c == Cardinality({t[1] : t \in S})
           u == Cardinality(U)
           n == Len(o)
<1>8. c \in Nat /\ u \in Nat /\ n \in Nat /\ c <= u /\ u <= n /\ n <= Window
  BY <1>1, <1>3, <1>5, <1>6
<1>9. c <= Window
  <2> HIDE DEF c, u, n
  <2> QED BY <1>7, <1>8
<1> QED BY <1>9

\* Nothing is staged before a session runs.
LEMMA StagingInit == Init => Staging
<1> SUFFICES ASSUME Init PROVE Staging
  OBVIOUS
<1>1. Written /\ QueuedOpen /\ StagedOpen
  BY DEF Init, Written, QueuedOpen, StagedOpen
<1>2. Narrow /\ Reported /\ Blamed /\ FailedEncodeStaysOpen
  BY Kinds, SessionAssumption DEF Init, Narrow, Reported, Blamed, FailedEncodeStaysOpen,
     EndPcs
<1>3. WindowBoundsStaging
  <2>1. {t[1] : t \in staged} = {}
    BY DEF Init
  <2> QED BY <2>1, FS_EmptySet, SessionAssumption DEF WindowBoundsStaging
<1> QED BY <1>1, <1>2, <1>3 DEF Staging

\* What a step keeps that moves neither tasks, files, window nor stop.
LEMMA Undisturbed ==
    ASSUME Staging, Alive,
           UNCHANGED <<open, queue, phase, staged, stop, delivered>>
    PROVE  Written' /\ QueuedOpen' /\ StagedOpen' /\ Blamed'
  BY DEF Staging, Alive, Written, QueuedOpen, StagedOpen, OpenUnits, Blamed

\* The first unit of the window and the others, when the first one leaves it.
LEMMA HeadLeaves ==
    ASSUME NEW s \in Seq(Unit), s # <<>>, NEW u \in {s[i] : i \in 1 .. Len(s)},
           u # Head(s)
    PROVE  u \in {Tail(s)[i] : i \in 1 .. Len(Tail(s))}
<1>1. PICK i \in 1 .. Len(s) : u = s[i]
  OBVIOUS
<1>2. /\ Head(s) = s[1] /\ Len(s) = Len(Tail(s)) + 1 /\ Len(Tail(s)) \in Nat
      /\ \A j \in 1 .. Len(Tail(s)) : Tail(s)[j] = s[j + 1]
  BY TailFacts
<1>3. i - 1 \in 1 .. Len(Tail(s)) /\ (i - 1) + 1 = i
  BY <1>1, <1>2
<1>4. Tail(s)[i - 1] = u
  BY <1>1, <1>2, <1>3
<1> QED BY <1>3, <1>4

\* Every step preserves Staging: one case per action; a step that moves neither
\* tasks, files, window nor stop has the three conjuncts that read the statement
\* reached, the others each conjunct it disturbs.
LEMMA StagingNext ==
    Shape /\ Bookkeeping /\ RowsInv /\ Serially /\ Staging /\ [Next]_vars => Staging'
<1> SUFFICES ASSUME Shape, Bookkeeping, RowsInv, Serially, Staging, [Next]_vars
             PROVE  Staging'
  OBVIOUS
<1> DEFINE Rest == /\ Written /\ QueuedOpen /\ StagedOpen /\ Narrow /\ Reported
                   /\ Blamed /\ FailedEncodeStaysOpen
           Kept == Alive' \/ UNCHANGED staged
<1>a. /\ Written /\ QueuedOpen /\ StagedOpen /\ Narrow /\ Reported /\ Blamed
      /\ FailedEncodeStaysOpen /\ WindowBoundsStaging
      /\ Undecided /\ Decided /\ StopFree /\ QueueFresh /\ Permit
      /\ InLoop /\ AtBoundary /\ Outside
  BY DEF Staging, RowsInv, Serially, Bookkeeping, Shape
<1>b. /\ open \in Seq(Unit) /\ Len(open) \in Nat /\ queue \in Seq(Task)
      /\ Len(queue) \in Nat /\ \A i \in 1 .. Len(queue) : queue[i] \in Task
      /\ \A i \in 1 .. Len(open) : open[i] \in Unit
      /\ phase \in [Task -> PhaseValues] /\ delivered \in [Unit -> Nat]
      /\ stop \in StopType /\ observed \in StopType
      /\ staged \in SUBSET Task /\ cursor \in Nat \ {0} /\ next \in Nat \ {0}
      /\ \A t \in Task : t[1] \in Unit
      /\ \A u \in Unit : u \in Nat /\ u <= NumUnits
      /\ \A s \in StopType : s.unit \in Unit \cup {0}
      /\ \A s \in StopType : s.unit = 0 => s.at \notin {"prepare", "encode", "commit"}
  BY RowsFacts, SeriallyFacts DEF Shape, TypeOK, FilesType
<1>1. ASSUME Claim PROVE Rest' /\ Kept
  <2>1. Alive /\ UNCHANGED <<open, queue, phase, staged, stop, delivered>>
    BY <1>1 DEF Claim, Goto, pool, trackers, loop, exit, files, Alive
  <2>2. Narrow'
    BY <1>a, <1>b, <1>1 DEF Claim, Goto, pool, trackers, loop, exit, files,
       Narrow, Undecided, LoopPcs, BoundaryPcs, Alive
  <2>3. Reported'
    BY <1>a, <1>b, <1>1 DEF Claim, Goto, pool, trackers, loop, exit, files,
       Reported, EndPcs
  <2>4. FailedEncodeStaysOpen'
    BY <1>a, <1>b, <1>1 DEF Claim, Goto, pool, trackers, loop, exit, files,
       FailedEncodeStaysOpen, EndPcs
  <2> QED BY <2>1, <2>2, <2>3, <2>4, Undisturbed
<1>2. ASSUME VerifyInputs PROVE Rest' /\ Kept
  <2>1. Alive /\ UNCHANGED <<open, queue, phase, staged, stop, delivered>>
    BY <1>2 DEF VerifyInputs, Goto, EndWith, pool, trackers, loop, exit,
       files, db, Alive
  <2>2. Narrow'
    BY <1>a, <1>2 DEF VerifyInputs, EndWith, Goto, loop, Narrow, Outside
  <2>3. Reported'
    BY <1>a, <1>2, Kinds DEF VerifyInputs, EndWith, Goto, files, Reported, EndPcs, Undecided
  <2>4. FailedEncodeStaysOpen'
    BY <1>a, <1>b, <1>2 DEF VerifyInputs, Goto, EndWith, pool, trackers, loop,
       exit, files, db, FailedEncodeStaysOpen, EndPcs
  <2> QED BY <2>1, <2>2, <2>3, <2>4, Undisturbed
<1>3. ASSUME LoopTop PROVE Rest' /\ Kept
  <2>1. Alive /\ UNCHANGED <<open, queue, phase, staged, stop, delivered>>
    BY <1>3 DEF LoopTop, Goto, Teardown, loop, exit, pool, trackers, files,
       Alive
  <2>2. Narrow'
    BY <1>a, <1>b, <1>3 DEF LoopTop, Goto, Teardown, loop, exit, pool,
       trackers, files, Narrow, Undecided, LoopPcs, BoundaryPcs, Alive
  <2>3. Reported'
    BY <1>a, <1>b, <1>3 DEF LoopTop, Goto, Teardown, loop, exit, pool,
       trackers, files, Reported, EndPcs
  <2>4. FailedEncodeStaysOpen'
    BY <1>a, <1>b, <1>3 DEF LoopTop, Goto, Teardown, loop, exit, pool,
       trackers, files, FailedEncodeStaysOpen, EndPcs
  <2> QED BY <2>1, <2>2, <2>3, <2>4, Undisturbed
<1>4. ASSUME PrepareUnit PROVE Rest' /\ Kept
  <2>a. next \in Unit /\ pc = "fill" /\ next \in Nat
    BY <1>b, <1>4 DEF PrepareUnit, Unit
  <2>b. /\ OpenUnits \subseteq OpenUnits' /\ Len(open') <= Window
        /\ \A i \in 1 .. Len(open) : i \in 1 .. Len(open') /\ open'[i] = open[i]
    <3>1. CASE open' = open
      BY <1>a, <3>1 DEF OpenUnits, Narrow
    <3>2. CASE open' = Append(open, next)
      <4>1. /\ Len(open') = Len(open) + 1
            /\ \A i \in 1 .. Len(open) : i \in 1 .. Len(open') /\ open'[i] = open[i]
            /\ open' # <<>>
        BY <1>b, <2>a, <3>2, AppendFacts
      <4>2. Len(open') <= Window
        BY <1>b, <4>1, <1>4, SessionAssumption DEF PrepareUnit, Room
      <4> QED BY <4>1, <4>2 DEF OpenUnits
    <3> QED BY <1>4, <3>1, <3>2 DEF PrepareUnit
  <2>c. \/ pc' = "deliver" /\ open' = Append(open, next) /\ UNCHANGED <<stop, ending>>
        \/ pc' = "join" /\ UNCHANGED stop /\ ending' = "stop"
        \/ pc' = "join" /\ RequestStop(Stop(next, "prepare")) /\ ending' = "stop"
    BY <1>4 DEF PrepareUnit, Goto, Teardown
  <2>d. UNCHANGED <<queue, staged, phase, delivered>> /\ ending = "none"
    BY <1>a, <2>a, <1>4 DEF PrepareUnit, files, trackers, Undecided, LoopPcs
  <2>1. Written'
    BY <1>a, <1>b, <1>4 DEF PrepareUnit, Goto, Teardown, RequestStop, files,
       db, trackers, Written, Alive
  <2>2. QueuedOpen'
    BY <1>a, <2>b, <2>d DEF QueuedOpen
  <2>3. StagedOpen'
    BY <1>a, <2>a, <2>b, <2>d DEF StagedOpen, Alive
  <2>4. Narrow'
    BY <1>b, <2>a, <2>b, <2>c, <2>d, AppendFacts DEF Narrow
  <2>5. Reported'
    BY <1>a, <1>b, <1>4 DEF PrepareUnit, Goto, Teardown, RequestStop, files,
       db, trackers, Reported, EndPcs
  <2>6. Blamed'
    <3>1. delivered[next] = 0
      BY <2>a DEF Serially, Delivered, LoopPcs
    <3>2. CASE UNCHANGED stop
      BY <1>a, <2>a, <2>d, <3>2 DEF Blamed, Alive
    <3>3. CASE RequestStop(Stop(next, "prepare"))
      <4>1. /\ Stop(next, "prepare").unit = next /\ Stop(next, "prepare").at = "prepare"
            /\ stop' = stop \/ stop' = Stop(next, "prepare")
        BY <2>a, <3>3, Kinds DEF RequestStop
      <4> QED BY <1>a, <2>a, <2>d, <3>1, <4>1 DEF Blamed, Alive
    <3> QED BY <2>c, <3>2, <3>3
  <2>7. FailedEncodeStaysOpen'
    <3>1. stop' = stop \/ stop'.at = "prepare"
      BY <2>a, <2>c, Kinds DEF RequestStop
    <3>2. stop.at = "encode" => \E i \in 1 .. Len(open) : open[i] = stop.unit
      BY <1>a, <1>b, <2>a DEF FailedEncodeStaysOpen
    <3>3. open' \in Seq(Unit)
      <4>1. open' = open \/ open' = Append(open, next)
        BY <1>4 DEF PrepareUnit
      <4> QED BY <1>b, <2>a, <4>1, AppendFacts
    <3> QED BY <2>b, <3>1, <3>2, <3>3 DEF FailedEncodeStaysOpen
  <2>8. Kept
    BY <1>a, <1>b, <1>4 DEF PrepareUnit, Goto, Teardown, RequestStop, files,
       db, trackers, Alive
  <2> QED BY <2>1, <2>2, <2>3, <2>4, <2>5, <2>6, <2>7, <2>8
<1>5. ASSUME FillEnds PROVE Rest' /\ Kept
  <2>1. Alive /\ UNCHANGED <<open, queue, phase, staged, stop, delivered>>
    BY <1>5 DEF FillEnds, Goto, loop, exit, pool, trackers, files, db, Alive
  <2>2. Narrow'
    BY <1>a, <1>b, <1>5 DEF FillEnds, Goto, loop, exit, pool, trackers, files,
       db, Narrow, Undecided, LoopPcs, BoundaryPcs, Alive
  <2>3. Reported'
    BY <1>a, <1>b, <1>5 DEF FillEnds, Goto, loop, exit, pool, trackers, files,
       db, Reported, EndPcs
  <2>4. FailedEncodeStaysOpen'
    BY <1>a, <1>b, <1>5 DEF FillEnds, Goto, loop, exit, pool, trackers, files,
       db, FailedEncodeStaysOpen, EndPcs
  <2> QED BY <2>1, <2>2, <2>3, <2>4, Undisturbed
<1>6. ASSUME SendTask PROVE Rest' /\ Kept
  <2>1. Written'
    BY <1>a, <1>b, <1>6 DEF SendTask, Goto, loop, exit, trackers, files, db,
       Written, Alive
  <2>2. QueuedOpen'
    <3>1. pc = "deliver" /\ queue' = Append(queue, <<next, deliver>>) /\ UNCHANGED open
      BY <1>6 DEF SendTask, loop
    <3>2. /\ deliver \in Nat \ {0} /\ deliver <= Tasks[next]
          /\ next + 1 = cursor + Len(open) /\ cursor <= NumUnits /\ next <= NumUnits
      BY <1>a, <3>1, SeriallyFacts, <1>6 DEF SendTask, InLoop, LoopPcs
    <3>3. next \in Unit /\ <<next, deliver>> \in Task
      BY <1>b, <3>2, TaskFacts DEF Unit
    <3>4. next \in OpenUnits
      <4>1. Len(open) \in 1 .. Len(open)
        BY <1>a, <1>b, <3>1 DEF Narrow
      <4>2. open[Len(open)] + 1 = cursor + Len(open) /\ open[Len(open)] \in Nat
        BY <1>a, <1>b, <3>1, <4>1 DEF InLoop, LoopPcs
      <4> QED BY <1>b, <3>2, <4>1, <4>2 DEF OpenUnits
    <3>5. /\ Len(queue') = Len(queue) + 1 /\ queue'[Len(queue) + 1] = <<next, deliver>>
          /\ \A i \in 1 .. Len(queue) : queue'[i] = queue[i]
      BY <1>b, <3>1, <3>3, AppendFacts
    <3>6. OpenUnits' = OpenUnits
      BY <3>1 DEF OpenUnits
    <3>7. ASSUME NEW i \in 1 .. Len(queue') PROVE queue'[i][1] \in OpenUnits
      <4>1. i \in 1 .. Len(queue) \/ i = Len(queue) + 1
        BY <1>b, <3>5
      <4>2. CASE i \in 1 .. Len(queue)
        BY <1>a, <3>5, <4>2 DEF QueuedOpen
      <4>3. CASE i = Len(queue) + 1
        BY <3>4, <3>5, <4>3
      <4> QED BY <4>1, <4>2, <4>3
    <3> QED BY <3>6, <3>7 DEF QueuedOpen
  <2>3. StagedOpen'
    BY <1>a, <1>b, <1>6 DEF SendTask, Goto, loop, exit, trackers, files, db,
       StagedOpen, OpenUnits, Alive
  <2>4. Narrow'
    BY <1>a, <1>b, <1>6 DEF SendTask, Goto, loop, exit, trackers, files, db,
       Narrow, Undecided, LoopPcs, BoundaryPcs, Alive
  <2>5. Reported'
    BY <1>a, <1>b, <1>6 DEF SendTask, Goto, loop, exit, trackers, files, db,
       Reported, EndPcs
  <2>6. Blamed'
    BY <1>a, <1>b, <1>6 DEF SendTask, Goto, loop, exit, trackers, files, db,
       Blamed, Alive
  <2>7. FailedEncodeStaysOpen'
    BY <1>a, <1>b, <1>6 DEF SendTask, Goto, loop, exit, trackers, files, db,
       FailedEncodeStaysOpen, EndPcs
  <2>8. Kept
    BY <1>a, <1>b, <1>6 DEF SendTask, Goto, loop, exit, trackers, files, db,
       Alive
  <2> QED BY <2>1, <2>2, <2>3, <2>4, <2>5, <2>6, <2>7, <2>8
<1>7. ASSUME CountTask PROVE Rest' /\ Kept
  <2>1. Written'
    BY <1>a, <1>b, <1>7 DEF CountTask, Goto, exit, files, db, trackers, pool,
       Written, Alive
  <2>2. QueuedOpen'
    BY <1>a, <1>b, <1>7 DEF CountTask, Goto, exit, files, db, trackers, pool,
       QueuedOpen, OpenUnits
  <2>3. StagedOpen'
    BY <1>a, <1>b, <1>7 DEF CountTask, Goto, exit, files, db, trackers, pool,
       StagedOpen, OpenUnits, Alive
  <2>4. Narrow'
    BY <1>a, <1>b, <1>7 DEF CountTask, Goto, exit, files, db, trackers, pool,
       Narrow, Undecided, LoopPcs, BoundaryPcs, Alive
  <2>5. Reported'
    BY <1>a, <1>b, <1>7 DEF CountTask, Goto, exit, files, db, trackers, pool,
       Reported, EndPcs
  <2>6. Blamed'
    <3>1. stop.at # "prepare" /\ pc = "count"
      BY <1>a, <1>7 DEF CountTask, StopFree, LoopPcs
    <3>2. UNCHANGED <<stop, phase>>
      BY <1>7 DEF CountTask
    <3> QED BY <1>a, <3>1, <3>2 DEF Blamed, Alive
  <2>7. FailedEncodeStaysOpen'
    BY <1>a, <1>b, <1>7 DEF CountTask, Goto, exit, files, db, trackers, pool,
       FailedEncodeStaysOpen, EndPcs
  <2>8. Kept
    BY <1>a, <1>b, <1>7 DEF CountTask, Goto, exit, files, db, trackers, pool,
       Alive
  <2> QED BY <2>1, <2>2, <2>3, <2>4, <2>5, <2>6, <2>7, <2>8
<1>8. ASSUME AbortDelivery PROVE Rest' /\ Kept
  <2>1. Alive /\ UNCHANGED <<open, queue, phase, staged, stop, delivered>>
    BY <1>8 DEF AbortDelivery, Goto, Teardown, loop, exit, trackers, files,
       db, Alive
  <2>2. Narrow'
    BY <1>a, <1>b, <1>8 DEF AbortDelivery, Goto, Teardown, loop, exit,
       trackers, files, db, Narrow, Undecided, LoopPcs, BoundaryPcs, Alive
  <2>3. Reported'
    BY <1>a, <1>b, <1>8 DEF AbortDelivery, Goto, Teardown, loop, exit,
       trackers, files, db, Reported, EndPcs
  <2>4. FailedEncodeStaysOpen'
    BY <1>a, <1>b, <1>8 DEF AbortDelivery, Goto, Teardown, loop, exit,
       trackers, files, db, FailedEncodeStaysOpen, EndPcs
  <2> QED BY <2>1, <2>2, <2>3, <2>4, Undisturbed
<1>9. ASSUME EndDelivery PROVE Rest' /\ Kept
  <2>1. Alive /\ UNCHANGED <<open, queue, phase, staged, stop, delivered>>
    BY <1>9 DEF EndDelivery, Goto, exit, files, db, Alive
  <2>2. Narrow'
    BY <1>a, <1>b, <1>9 DEF EndDelivery, Goto, exit, files, db, Narrow,
       Undecided, LoopPcs, BoundaryPcs, Alive
  <2>3. Reported'
    BY <1>a, <1>b, <1>9 DEF EndDelivery, Goto, exit, files, db, Reported,
       EndPcs
  <2>4. FailedEncodeStaysOpen'
    BY <1>a, <1>b, <1>9 DEF EndDelivery, Goto, exit, files, db,
       FailedEncodeStaysOpen, EndPcs
  <2> QED BY <2>1, <2>2, <2>3, <2>4, Undisturbed
<1>10. ASSUME WaitHead PROVE Rest' /\ Kept
  <2>1. Alive /\ UNCHANGED <<open, queue, phase, staged, stop, delivered>>
    BY <1>10 DEF WaitHead, Goto, loop, exit, pool, trackers, files, db, Alive
  <2>2. Narrow'
    BY <1>a, <1>b, <1>10 DEF WaitHead, Goto, loop, exit, pool, trackers,
       files, db, Narrow, Undecided, LoopPcs, BoundaryPcs, Alive
  <2>3. Reported'
    BY <1>a, <1>b, <1>10 DEF WaitHead, Goto, loop, exit, pool, trackers,
       files, db, Reported, EndPcs
  <2>4. FailedEncodeStaysOpen'
    BY <1>a, <1>b, <1>10 DEF WaitHead, Goto, loop, exit, pool, trackers,
       files, db, FailedEncodeStaysOpen, EndPcs
  <2> QED BY <2>1, <2>2, <2>3, <2>4, Undisturbed
<1>11. ASSUME CheckHead PROVE Rest' /\ Kept
  <2>1. Alive /\ UNCHANGED <<open, queue, phase, staged, stop, delivered>>
    BY <1>11 DEF CheckHead, Goto, Teardown, loop, trackers, files, db, Alive
  <2>2. Narrow'
    BY <1>a, <1>b, <1>11 DEF CheckHead, Goto, Teardown, loop, trackers, files,
       db, Narrow, Undecided, LoopPcs, BoundaryPcs, Alive
  <2>3. Reported'
    BY <1>a, <1>b, <1>11 DEF CheckHead, Goto, Teardown, loop, trackers, files,
       db, Reported, EndPcs
  <2>4. FailedEncodeStaysOpen'
    BY <1>a, <1>b, <1>11 DEF CheckHead, Goto, Teardown, loop, trackers, files,
       db, FailedEncodeStaysOpen, EndPcs
  <2> QED BY <2>1, <2>2, <2>3, <2>4, Undisturbed
<1>12. ASSUME AdmitCommit PROVE Rest' /\ Kept
  <2>1. Alive /\ UNCHANGED <<open, queue, phase, staged, stop, delivered>>
    BY <1>12 DEF AdmitCommit, Goto, Teardown, loop, trackers, files, db, Alive
  <2>2. Narrow'
    BY <1>a, <1>b, <1>12 DEF AdmitCommit, Goto, Teardown, loop, trackers,
       files, db, Narrow, Undecided, LoopPcs, BoundaryPcs, Alive
  <2>3. Reported'
    BY <1>a, <1>b, <1>12 DEF AdmitCommit, Goto, Teardown, loop, trackers,
       files, db, Reported, EndPcs
  <2>4. FailedEncodeStaysOpen'
    BY <1>a, <1>b, <1>12 DEF AdmitCommit, Goto, Teardown, loop, trackers,
       files, db, FailedEncodeStaysOpen, EndPcs
  <2> QED BY <2>1, <2>2, <2>3, <2>4, Undisturbed
<1>13. ASSUME CommitReturns PROVE Rest' /\ Kept
  <2>a. /\ pc = "commit" /\ pc' = "sync" /\ open' = Tail(open) /\ open # <<>>
        /\ staged' = staged \ TasksOf(Head(open))
        /\ UNCHANGED <<queue, phase, stop, delivered, observed, ending>>
    BY <1>a, <1>13 DEF CommitReturns, Goto, InLoop, LoopPcs, exit, pool, trackers
  <2>b. /\ Head(open) = open[1] /\ Len(open) = Len(open') + 1 /\ Len(open') \in Nat
        /\ Head(open) \in Unit /\ open' \in Seq(Unit)
    BY <1>b, <2>a, TailFacts
  <2>c. \A u \in OpenUnits : u # Head(open) => u \in OpenUnits'
    BY <1>b, <2>a, HeadLeaves DEF OpenUnits
  <2>d. \A t \in Task : t[1] = Head(open) => t \in TasksOf(Head(open))
    BY TaskFacts DEF TasksOf
  <2>e. ending = "none"
    BY <1>a, <2>a DEF Undecided, LoopPcs
  <2>1. Written'
    BY <1>a, <2>a DEF Written, Alive, Permit
  <2>2. QueuedOpen'
    <3>1. ASSUME NEW i \in 1 .. Len(queue) PROVE queue[i][1] \in OpenUnits'
      <4>1. queue[i] \in Task /\ phase[queue[i]] = "idle" /\ queue[i][1] \in OpenUnits
        BY <1>a, <1>b DEF QueueFresh, QueuedOpen
      <4>2. queue[i][1] # Head(open)
        BY <1>a, <2>a, <2>d, <4>1 DEF Permit
      <4> QED BY <2>c, <4>1, <4>2
    <3> QED BY <2>a, <3>1 DEF QueuedOpen
  <2>3. StagedOpen'
    <3>1. ASSUME NEW t \in staged' PROVE t[1] \in OpenUnits'
      <4>1. t \in Task /\ t[1] \in OpenUnits /\ t[1] # Head(open)
        BY <1>a, <1>b, <2>a, <2>d DEF StagedOpen, Alive
      <4> QED BY <2>c, <4>1
    <3> QED BY <3>1 DEF StagedOpen
  <2>4. Narrow'
    BY <1>a, <1>b, <2>a, <2>b, <2>e, SessionAssumption DEF Narrow
  <2>5. Reported'
    BY <1>a, <1>b, <1>13 DEF CommitReturns, Goto, exit, pool, trackers, db,
       Reported, EndPcs
  <2>6. Blamed'
    BY <1>a, <1>b, <1>13 DEF CommitReturns, Goto, exit, pool, trackers, db,
       Blamed, Alive
  <2>7. FailedEncodeStaysOpen'
    <3>1. Head(open) = cursor
      BY <1>a, <2>a, HeadIsCursor DEF LoopPcs
    <3>2. SUFFICES ASSUME stop.at = "encode" PROVE stop.unit \in OpenUnits'
      <4>1. DOMAIN open' = 1 .. Len(open')
        BY <2>b
      <4> QED BY <2>a, <4>1 DEF FailedEncodeStaysOpen, OpenUnits
    <3>3. stop.unit \in OpenUnits
      BY <1>a, <1>b, <2>a, <3>2 DEF FailedEncodeStaysOpen, OpenUnits
    <3>4. stop.unit # cursor
      BY <1>a, <1>b, <2>a, <3>2, Kinds DEF StopFree
    <3> QED BY <2>c, <3>1, <3>3, <3>4
  <2>8. Kept
    BY <1>a, <1>b, <1>13 DEF CommitReturns, Goto, exit, pool, trackers, db,
       Alive
  <2> QED BY <2>1, <2>2, <2>3, <2>4, <2>5, <2>6, <2>7, <2>8
<1>14. ASSUME SyncInventory PROVE Rest' /\ Kept
  <2>1. Alive /\ UNCHANGED <<open, queue, phase, staged, stop, delivered>>
    BY <1>14 DEF SyncInventory, Goto, exit, pool, trackers, files, Alive
  <2>2. Narrow'
    BY <1>a, <1>b, <1>14 DEF SyncInventory, Goto, exit, pool, trackers, files,
       Narrow, Undecided, LoopPcs, BoundaryPcs, Alive
  <2>3. Reported'
    BY <1>a, <1>b, <1>14 DEF SyncInventory, Goto, exit, pool, trackers, files,
       Reported, EndPcs
  <2>4. FailedEncodeStaysOpen'
    BY <1>a, <1>b, <1>14 DEF SyncInventory, Goto, exit, pool, trackers, files,
       FailedEncodeStaysOpen, EndPcs
  <2> QED BY <2>1, <2>2, <2>3, <2>4, Undisturbed
<1>15. ASSUME RecordHead PROVE Rest' /\ Kept
  <2>1. Alive /\ UNCHANGED <<open, queue, phase, staged, stop, delivered>>
    BY <1>15 DEF RecordHead, Goto, Teardown, SaveResult, loop, trackers,
       files, Alive
  <2>2. Narrow'
    BY <1>a, <1>b, <1>15 DEF RecordHead, Goto, Teardown, SaveResult, loop,
       trackers, files, Narrow, Undecided, LoopPcs, BoundaryPcs, Alive
  <2>3. Reported'
    BY <1>a, <1>b, <1>15 DEF RecordHead, Goto, Teardown, SaveResult, loop,
       trackers, files, Reported, EndPcs
  <2>4. FailedEncodeStaysOpen'
    BY <1>a, <1>b, <1>15 DEF RecordHead, Goto, Teardown, SaveResult, loop,
       trackers, files, FailedEncodeStaysOpen, EndPcs
  <2> QED BY <2>1, <2>2, <2>3, <2>4, Undisturbed
<1>16. ASSUME SettleHead PROVE Rest' /\ Kept
  <2>a. /\ pc = "settle" /\ result.unit = cursor /\ cursor \in Unit /\ ending = "none"
        /\ pc' \in {"join", "top"}
        /\ UNCHANGED <<open, queue, phase, staged, delivered, next>>
    BY <1>a, <1>b, <1>16 DEF SettleHead, AtBoundary, BoundaryPcs, Undecided, Teardown,
       Goto, trackers, files, Unit
  <2>b. stop' = stop \/ stop'.at = "commit"
    BY <2>a, <1>16, Kinds DEF SettleHead, RequestStop
  <2>1. Written'
    BY <1>a, <1>b, <1>16 DEF SettleHead, Goto, Teardown, RequestStop,
       trackers, files, db, Written, Alive
  <2>2. QueuedOpen'
    BY <1>a, <1>b, <1>16 DEF SettleHead, Goto, Teardown, RequestStop,
       trackers, files, db, QueuedOpen, OpenUnits
  <2>3. StagedOpen'
    BY <1>a, <1>b, <1>16 DEF SettleHead, Goto, Teardown, RequestStop,
       trackers, files, db, StagedOpen, OpenUnits, Alive
  <2>4. Narrow'
    <3>1. ending' = "all" => cursor = NumUnits
      BY <2>a, <1>16 DEF SettleHead, Teardown
    <3>2. cursor = NumUnits => open = <<>>
      <4>1. Len(open) = 0 => open = <<>>
        BY <1>b
      <4>2. next = cursor + 1 + Len(open) /\ next <= NumUnits + 1
        BY <1>a, <2>a DEF AtBoundary, BoundaryPcs
      <4> QED BY <1>b, <4>1, <4>2, SessionAssumption
    <3> QED BY <1>a, <2>a, <3>1, <3>2 DEF Narrow
  <2>5. Reported'
    BY <1>a, <1>b, <1>16 DEF SettleHead, Goto, Teardown, RequestStop,
       trackers, files, db, Reported, EndPcs
  <2>6. Blamed'
    BY <1>a, <2>a, <2>b DEF Blamed, Alive
  <2>7. FailedEncodeStaysOpen'
    BY <1>a, <2>a, <2>b DEF FailedEncodeStaysOpen
  <2>8. Kept
    BY <1>a, <1>b, <1>16 DEF SettleHead, Goto, Teardown, RequestStop,
       trackers, files, db, Alive
  <2> QED BY <2>1, <2>2, <2>3, <2>4, <2>5, <2>6, <2>7, <2>8
<1>17. ASSUME Join PROVE Rest' /\ Kept
  <2>1. Alive /\ UNCHANGED <<open, queue, phase, staged, stop, delivered>>
    BY <1>17 DEF Join, Goto, EndWith, Drained, Busy, loop, pool, trackers,
       files, db, Alive
  <2>2. Narrow'
    BY <1>a, <1>b, <1>17 DEF Join, Goto, EndWith, Drained, Busy, loop, pool,
       trackers, files, db, Narrow, Undecided, LoopPcs, BoundaryPcs, Alive
  <2>3. Reported'
    <3>1. CASE pc' = "finish" \/ ending = "head"
      <4>1. observed.unit = 0 /\ UNCHANGED observed
        BY <1>a, <3>1, <1>17 DEF Join, EndWith, Goto, StopFree
      <4> QED BY <1>b, <4>1 DEF Reported
    <3>2. CASE pc' = "discard" /\ ending = "stop"
      <4>1. observed'.unit = 0 /\ observed' \in StopType
        BY <1>b, <3>2, <1>17 DEF Join, EndWith, Goto, FinalStop
      <4> QED BY <1>b, <4>1 DEF Reported
    <3>3. CASE pc' = "report"
      BY <3>3 DEF Reported, EndPcs
    <3> QED BY <1>17, <3>1, <3>2, <3>3 DEF Join, EndWith, Goto
  <2>4. FailedEncodeStaysOpen'
    BY <1>a, <1>b, <1>17 DEF Join, Goto, EndWith, Drained, Busy, loop, pool,
       trackers, files, db, FailedEncodeStaysOpen, EndPcs
  <2> QED BY <2>1, <2>2, <2>3, <2>4, Undisturbed
<1>18. ASSUME ReportFailedUnit PROVE Rest' /\ Kept
  <2>a. /\ pc = "report" /\ pc' = "discard" /\ staged' \subseteq staged
        /\ observed.at = "encode" => staged' = staged \ TasksOf(observed.unit)
        /\ UNCHANGED <<open, queue, phase, stop, delivered, observed, ending>>
    BY <1>18 DEF ReportFailedUnit, Goto, TempsOf, loop, exit, pool, trackers
  <2>b. \A t \in Task : phase[t] \notin {"encoding", "reporting"}
    BY <1>a, <2>a DEF Decided, LeavingPcs
  <2>1. Written'
    BY <1>a, <2>a, <2>b DEF Written, Alive
  <2>2. QueuedOpen'
    BY <1>a, <1>b, <1>18 DEF ReportFailedUnit, Goto, SaveResult, loop, exit,
       pool, trackers, QueuedOpen, OpenUnits
  <2>3. StagedOpen'
    BY <1>a, <1>b, <1>18 DEF ReportFailedUnit, Goto, SaveResult, loop, exit,
       pool, trackers, StagedOpen, OpenUnits, Alive
  <2>4. Narrow'
    BY <1>a, <1>b, <1>18 DEF ReportFailedUnit, Goto, SaveResult, loop, exit,
       pool, trackers, Narrow, Undecided, LoopPcs, BoundaryPcs, Alive
  <2>5. Reported'
    <3>1. \A t \in Task : t[1] = observed.unit => t \in TasksOf(observed.unit)
      BY TaskFacts DEF TasksOf
    <3> QED BY <1>b, <2>a, <3>1 DEF Reported
  <2>6. Blamed'
    BY <1>a, <1>b, <1>18 DEF ReportFailedUnit, Goto, SaveResult, loop, exit,
       pool, trackers, Blamed, Alive
  <2>7. FailedEncodeStaysOpen'
    BY <1>a, <1>b, <1>18 DEF ReportFailedUnit, Goto, SaveResult, loop, exit,
       pool, trackers, FailedEncodeStaysOpen, EndPcs
  <2>8. Kept
    BY <1>a, <1>b, <1>18 DEF ReportFailedUnit, Goto, SaveResult, loop, exit,
       pool, trackers, Alive
  <2> QED BY <2>1, <2>2, <2>3, <2>4, <2>5, <2>6, <2>7, <2>8
<1>19. ASSUME DiscardOpen PROVE Rest' /\ Kept
  <2>a. /\ pc = "discard" /\ pc' = "discard" /\ open' = Tail(open) /\ open # <<>>
        /\ IF AlreadyReported(Head(open)) THEN staged' = staged
           ELSE staged' = staged \ TasksOf(Head(open))
        /\ UNCHANGED <<queue, phase, stop, delivered, observed, ending>>
    BY <1>19 DEF DiscardOpen, TempsOf, exit, pool, trackers
  <2>b. /\ Len(open) = Len(open') + 1 /\ Len(open') \in Nat /\ Head(open) \in Unit
    BY <1>b, <2>a, TailFacts
  <2>c. \A u \in OpenUnits : u # Head(open) => u \in OpenUnits'
    BY <1>b, <2>a, HeadLeaves DEF OpenUnits
  <2>d. \A t \in Task : phase[t] \notin {"encoding", "reporting"}
    BY <1>a, <2>a DEF Decided, LeavingPcs
  <2>e. queue = <<>>
    BY <1>a, <2>a DEF Decided, LeavingPcs
  <2>1. Written'
    BY <1>a, <2>a, <2>d DEF Written, Alive
  <2>2. QueuedOpen'
    BY <2>a, <2>e DEF QueuedOpen
  <2>3. StagedOpen'
    <3>1. ASSUME NEW t \in staged' PROVE t[1] \in OpenUnits'
      <4>1. t \in staged /\ t \in Task /\ t[1] \in OpenUnits
        BY <1>a, <1>b, <2>a DEF StagedOpen, Alive
      <4>2. CASE AlreadyReported(Head(open))
        <5>1. t[1] # Head(open)
          BY <1>a, <2>a, <2>b, <4>1, <4>2, Kinds DEF AlreadyReported, Reported, EndPcs
        <5> QED BY <2>c, <4>1, <5>1
      <4>3. CASE ~AlreadyReported(Head(open))
        <5>1. t[1] # Head(open)
          BY <2>a, <4>1, <4>3, TaskFacts DEF TasksOf
        <5> QED BY <2>c, <4>1, <5>1
      <4> QED BY <4>2, <4>3
    <3> QED BY <3>1 DEF StagedOpen
  <2>4. Narrow'
    BY <1>a, <1>b, <2>a, <2>b, SessionAssumption DEF Narrow
  <2>5. Reported'
    BY <1>a, <1>b, <1>19 DEF DiscardOpen, Goto, SaveResult, exit, pool,
       trackers, Reported, EndPcs
  <2>6. Blamed'
    BY <1>a, <1>b, <1>19 DEF DiscardOpen, Goto, SaveResult, exit, pool,
       trackers, Blamed, Alive
  <2>7. FailedEncodeStaysOpen'
    BY <1>a, <1>b, <1>19 DEF DiscardOpen, Goto, SaveResult, exit, pool,
       trackers, FailedEncodeStaysOpen, EndPcs
  <2>8. Kept
    BY <1>a, <1>b, <1>19 DEF DiscardOpen, Goto, SaveResult, exit, pool,
       trackers, Alive
  <2> QED BY <2>1, <2>2, <2>3, <2>4, <2>5, <2>6, <2>7, <2>8
<1>20. ASSUME DiscardEnds PROVE Rest' /\ Kept
  <2>1. Alive /\ UNCHANGED <<open, queue, phase, staged, stop, delivered>>
    BY <1>20 DEF DiscardEnds, Goto, loop, exit, pool, trackers, files, db,
       Alive
  <2>2. Narrow'
    BY <1>a, <1>b, <1>20 DEF DiscardEnds, Goto, loop, exit, pool, trackers,
       files, db, Narrow, Undecided, LoopPcs, BoundaryPcs, Alive
  <2>3. Reported'
    BY <1>a, <1>b, <1>20 DEF DiscardEnds, Goto, loop, exit, pool, trackers,
       files, db, Reported, EndPcs
  <2>4. FailedEncodeStaysOpen'
    BY <1>a, <1>b, <1>20 DEF DiscardEnds, Goto, loop, exit, pool, trackers,
       files, db, FailedEncodeStaysOpen, EndPcs
  <2> QED BY <2>1, <2>2, <2>3, <2>4, Undisturbed
<1>21. ASSUME Finish PROVE Rest' /\ Kept
  <2>1. Alive /\ UNCHANGED <<open, queue, phase, staged, stop, delivered>>
    BY <1>21 DEF Finish, Goto, loop, exit, pool, trackers, files, Alive
  <2>2. Narrow'
    BY <1>a, <1>b, <1>21 DEF Finish, Goto, loop, exit, pool, trackers, files,
       Narrow, Undecided, LoopPcs, BoundaryPcs, Alive
  <2>3. Reported'
    BY <1>a, <1>b, <1>21 DEF Finish, Goto, loop, exit, pool, trackers, files,
       Reported, EndPcs
  <2>4. FailedEncodeStaysOpen'
    BY <1>a, <1>b, <1>21 DEF Finish, Goto, loop, exit, pool, trackers, files,
       FailedEncodeStaysOpen, EndPcs
  <2> QED BY <2>1, <2>2, <2>3, <2>4, Undisturbed
<1>22. ASSUME RequestCancel PROVE Rest' /\ Kept
  <2>1. Alive /\ UNCHANGED <<open, queue, phase, staged, stop, delivered>>
    BY <1>22 DEF RequestCancel, coordinator, loop, exit, pool, trackers,
       files, Alive
  <2>2. Narrow'
    BY <1>a, <1>b, <1>22 DEF RequestCancel, coordinator, loop, exit, pool,
       trackers, files, Narrow, Undecided, LoopPcs, BoundaryPcs, Alive
  <2>3. Reported'
    BY <1>a, <1>b, <1>22 DEF RequestCancel, coordinator, loop, exit, pool,
       trackers, files, Reported, EndPcs
  <2>4. FailedEncodeStaysOpen'
    BY <1>a, <1>b, <1>22 DEF RequestCancel, coordinator, loop, exit, pool,
       trackers, files, FailedEncodeStaysOpen, EndPcs
  <2> QED BY <2>1, <2>2, <2>3, <2>4, Undisturbed
<1>23. ASSUME ObserveCancel PROVE Rest' /\ Kept
  <2>1. Alive /\ UNCHANGED <<open, queue, phase, staged, stop, delivered>>
    BY <1>23 DEF ObserveCancel, coordinator, loop, exit, trackers, files, db,
       Alive, Running
  <2>2. Narrow'
    BY <1>a, <1>b, <1>23 DEF ObserveCancel, coordinator, loop, exit, trackers,
       files, db, Narrow, Undecided, LoopPcs, BoundaryPcs, Alive
  <2>3. Reported'
    BY <1>a, <1>b, <1>23 DEF ObserveCancel, coordinator, loop, exit, trackers,
       files, db, Reported, EndPcs
  <2>4. FailedEncodeStaysOpen'
    BY <1>a, <1>b, <1>23 DEF ObserveCancel, coordinator, loop, exit, trackers,
       files, db, FailedEncodeStaysOpen, EndPcs
  <2> QED BY <2>1, <2>2, <2>3, <2>4, Undisturbed
<1>24. ASSUME Crash PROVE Rest' /\ Kept
  <2>1. Written'
    BY <1>a, <1>b, <1>24 DEF Crash, Goto, db, Written, Alive
  <2>2. QueuedOpen'
    BY <1>a, <1>b, <1>24 DEF Crash, Goto, db, QueuedOpen, OpenUnits
  <2>3. StagedOpen'
    BY <1>a, <1>b, <1>24 DEF Crash, Goto, db, StagedOpen, OpenUnits, Alive
  <2>4. Narrow'
    BY SessionAssumption, <1>24 DEF Crash, Goto, Narrow
  <2>5. Reported'
    BY <1>a, <1>b, <1>24 DEF Crash, Goto, db, Reported, EndPcs
  <2>6. Blamed'
    BY <1>a, <1>b, <1>24 DEF Crash, Goto, db, Blamed, Alive
  <2>7. FailedEncodeStaysOpen'
    BY Kinds, <1>24 DEF Crash, Goto, FailedEncodeStaysOpen
  <2>8. Kept
    BY <1>a, <1>b, <1>24 DEF Crash, Goto, db, Alive
  <2> QED BY <2>1, <2>2, <2>3, <2>4, <2>5, <2>6, <2>7, <2>8
<1>25. ASSUME Restart PROVE Rest' /\ Kept
  <2>1. Written'
    BY <1>a, <1>b, <1>25 DEF Restart, Goto, loop, exit, pool, trackers, files,
       Written, Alive
  <2>2. QueuedOpen'
    BY <1>a, <1>b, <1>25 DEF Restart, Goto, loop, exit, pool, trackers, files,
       QueuedOpen, OpenUnits
  <2>3. StagedOpen'
    BY <1>a, <1>b, <1>25 DEF Restart, Goto, loop, exit, pool, trackers, files,
       StagedOpen, OpenUnits, Alive
  <2>4. Narrow'
    BY <1>a, <1>b, <1>25 DEF Restart, Goto, loop, exit, pool, trackers, files,
       Narrow, Undecided, LoopPcs, BoundaryPcs, Alive
  <2>5. Reported'
    BY <1>a, <1>b, <1>25 DEF Restart, Goto, loop, exit, pool, trackers, files,
       Reported, EndPcs
  <2>6. Blamed'
    BY <1>a, <1>b, <1>25 DEF Restart, Goto, loop, exit, pool, trackers, files,
       Blamed, Alive
  <2>7. FailedEncodeStaysOpen'
    BY <1>a, <1>b, <1>25 DEF Restart, Goto, loop, exit, pool, trackers, files,
       FailedEncodeStaysOpen, EndPcs
  <2>8. Kept
    BY <1>a, <1>b, <1>25 DEF Restart, Goto, loop, exit, pool, trackers, files,
       Alive
  <2> QED BY <2>1, <2>2, <2>3, <2>4, <2>5, <2>6, <2>7, <2>8
<1>26. ASSUME NEW t \in Task, TakeTask(t) PROVE Rest' /\ Kept
  <2>a. /\ queue # <<>> /\ t = Head(queue) /\ queue' = Tail(queue) /\ Alive
        /\ UNCHANGED <<pc, open, stop, delivered, observed, ending>>
    BY <1>26 DEF TakeTask, Running, Alive, coordinator, loop, exit, trackers
  <2>b. /\ t = queue[1] /\ 1 \in 1 .. Len(queue) /\ Len(queue) = Len(queue') + 1
        /\ Len(queue') \in Nat
        /\ \A i \in 1 .. Len(queue') : i + 1 \in 1 .. Len(queue) /\ queue'[i] = queue[i + 1]
    <3>1. /\ Head(queue) = queue[1] /\ Len(queue) = Len(queue') + 1
          /\ \A i \in 1 .. Len(queue') : queue'[i] = queue[i + 1]
      BY <1>b, <2>a, TailFacts
    <3>2. Len(queue') \in Nat
      BY <1>b, <2>a
    <3> QED BY <1>b, <2>a, <3>1, <3>2
  <2>c. phase[t] = "idle" /\ t[1] \in OpenUnits /\ t \notin staged
    BY <1>a, <2>a, <2>b DEF QueueFresh, QueuedOpen, Written
  <2>d. /\ phase' = [phase EXCEPT ![t] = IF canceled THEN "refused" ELSE "encoding"]
        /\ staged' = IF canceled THEN staged ELSE staged \cup {t}
    BY <1>26 DEF TakeTask
  <2>e. OpenUnits' = OpenUnits
    BY <2>a DEF OpenUnits
  <2>1. Written'
    BY <1>a, <1>b, <2>a, <2>c, <2>d DEF Written, Alive
  <2>2. QueuedOpen'
    BY <1>a, <2>b, <2>e DEF QueuedOpen
  <2>3. StagedOpen'
    BY <1>a, <2>a, <2>c, <2>d, <2>e DEF StagedOpen, Alive
  <2>4. Narrow'
    BY <1>a, <1>b, <1>26 DEF TakeTask, coordinator, loop, exit, trackers,
       files, db, Running, Narrow, Undecided, LoopPcs, BoundaryPcs, Alive
  <2>5. Reported'
    <3>1. pc \notin EndPcs
      BY <1>a, <2>a, <1>26 DEF TakeTask, Running, Decided, LeavingPcs, EndPcs
    <3> QED BY <2>a, <3>1 DEF Reported
  <2>6. Blamed'
    <3>1. \A s \in Task : phase[s] = "failed" => phase'[s] = "failed"
      BY <1>b, <2>c, <2>d
    <3>2. \A u : \A s \in TasksOf(u) : u \in Unit => s \in Task
      BY TaskFacts, SessionAssumption DEF TasksOf
    <3>3. stop.at = "encode" => stop.unit \in Unit
      BY <1>b
    <3> QED BY <1>a, <2>a, <3>1, <3>2, <3>3 DEF Blamed
  <2>7. FailedEncodeStaysOpen'
    BY <1>a, <1>b, <1>26 DEF TakeTask, coordinator, loop, exit, trackers,
       files, db, Running, FailedEncodeStaysOpen, EndPcs
  <2>8. Kept
    BY <1>a, <1>b, <1>26 DEF TakeTask, coordinator, loop, exit, trackers,
       files, db, Running, Alive
  <2> QED BY <2>1, <2>2, <2>3, <2>4, <2>5, <2>6, <2>7, <2>8
<1>27. ASSUME NEW t \in Task, EncodeSucceeds(t) PROVE Rest' /\ Kept
  <2>1. Written'
    BY <1>a, <1>b, <1>27 DEF EncodeSucceeds, TaskReturned, coordinator, loop,
       exit, files, db, Running, Written, Alive
  <2>2. QueuedOpen'
    BY <1>a, <1>b, <1>27 DEF EncodeSucceeds, TaskReturned, coordinator, loop,
       exit, files, db, Running, QueuedOpen, OpenUnits
  <2>3. StagedOpen'
    BY <1>a, <1>b, <1>27 DEF EncodeSucceeds, TaskReturned, coordinator, loop,
       exit, files, db, Running, StagedOpen, OpenUnits, Alive
  <2>4. Narrow'
    BY <1>a, <1>b, <1>27 DEF EncodeSucceeds, TaskReturned, coordinator, loop,
       exit, files, db, Running, Narrow, Undecided, LoopPcs, BoundaryPcs,
       Alive
  <2>5. Reported'
    BY <1>a, <1>b, <1>27 DEF EncodeSucceeds, TaskReturned, coordinator, loop,
       exit, files, db, Running, Reported, EndPcs
  <2>6. Blamed'
    BY <1>a, <1>b, <1>27 DEF EncodeSucceeds, TaskReturned, coordinator, loop,
       exit, files, db, Running, Blamed, Alive
  <2>7. FailedEncodeStaysOpen'
    BY <1>a, <1>b, <1>27 DEF EncodeSucceeds, TaskReturned, coordinator, loop,
       exit, files, db, Running, FailedEncodeStaysOpen, EndPcs
  <2>8. Kept
    BY <1>a, <1>b, <1>27 DEF EncodeSucceeds, TaskReturned, coordinator, loop,
       exit, files, db, Running, Alive
  <2> QED BY <2>1, <2>2, <2>3, <2>4, <2>5, <2>6, <2>7, <2>8
<1>28. ASSUME NEW t \in Task, EncodeCanceled(t) PROVE Rest' /\ Kept
  <2>1. Written'
    BY <1>a, <1>b, <1>28 DEF EncodeCanceled, TaskReturned, coordinator, loop,
       exit, files, db, Running, Written, Alive
  <2>2. QueuedOpen'
    BY <1>a, <1>b, <1>28 DEF EncodeCanceled, TaskReturned, coordinator, loop,
       exit, files, db, Running, QueuedOpen, OpenUnits
  <2>3. StagedOpen'
    BY <1>a, <1>b, <1>28 DEF EncodeCanceled, TaskReturned, coordinator, loop,
       exit, files, db, Running, StagedOpen, OpenUnits, Alive
  <2>4. Narrow'
    BY <1>a, <1>b, <1>28 DEF EncodeCanceled, TaskReturned, coordinator, loop,
       exit, files, db, Running, Narrow, Undecided, LoopPcs, BoundaryPcs,
       Alive
  <2>5. Reported'
    BY <1>a, <1>b, <1>28 DEF EncodeCanceled, TaskReturned, coordinator, loop,
       exit, files, db, Running, Reported, EndPcs
  <2>6. Blamed'
    BY <1>a, <1>b, <1>28 DEF EncodeCanceled, TaskReturned, coordinator, loop,
       exit, files, db, Running, Blamed, Alive
  <2>7. FailedEncodeStaysOpen'
    BY <1>a, <1>b, <1>28 DEF EncodeCanceled, TaskReturned, coordinator, loop,
       exit, files, db, Running, FailedEncodeStaysOpen, EndPcs
  <2>8. Kept
    BY <1>a, <1>b, <1>28 DEF EncodeCanceled, TaskReturned, coordinator, loop,
       exit, files, db, Running, Alive
  <2> QED BY <2>1, <2>2, <2>3, <2>4, <2>5, <2>6, <2>7, <2>8
<1>29. ASSUME NEW t \in Task, EncodeFails(t) PROVE Rest' /\ Kept
  <2>1. Written'
    BY <1>a, <1>b, <1>29 DEF EncodeFails, TaskReturned, coordinator, loop,
       exit, files, db, Running, Written, Alive
  <2>2. QueuedOpen'
    BY <1>a, <1>b, <1>29 DEF EncodeFails, TaskReturned, coordinator, loop,
       exit, files, db, Running, QueuedOpen, OpenUnits
  <2>3. StagedOpen'
    BY <1>a, <1>b, <1>29 DEF EncodeFails, TaskReturned, coordinator, loop,
       exit, files, db, Running, StagedOpen, OpenUnits, Alive
  <2>4. Narrow'
    BY <1>a, <1>b, <1>29 DEF EncodeFails, TaskReturned, coordinator, loop,
       exit, files, db, Running, Narrow, Undecided, LoopPcs, BoundaryPcs,
       Alive
  <2>5. Reported'
    BY <1>a, <1>b, <1>29 DEF EncodeFails, TaskReturned, coordinator, loop,
       exit, files, db, Running, Reported, EndPcs
  <2>6. Blamed'
    BY <1>a, <1>b, <1>29 DEF EncodeFails, TaskReturned, coordinator, loop,
       exit, files, db, Running, Blamed, Alive
  <2>7. FailedEncodeStaysOpen'
    BY <1>a, <1>b, <1>29 DEF EncodeFails, TaskReturned, coordinator, loop,
       exit, files, db, Running, FailedEncodeStaysOpen, EndPcs
  <2>8. Kept
    BY <1>a, <1>b, <1>29 DEF EncodeFails, TaskReturned, coordinator, loop,
       exit, files, db, Running, Alive
  <2> QED BY <2>1, <2>2, <2>3, <2>4, <2>5, <2>6, <2>7, <2>8
<1>30. ASSUME NEW t \in Task, ReportFailure(t) PROVE Rest' /\ Kept
  <2>a. /\ phase[t] = "reporting" /\ Alive /\ t[1] \in Unit
        /\ phase' = [phase EXCEPT ![t] = "failed"]
        /\ stop' = IF stop = NoStop THEN Stop(t[1], "encode") ELSE stop
        /\ UNCHANGED <<pc, open, queue, staged, delivered, observed>>
    BY <1>b, <1>30 DEF ReportFailure, RequestStop, Running, Alive, coordinator, loop, exit,
       trackers, files
  <2>b. Stop(t[1], "encode").unit = t[1] /\ Stop(t[1], "encode").at = "encode"
    BY <2>a, Kinds
  <2>1. Written'
    BY <1>a, <1>b, <1>30 DEF ReportFailure, RequestStop, coordinator, loop,
       exit, trackers, files, db, Running, Written, Alive
  <2>2. QueuedOpen'
    BY <1>a, <1>b, <1>30 DEF ReportFailure, RequestStop, coordinator, loop,
       exit, trackers, files, db, Running, QueuedOpen, OpenUnits
  <2>3. StagedOpen'
    BY <1>a, <1>b, <1>30 DEF ReportFailure, RequestStop, coordinator, loop,
       exit, trackers, files, db, Running, StagedOpen, OpenUnits, Alive
  <2>4. Narrow'
    BY <1>a, <1>b, <1>30 DEF ReportFailure, RequestStop, coordinator, loop,
       exit, trackers, files, db, Running, Narrow, Undecided, LoopPcs,
       BoundaryPcs, Alive
  <2>5. Reported'
    BY <1>a, <1>b, <1>30 DEF ReportFailure, RequestStop, coordinator, loop,
       exit, trackers, files, db, Running, Reported, EndPcs
  <2>6. Blamed'
    <3>1. \A u \in Unit : \A s \in TasksOf(u) : s \in Task
      BY TaskFacts, SessionAssumption DEF TasksOf
    <3>2. t \in TasksOf(t[1])
      BY TaskFacts DEF TasksOf
    <3>3. \A s \in Task : phase[s] = "failed" => phase'[s] = "failed"
      BY <1>b, <2>a
    <3>4. phase'[t] = "failed"
      BY <1>b, <2>a
    <3>5. CASE stop = NoStop
      BY <2>a, <2>b, <3>2, <3>4, <3>5 DEF Blamed
    <3>6. CASE stop # NoStop
      BY <1>a, <1>b, <2>a, <3>1, <3>3, <3>6 DEF Blamed
    <3> QED BY <3>5, <3>6
  <2>7. FailedEncodeStaysOpen'
    <3>1. t[1] \in OpenUnits
      BY <1>a, <2>a DEF Written, StagedOpen
    <3>2. \E i \in DOMAIN open : open[i] = t[1]
      BY <1>b, <3>1 DEF OpenUnits
    <3> QED BY <1>a, <2>a, <2>b, <3>2 DEF FailedEncodeStaysOpen
  <2>8. Kept
    BY <1>a, <1>b, <1>30 DEF ReportFailure, RequestStop, coordinator, loop,
       exit, trackers, files, db, Running, Alive
  <2> QED BY <2>1, <2>2, <2>3, <2>4, <2>5, <2>6, <2>7, <2>8
<1>31. ASSUME UNCHANGED vars PROVE Rest' /\ Kept
  BY <1>a, <1>31 DEF vars, coordinator, loop, exit, pool, trackers, files, db, Written,
     QueuedOpen, StagedOpen, OpenUnits, Narrow, Reported, Blamed,
     FailedEncodeStaysOpen, Alive
<1>32. Rest' /\ Kept
  BY <1>1, <1>2, <1>3, <1>4, <1>5, <1>6, <1>7, <1>8, <1>9, <1>10, <1>11,
     <1>12, <1>13, <1>14, <1>15, <1>16, <1>17, <1>18, <1>19, <1>20, <1>21,
     <1>22, <1>23, <1>24, <1>25, <1>26, <1>27, <1>28, <1>29, <1>30, <1>31 DEF
     Next, Coordinator, WorkerStep
<1>33. WindowBoundsStaging'
  <2>1. CASE UNCHANGED staged
    BY <1>a, <2>1 DEF WindowBoundsStaging
  <2>2. CASE Alive'
    <3>1. open' \in Seq(Unit) /\ Len(open') <= Window
      BY <1>32, ShapeNext DEF Shape, TypeOK, CoordinatorType, Narrow
    <3>2. \A t \in staged' : t[1] \in {open'[i] : i \in 1 .. Len(open')}
      BY <1>32, <2>2 DEF StagedOpen, OpenUnits
    <3> QED BY <3>1, <3>2, Bounded DEF WindowBoundsStaging
  <2> QED BY <1>32, <2>1, <2>2
<1> QED BY <1>32, <1>33 DEF Staging


-----------------------------------------------------------------------------
\* What the theorems below rest on: the invariants of a session, together.
LEMMA SessionInv ==
    Spec => [](Shape /\ Bookkeeping /\ RowsInv /\ Serially /\ Staging)
<1>1. Init => Shape /\ Bookkeeping /\ RowsInv /\ Serially /\ Staging
  BY ShapeInit, BookkeepingInit, RowsInit, SeriallyInit, StagingInit
<1>2. Shape /\ Bookkeeping /\ RowsInv /\ Serially /\ Staging /\ [Next]_vars
        => (Shape /\ Bookkeeping /\ RowsInv /\ Serially /\ Staging)'
  BY ShapeNext, BookkeepingNext, RowsNext, SeriallyNext, StagingNext
<1> QED BY <1>1, <1>2, PTL DEF Spec

\* The staged files of a session are those of its open units, whatever stops it;
\* a window bounds them, a unit that is committed has all of its own, and a session
\* that ends leaves none (fillWindow, committable, requestStop, discardOpen).
THEOREM StagingStaysOwned == Spec => []StagingIsOwned
<1>1. Shape /\ Bookkeeping /\ RowsInv /\ Serially /\ Staging /\ CommitsOnlyEncoded
        => StagingIsOwned
  <2> SUFFICES ASSUME Shape, Staging, CommitsOnlyEncoded PROVE StagingIsOwned
    OBVIOUS
  <2>1. NoOrphanTemps
    <3> SUFFICES ASSUME pc = "done" PROVE staged = {}
      BY DEF NoOrphanTemps
    <3>1. open = <<>>
      BY DEF Staging, Narrow
    <3>2. OpenUnits = {}
      BY <3>1 DEF OpenUnits
    <3> QED BY <3>2 DEF Staging, StagedOpen, Alive
  <2> QED BY <2>1 DEF Staging, StagingIsOwned
<1> QED BY <1>1, SessionInv, CommitsAreEncoded, PTL

\* A staged file disappears only behind the return of its writer: with the unit
\* that commits, or after the workers were awaited.
LEMMA CleansReturned ==
    Shape /\ Bookkeeping /\ RowsInv /\ Serially /\ Staging /\ [Next]_vars
      => \A t \in staged \ staged' : phase[t] \in {"encoded", "failed", "aborted"}
<1> SUFFICES ASSUME Shape, Bookkeeping, RowsInv, Serially, Staging, [Next]_vars,
                    NEW t \in staged, t \notin staged'
             PROVE  phase[t] \in {"encoded", "failed", "aborted"}
  OBVIOUS
<1>1. t \in Task /\ phase[t] \in PhaseValues
  BY RowsFacts DEF Shape, TypeOK, FilesType
<1>2. \/ pc = "commit" /\ t \in TasksOf(Head(open))
      \/ pc \in {"report", "discard"}
  BY DEF Next, Coordinator, WorkerStep, vars, coordinator, loop, exit, pool, trackers,
     files, db, Claim, VerifyInputs, LoopTop, PrepareUnit, FillEnds, SendTask,
     CountTask, AbortDelivery, EndDelivery, WaitHead, CheckHead, AdmitCommit,
     CommitReturns, SyncInventory, RecordHead, SettleHead, Join, ReportFailedUnit,
     DiscardOpen, DiscardEnds, Finish, TakeTask, EncodeSucceeds, EncodeCanceled,
     EncodeFails, ReportFailure, RequestCancel, ObserveCancel, Crash, Restart
<1>3. CASE pc = "commit" /\ t \in TasksOf(Head(open))
  BY <1>3 DEF Bookkeeping, Permit
<1>4. CASE pc \in {"report", "discard"}
  <2>1. phase[t] \notin {"idle", "refused", "encoding", "reporting"}
    BY <1>1, <1>4 DEF Staging, Written, Alive, RowsInv, Decided, LeavingPcs
  <2> QED BY <1>1, <2>1 DEF PhaseValues
<1> QED BY <1>2, <1>3, <1>4

\* A row turns failed as the result of its own commit, or of the step the stop
\* names.
LEMMA FailsItsOwn ==
    Shape /\ Bookkeeping /\ RowsInv /\ Serially /\ Staging /\ [Next]_vars
      => \A u \in Unit : rows'[u].status = "failed" /\ rows[u].status # "failed" =>
            \/ stop = Stop(u, "prepare") /\ delivered[u] = 0
            \/ stop = Stop(u, "encode") /\ \E t \in TasksOf(u) : phase[t] = "failed"
            \/ result.unit = u /\ result.row.status = "failed"
<1> SUFFICES ASSUME Shape, Bookkeeping, RowsInv, Serially, Staging, [Next]_vars,
                    NEW u \in Unit, rows'[u].status = "failed", rows[u].status # "failed"
             PROVE  \/ stop = Stop(u, "prepare") /\ delivered[u] = 0
                    \/ stop = Stop(u, "encode") /\ \E t \in TasksOf(u) : phase[t] = "failed"
                    \/ result.unit = u /\ result.row.status = "failed"
  OBVIOUS
<1>1. /\ rows \in [Unit -> RowType] /\ observed \in StopType /\ stop \in StopType
      /\ \A s \in StopType : s.unit \in Unit => s.at \in {"prepare", "encode", "commit"}
      /\ \A s \in StopType : s = Stop(s.unit, s.at)
  BY RowsFacts, SeriallyFacts DEF StopType, NoStop, CancelStop, Stop
<1>2. rows' # rows
  OBVIOUS
<1>3. RecordHead \/ ReportFailedUnit \/ DiscardOpen
  BY <1>2 DEF Next, Coordinator, WorkerStep, vars, coordinator, loop, exit, pool,
     trackers, files, db, Claim, VerifyInputs, LoopTop, PrepareUnit, FillEnds,
     SendTask, CountTask, AbortDelivery, EndDelivery, WaitHead, CheckHead,
     AdmitCommit, CommitReturns, SyncInventory, SettleHead, Join, DiscardEnds,
     Finish, TakeTask, EncodeSucceeds, EncodeCanceled, EncodeFails, ReportFailure,
     RequestCancel, ObserveCancel, Crash, Restart
<1>4. CASE RecordHead
  BY <1>1, <1>2, <1>4 DEF RecordHead, SaveResult
<1>5. CASE ReportFailedUnit
  <2>1. /\ pc = "report" /\ observed.at # "commit" /\ u = observed.unit
    BY <1>1, <1>2, <1>5 DEF ReportFailedUnit, SaveResult
  <2>2. observed = stop
    BY <1>1, <2>1, Kinds DEF Serially, StopFree, LeavingPcs, Shape, Outside, Unit
  <2>3. stop.unit = u /\ stop.at \in {"prepare", "encode"} /\ stop = Stop(u, stop.at)
    BY <1>1, <2>1, <2>2
  <2> QED BY <2>1, <2>3 DEF Staging, Blamed, Alive
<1>6. CASE DiscardOpen
  <2>1. rows' = [rows EXCEPT ![Head(open)] = DiscardedRow]
    BY <1>2, <1>6 DEF DiscardOpen, SaveResult
  <2>2. DiscardedRow.status = "pending"
    BY DEF DiscardedRow, Row
  <2> QED BY <1>1, <2>1, <2>2
<1> QED BY <1>3, <1>4, <1>5, <1>6

\* Nothing is blamed on or taken from a unit whose workers still run (shutdown,
\* reportFailedUnit).
THEOREM BlameIsTrue == Spec => StepsAreAttributed
<1> DEFINE IInv == Shape /\ Bookkeeping /\ RowsInv /\ Serially /\ Staging
<1>1. IInv /\ [Next]_vars
        => [\A t \in staged \ staged' : phase[t] \in {"encoded", "failed", "aborted"}]_vars
  BY CleansReturned
<1>2. IInv /\ [Next]_vars
        => [\A u \in Unit : rows'[u].status = "failed" /\ rows[u].status # "failed" =>
              \/ stop = Stop(u, "prepare") /\ delivered[u] = 0
              \/ stop = Stop(u, "encode") /\ \E t \in TasksOf(u) : phase[t] = "failed"
              \/ result.unit = u /\ result.row.status = "failed"]_vars
  BY FailsItsOwn
<1> QED
  BY <1>1, <1>2, SessionInv, PTL
     DEF Spec, StepsAreAttributed, CleansOnlyReturned, FailureAttributed
===============================================================================
