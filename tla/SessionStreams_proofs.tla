------------------------ MODULE SessionStreams_proofs ------------------------
(***************************************************************************)
(* The proofs about the events of a session: what its stream tells the     *)
(* client that follows it (ExecutionStream), and what the pages make of    *)
(* the streams they follow (SessionPage).                                  *)
(*                                                                         *)
(* The stream: the events a client was sent and has not read, and what it  *)
(* read, always add up to a prefix of what happened, the cursor splits the *)
(* results into those told and those still to be told, and nothing follows *)
(* the end.  The pages: one stream at a time is the store's, and the one   *)
(* that told the end leaves no cache that says otherwise.                  *)
(***************************************************************************)
EXTENDS ExecutionStream, SessionPage, FiniteSetTheorems, WellFoundedInduction, TLAPS

-----------------------------------------------------------------------------
(* THE STREAM: sequences and cursors.                                      *)

LEMMA ConcatIndexes ==
    ASSUME NEW E, NEW s \in Seq(E), NEW t \in Seq(E)
    PROVE  /\ s \o t \in Seq(E)
           /\ Len(s \o t) = Len(s) + Len(t)
           /\ \A n \in DOMAIN s : n \in DOMAIN (s \o t) /\ (s \o t)[n] = s[n]
           /\ \A n \in DOMAIN t : Len(s) + n \in DOMAIN (s \o t) /\ (s \o t)[Len(s) + n] = t[n]
           /\ \A n \in DOMAIN (s \o t) :
                \/ n \in DOMAIN s
                \/ n - Len(s) \in DOMAIN t /\ n = Len(s) + (n - Len(s)) /\ n \notin DOMAIN s
OBVIOUS

LEMMA PairIndexes ==
    ASSUME NEW E, NEW a \in E, NEW b \in E
    PROVE  LET pair == <<>> \o (<<a>> \o <<b>>)
           IN  DOMAIN pair = {1, 2} /\ Len(pair) = 2 /\ pair[1] = a /\ pair[2] = b
<1> DEFINE s == <<a>>
           t == <<b>>
<1>1. s \in Seq(E) /\ t \in Seq(E) /\ Len(s) = 1 /\ Len(t) = 1 /\ s[1] = a /\ t[1] = b
    OBVIOUS
<1> HIDE DEF s, t
<1>2. s \o t \in Seq(E) /\ Len(s \o t) = 2 /\ (s \o t)[1] = s[1] /\ (s \o t)[Len(s) + 1] = t[1]
    <2>1. 1 \in DOMAIN s /\ 1 \in DOMAIN t
        BY <1>1
    <2> QED BY <1>1, <2>1, ConcatIndexes
<1>3. <<>> \o (s \o t) = s \o t
    BY <1>2
<1>4. DOMAIN (s \o t) = 1 .. 2
    BY <1>2
<1> QED BY <1>1, <1>2, <1>3, <1>4 DEF s, t

LEMMA EnumerationIsSequence ==
    ASSUME NEW E, NEW n \in Nat, NEW s \in [1 .. n -> E]
    PROVE  s \in Seq(E)
OBVIOUS

LEMMA TailIndexes ==
    ASSUME NEW E, NEW s \in Seq(E), s # <<>>
    PROVE  /\ Tail(s) \in Seq(E)
           /\ Head(s) = s[1] /\ 1 \in DOMAIN s
           /\ \A n \in DOMAIN Tail(s) : n + 1 \in DOMAIN s /\ Tail(s)[n] = s[n + 1]
           /\ \A n \in DOMAIN s : n # 1 => n - 1 \in DOMAIN Tail(s) /\ Tail(s)[n - 1] = s[n]
           /\ Len(Tail(s)) = Len(s) - 1
OBVIOUS

LEMMA ComponentsAreNumbers == Component \subseteq Nat /\ IsFiniteSet(Component)
<1>1. NumComponents - 1 \in Int /\ 0 \in Int
    BY StreamAssumption
<1> QED BY <1>1, FS_Interval, StreamAssumption DEF Component

\* A set of numbers with a bound has a highest member.
LEMMA HasMax ==
    ASSUME NEW N \in Nat, NEW S \in SUBSET (0 .. N), S # {}
    PROVE  Max(S) \in S /\ \A i \in S : i <= Max(S)
<1> DEFINE Bounds == {b \in Nat : \A i \in S : i <= b}
<1>1. N \in Bounds
    OBVIOUS
<1>2. PICK b \in Bounds : \A c \in Bounds : ~(<<c, b>> \in OpToRel(<, Nat))
    <2> HIDE DEF Bounds
    <2>1. Bounds \subseteq Nat /\ Bounds # {}
        BY <1>1 DEF Bounds
    <2> QED BY <2>1, NatLessThanWellFounded, WFMin
<1>3. \A c \in Bounds : ~(c < b)
    BY <1>2 DEF OpToRel
<1>4. b \in S
    <2> SUFFICES ASSUME b \notin S PROVE FALSE
        OBVIOUS
    <2>1. \A i \in S : i < b /\ i \in Nat
        OBVIOUS
    <2>2. PICK i \in S : i < b /\ i \in Nat
        BY <2>1
    <2>3. b - 1 \in Bounds
        <3>1. b - 1 \in Nat
            BY <2>2
        <3> QED BY <2>1, <3>1
    <2> QED BY <1>3, <2>3
<1>5. \E m \in S : \A i \in S : m >= i
    BY <1>4
<1> QED BY <1>5 DEF Max

\* The cursor never goes back, and is past every row listed and no further.
LEMMA CursorIsPast ==
    ASSUME NEW cursor \in 0 .. NumComponents, NEW rows \in SUBSET Component
    PROVE  /\ PastLast(cursor, rows) \in 0 .. NumComponents
           /\ cursor <= PastLast(cursor, rows)
           /\ \A i \in rows : i < PastLast(cursor, rows)
           /\ PastLast(cursor, rows) = cursor \/ PastLast(cursor, rows) - 1 \in rows
<1> DEFINE S == {cursor} \cup {i + 1 : i \in rows}
<1>1. S \in SUBSET (0 .. NumComponents) /\ S # {}
    BY StreamAssumption DEF Component
<1>2. Max(S) \in S /\ \A i \in S : i <= Max(S)
    <2> HIDE DEF S
    <2> QED BY <1>1, HasMax, StreamAssumption
<1>3. PastLast(cursor, rows) = Max(S)
    BY DEF PastLast
<1> HIDE DEF PastLast
<1>4. cursor <= PastLast(cursor, rows) /\ \A i \in rows : i + 1 <= PastLast(cursor, rows)
    BY <1>2, <1>3
<1> QED BY <1>1, <1>2, <1>3, <1>4, StreamAssumption, ComponentsAreNumbers

-----------------------------------------------------------------------------
(* What the client is told.                                                *)

StatusType == Active \cup Terminal
SubType == [at : {"none", "load", "view", "list", "tick", "results", "closed"},
            cursor : 0 .. NumComponents,
            seen : {"none"} \cup StatusType,
            last : {"none"} \cup StatusType]
ViewType == [status : {"none"} \cup StatusType, known : SUBSET Component]
StoreType == [status : {"idle", "streaming", "error"} \cup Terminal,
              terminal : {"none", "event", "transport"},
              view : ViewType]

IsComponent(e) == e.kind = "component"
IsSnapshot(e) == e.kind = "execution_snapshot"
IsEnd(e) == e.kind \in Terminal \cup {"error"}

\* The results a sequence of events tells.
ToldBy(events) ==
    {i \in Component : \E n \in DOMAIN events :
        \/ IsComponent(events[n]) /\ events[n].data = i
        \/ IsSnapshot(events[n]) /\ i \in events[n].data.known}

LEMMA ToldByConcat ==
    ASSUME NEW s \in Seq(EventType), NEW t \in Seq(EventType)
    PROVE  ToldBy(s \o t) = ToldBy(s) \cup ToldBy(t)
<1>1. ASSUME NEW i \in ToldBy(s \o t) PROVE i \in ToldBy(s) \cup ToldBy(t)
    <2>1. PICK n \in DOMAIN (s \o t) :
              \/ IsComponent((s \o t)[n]) /\ (s \o t)[n].data = i
              \/ IsSnapshot((s \o t)[n]) /\ i \in (s \o t)[n].data.known
        BY DEF ToldBy
    <2>2. \/ n \in DOMAIN s /\ (s \o t)[n] = s[n]
          \/ \E m \in DOMAIN t : (s \o t)[n] = t[m]
        BY ConcatIndexes
    <2> QED BY <2>1, <2>2 DEF ToldBy
<1>2. ASSUME NEW i \in ToldBy(s) \cup ToldBy(t) PROVE i \in ToldBy(s \o t)
    <2>1. CASE i \in ToldBy(s)
        BY <2>1, ConcatIndexes DEF ToldBy
    <2>2. CASE i \in ToldBy(t)
        <3>1. PICK n \in DOMAIN t :
                  \/ IsComponent(t[n]) /\ t[n].data = i
                  \/ IsSnapshot(t[n]) /\ i \in t[n].data.known
            BY <2>2 DEF ToldBy
        <3>2. Len(s) + n \in DOMAIN (s \o t) /\ (s \o t)[Len(s) + n] = t[n]
            BY ConcatIndexes
        <3> QED BY <2>2, <3>1, <3>2 DEF ToldBy
    <2> QED BY <1>2, <2>1, <2>2
<1> QED BY <1>1, <1>2

LEMMA ToldByNothing == ToldBy(<<>>) = {}
BY DEF ToldBy

\* The first event tells what the rest does not.
LEMMA ToldByTail ==
    ASSUME NEW s \in Seq(EventType), s # <<>>
    PROVE  /\ ToldBy(Tail(s)) \subseteq ToldBy(s)
           /\ \A i \in ToldBy(s) : \/ i \in ToldBy(Tail(s))
                                   \/ IsComponent(s[1]) /\ s[1].data = i
                                   \/ IsSnapshot(s[1]) /\ i \in s[1].data.known
           /\ \A i \in Component : IsComponent(s[1]) /\ s[1].data = i => i \in ToldBy(s)
           /\ \A i \in Component : IsSnapshot(s[1]) /\ i \in s[1].data.known => i \in ToldBy(s)
<1>1. ToldBy(Tail(s)) \subseteq ToldBy(s)
    BY TailIndexes DEF ToldBy
<1>2. ASSUME NEW i \in ToldBy(s)
      PROVE  \/ i \in ToldBy(Tail(s))
             \/ IsComponent(s[1]) /\ s[1].data = i
             \/ IsSnapshot(s[1]) /\ i \in s[1].data.known
    <2>1. PICK n \in DOMAIN s :
              \/ IsComponent(s[n]) /\ s[n].data = i
              \/ IsSnapshot(s[n]) /\ i \in s[n].data.known
        BY DEF ToldBy
    <2>2. CASE n = 1
        BY <2>1, <2>2
    <2>3. CASE n # 1
        <3>1. n - 1 \in DOMAIN Tail(s) /\ Tail(s)[n - 1] = s[n]
            BY <2>3, TailIndexes
        <3> QED BY <2>1, <3>1 DEF ToldBy
    <2> QED BY <2>2, <2>3
<1>3. 1 \in DOMAIN s
    BY TailIndexes
<1> QED BY <1>1, <1>2, <1>3 DEF ToldBy

-----------------------------------------------------------------------------
(* The types.                                                              *)

\* What a tick sends: the results past the cursor, ascending and none left out, then
\* the end of the session or the progress that moved.
LEMMA TickTells ==
    ASSUME TypeOK, NEW k \in Stream, sub[k].seen \in StatusType,
           NEW results \in Results(sub[k].cursor)
    PROVE  LET t == TickEvents(k, results)
               past == {i \in db.rows : i >= sub[k].cursor}
           IN  /\ t \in Seq(EventType)
               /\ \A n \in DOMAIN t :
                    \/ IsComponent(t[n]) /\ t[n].data \in past
                    \/ n = Len(t) /\ sub[k].seen \in Terminal /\ t[n] = Event(sub[k].seen, sub[k].seen)
                    \/ n = Len(t) /\ sub[k].seen \notin Terminal /\ t[n] = Event("progress", sub[k].seen)
               /\ \A m, n \in DOMAIN t :
                    m < n /\ IsComponent(t[m]) /\ IsComponent(t[n]) => t[m].data < t[n].data
               /\ ToldBy(t) = past
<1> DEFINE t == TickEvents(k, results)
           past == {i \in db.rows : i >= sub[k].cursor}
           c == ComponentEvents(results)
           l == LastEvents(k)
<1>1. past \subseteq Component /\ IsFiniteSet(past) /\ Cardinality(past) \in Nat
    BY ComponentsAreNumbers, FS_Subset, FS_CardinalityType DEF TypeOK
<1>2. /\ results \in [1 .. Cardinality(past) -> past]
      /\ \A m, n \in DOMAIN results : m < n => results[m] < results[n]
      /\ \A i \in past : \E n \in DOMAIN results : results[n] = i
    BY DEF Results
<1>3. /\ c \in Seq(EventType)
      /\ \A n \in DOMAIN c : n \in DOMAIN results /\ IsComponent(c[n]) /\ c[n].data = results[n]
      /\ DOMAIN c = DOMAIN results
    <2>1. c = [n \in 1 .. Cardinality(past) |-> Event("component", results[n])]
        BY <1>2 DEF ComponentEvents
    <2>2. \A n \in 1 .. Cardinality(past) : Event("component", results[n]) \in EventType
        BY <1>1, <1>2 DEF Event, EventType
    <2>3. c \in [1 .. Cardinality(past) -> EventType]
        BY <2>1, <2>2
    <2>4. c \in Seq(EventType)
        <3> HIDE DEF c, past
        <3> QED BY <1>1, <2>3, EnumerationIsSequence
    <2> QED BY <1>2, <2>1, <2>4 DEF Event, IsComponent
<1>4. /\ l \in Seq(EventType)
      /\ Len(l) \in {0, 1}
      /\ \A n \in DOMAIN l :
           /\ n = 1 /\ Len(l) = 1
           /\ \/ sub[k].seen \in Terminal /\ l[n] = Event(sub[k].seen, sub[k].seen)
              \/ sub[k].seen \notin Terminal /\ l[n] = Event("progress", sub[k].seen)
    <2>1. CASE l = <<>>
        BY <2>1
    <2>2. CASE sub[k].seen \in Terminal /\ l = <<Event(sub[k].seen, sub[k].seen)>>
        <3>1. Event(sub[k].seen, sub[k].seen) \in EventType
            BY <2>2 DEF Event, EventType
        <3> HIDE DEF l
        <3> QED BY <2>2, <3>1
    <2>3. CASE sub[k].seen \notin Terminal /\ l = <<Event("progress", sub[k].seen)>>
        <3>1. Event("progress", sub[k].seen) \in EventType
            BY <2>3 DEF Event, EventType, StatusType
        <3> HIDE DEF l
        <3> QED BY <2>3, <3>1
    <2> QED BY <2>1, <2>2, <2>3 DEF LastEvents, executionTerminal, emitExecutionTerminal
<1>5. t = c \o l
    BY DEF TickEvents
<1> HIDE DEF c, l, past, t
<1>6. t \in Seq(EventType) /\ Len(t) = Len(c) + Len(l)
    BY <1>3, <1>4, <1>5, ConcatIndexes
<1>7. ASSUME NEW n \in DOMAIN t
      PROVE  \/ n \in DOMAIN c /\ t[n] = c[n] /\ IsComponent(t[n]) /\ t[n].data = results[n]
             \/ /\ n = Len(t) /\ n \notin DOMAIN c
                /\ \/ sub[k].seen \in Terminal /\ t[n] = Event(sub[k].seen, sub[k].seen)
                   \/ sub[k].seen \notin Terminal /\ t[n] = Event("progress", sub[k].seen)
    <2>1. CASE n \in DOMAIN c
        BY <1>3, <1>4, <1>5, <2>1, ConcatIndexes
    <2>2. CASE n \notin DOMAIN c
        <3>1. n - Len(c) \in DOMAIN l /\ n = Len(c) + (n - Len(c))
            BY <1>3, <1>4, <1>5, <2>2, ConcatIndexes
        <3>2. t[n] = l[n - Len(c)]
            BY <1>3, <1>4, <1>5, <3>1, ConcatIndexes
        <3> QED BY <1>3, <1>4, <1>6, <2>2, <3>1, <3>2
    <2> QED BY <2>1, <2>2
<1>8. \A n \in DOMAIN t : ~IsSnapshot(t[n]) /\ (IsComponent(t[n]) => n \in DOMAIN c /\ t[n].data = results[n])
    BY <1>7 DEF IsComponent, IsSnapshot, Event, Terminal
<1>9. \A n \in DOMAIN c : n \in DOMAIN t
    BY <1>3, <1>4, <1>5, ConcatIndexes
<1>10. ToldBy(t) = past
    <2>1. ToldBy(t) \subseteq past
        BY <1>2, <1>3, <1>8 DEF ToldBy
    <2>2. past \subseteq ToldBy(t)
        <3> SUFFICES ASSUME NEW i \in past PROVE i \in ToldBy(t)
            OBVIOUS
        <3>1. PICK n \in DOMAIN c : results[n] = i
            BY <1>2, <1>3
        <3>2. n \in DOMAIN t /\ IsComponent(t[n]) /\ t[n].data = i
            BY <1>7, <1>9, <3>1
        <3> QED BY <1>1, <3>2 DEF ToldBy
    <2> QED BY <2>1, <2>2
<1>11. \A m, n \in DOMAIN t :
         m < n /\ IsComponent(t[m]) /\ IsComponent(t[n]) => t[m].data < t[n].data
    BY <1>2, <1>3, <1>8
<1>12. \A n \in DOMAIN t :
         \/ IsComponent(t[n]) /\ t[n].data \in past
         \/ n = Len(t) /\ sub[k].seen \in Terminal /\ t[n] = Event(sub[k].seen, sub[k].seen)
         \/ n = Len(t) /\ sub[k].seen \notin Terminal /\ t[n] = Event("progress", sub[k].seen)
    BY <1>2, <1>3, <1>7
<1> QED BY <1>6, <1>10, <1>11, <1>12 DEF t, past

\* A subscription that reads on has read a status.
StatusRead ==
    \A k \in Stream : sub[k].at \in {"view", "list", "tick", "results"} => sub[k].seen \in StatusType

Shape == TypeOK /\ StatusRead

LEMMA Shapes ==
    ASSUME Shape
    PROVE  /\ db \in [status : StatusType, rows : SUBSET Component, cancel : BOOLEAN, stopping : BOOLEAN]
           /\ sub \in [Stream -> SubType] /\ client \in StoreType
           /\ wire \in [Stream -> Seq(EventType)]
BY DEF Shape, TypeOK, SubType, StoreType, ViewType, StatusType

LEMMA SubscriptionType ==
    ASSUME Shape, NEW k \in Stream, NEW s \in SubType, sub' = [sub EXCEPT ![k] = s],
           s.at \in {"view", "list", "tick", "results"} => s.seen \in StatusType
    PROVE  sub' \in [Stream -> SubType] /\ StatusRead'
<1>1. sub \in [Stream -> SubType] /\ StatusRead
    BY Shapes DEF Shape
<1>2. sub' \in [Stream -> SubType]
    BY <1>1
<1>3. ASSUME NEW j \in Stream, sub'[j].at \in {"view", "list", "tick", "results"}
      PROVE  sub'[j].seen \in StatusType
    BY <1>1, <1>3 DEF StatusRead
<1> QED BY <1>2, <1>3 DEF StatusRead

\* An event that is read leaves a view of the session.
LEMMA MergedType ==
    ASSUME NEW view \in ViewType, NEW e \in EventType
    PROVE  /\ Merged(view, e) \in ViewType
           /\ applyEvent(e).status \in {client.status, "error"} \cup Terminal
<1>1. CASE IsSnapshot(e)
    <2>1. e.data \in [status : StatusType, known : SUBSET Component]
        BY <1>1 DEF EventType, IsSnapshot, StatusType, Terminal
    <2>2. Merged(view, e) = e.data
        BY <1>1 DEF Merged, IsSnapshot
    <2> QED BY <1>1, <2>1, <2>2 DEF ViewType, applyEvent, Store, IsSnapshot, Terminal
<1>2. CASE ~IsSnapshot(e) /\ (view = NoView \/ e.kind = "error")
    BY <1>2 DEF Merged, IsSnapshot, applyEvent, Store
<1>3. CASE view # NoView /\ e.kind = "component"
    <2>1. e.data \in Component
        BY <1>3 DEF EventType, Terminal
    <2> QED BY <1>3, <2>1 DEF Merged, applyEvent, Store, ViewType
<1>4. CASE view # NoView /\ e.kind \in {"progress"} \cup Terminal
    <2>1. e.data \in StatusType
        BY <1>4 DEF EventType, StatusType, Terminal
    <2>2. Merged(view, e) = [view EXCEPT !.status = e.data]
        BY <1>4 DEF Merged, Terminal
    <2> QED BY <1>4, <2>1, <2>2 DEF applyEvent, Store, ViewType
<1>5. IsSnapshot(e) \/ e.kind \in {"component", "error", "progress"} \cup Terminal
    BY DEF EventType, IsSnapshot
<1> QED BY <1>1, <1>2, <1>3, <1>4, <1>5

LEMMA ShapeInit == Init => Shape
<1> SUFFICES ASSUME Init PROVE Shape
    OBVIOUS
<1>1. wire \in [Stream -> Seq(EventType)]
    BY DEF Init
<1>2. sub \in [Stream -> SubType]
    BY StreamAssumption DEF Init, SubType
<1>3. client \in StoreType
    BY DEF Init, Store, NoView, View, StoreType, ViewType
<1> QED BY <1>1, <1>2, <1>3, StreamAssumption
        DEF Init, Shape, TypeOK, StatusRead, SubType, StoreType, ViewType, StatusType, Active

LEMMA ShapeStep == Shape /\ [Next]_vars => Shape'
<1> SUFFICES ASSUME Shape, [Next]_vars PROVE Shape'
    OBVIOUS
<1> DEFINE DbType == [status : StatusType, rows : SUBSET Component, cancel : BOOLEAN, stopping : BOOLEAN]
<1>0. /\ TypeOK /\ StatusRead
      /\ db \in DbType /\ sub \in [Stream -> SubType] /\ client \in StoreType
      /\ wire \in [Stream -> Seq(EventType)]
    BY Shapes DEF Shape
\* It is enough that what a step changes keeps its type.
<1>1. ASSUME db' \in DbType, sub' \in [Stream -> SubType], wire' \in [Stream -> Seq(EventType)],
             unseen' \in [Stream -> SUBSET Component], reader' \in [Stream -> {"none", "open", "done"}],
             client' \in StoreType, faults' \in 0 .. MaxFaults, StatusRead'
      PROVE  Shape'
    BY <1>1 DEF Shape, TypeOK, SubType, StoreType, ViewType, StatusType
<1> HIDE DEF DbType
<1>2. ASSUME Worker \/ CancelExecution PROVE Shape'
    <2>1. db' \in DbType
        <3>1. CASE Claim \/ FinishExecution \/ CancelExecution
            BY <1>0, <3>1 DEF Claim, FinishExecution, CancelExecution, Write, DbType, StatusType, Active, Terminal
        <3>2. CASE Commit
            <4>1. Cardinality(db.rows) \in Component
                <5>1. IsFiniteSet(Component) /\ db.rows \subseteq Component
                    BY <1>0, ComponentsAreNumbers DEF DbType
                <5>2. Cardinality(Component) = NumComponents
                    <6>1. NumComponents = 0 => Component = {}
                        BY DEF Component
                    <6>2. NumComponents > 0 => Cardinality(0 .. NumComponents - 1) = (NumComponents - 1) - 0 + 1
                        BY FS_Interval, StreamAssumption
                    <6> QED BY <6>1, <6>2, FS_EmptySet, StreamAssumption DEF Component
                <5>3. Cardinality(db.rows) \in Nat /\ Cardinality(db.rows) < NumComponents
                    <6>1. db.rows # Component
                        BY <3>2 DEF Commit
                    <6>2. IsFiniteSet(db.rows)
                        BY <5>1, FS_Subset
                    <6>3. Cardinality(db.rows) <= Cardinality(Component) /\ Cardinality(db.rows) # Cardinality(Component)
                        BY <5>1, <6>1, FS_Subset
                    <6>4. Cardinality(db.rows) \in Nat
                        BY <6>2, FS_CardinalityType
                    <6> QED BY <5>2, <6>3, <6>4, StreamAssumption
                <5> QED BY <5>3, StreamAssumption DEF Component
            <4> QED BY <1>0, <3>2, <4>1 DEF Commit, Write, DbType
        <3>3. CASE ReportStop
            BY <1>0, <3>3 DEF ReportStop, Write, DbType
        <3> QED BY <1>2, <3>1, <3>2, <3>3 DEF Worker
    <2>2. UNCHANGED <<sub, wire, reader, client, faults, unseen>>
        BY <1>2 DEF Worker, Claim, Commit, ReportStop, FinishExecution, CancelExecution, Write
    <2> QED BY <1>0, <1>1, <2>1, <2>2 DEF TypeOK, StatusRead
<1>3. ASSUME Crash PROVE Shape'
    <2>1. db' \in DbType
        BY <1>0, <1>3 DEF Crash, DbType, StatusType, Active, Terminal
    <2>2. sub' \in [Stream -> SubType] /\ StatusRead'
        BY <1>0, <1>3 DEF Crash, SubType, StatusRead
    <2>3. faults' \in 0 .. MaxFaults
        BY <1>0, <1>3, StreamAssumption DEF Crash, Fault, TypeOK
    <2> QED BY <1>0, <1>1, <1>3, <2>1, <2>2, <2>3 DEF Crash, TypeOK
<1>4. ASSUME NEW k \in Stream, LoadExecution(k) \/ GetExecutionProgress(k) PROVE Shape'
    <2>1. sub' \in [Stream -> SubType] /\ StatusRead'
        <3>1. db.status \in StatusType
            BY <1>0 DEF DbType
        <3>2. PICK at \in {"view", "results"} : sub' = [sub EXCEPT ![k].at = at, ![k].seen = db.status]
            BY <1>4 DEF LoadExecution, GetExecutionProgress
        <3>3. PICK s : s = [sub[k] EXCEPT !.at = at, !.seen = db.status]
            OBVIOUS
        <3>4. s \in SubType /\ s.seen \in StatusType
            BY <1>0, <3>1, <3>3 DEF SubType
        <3>5. sub' = [sub EXCEPT ![k] = s]
            BY <3>2, <3>3
        <3> QED BY <3>4, <3>5, SubscriptionType
    <2> QED BY <1>0, <1>1, <1>4, <2>1 DEF LoadExecution, GetExecutionProgress, OnlyStream, TypeOK
<1>5. ASSUME NEW k \in Stream, EmitSnapshot(k) PROVE Shape'
    <2>1. Event("execution_snapshot", View(sub[k].seen, db.rows)) \in EventType
        BY <1>0, <1>5 DEF EmitSnapshot, StatusRead, Event, View, EventType, DbType, StatusType
    <2>2. sub[k].seen \in Terminal => Event(sub[k].seen, sub[k].seen) \in EventType
        BY DEF Event, EventType
    <2>3. wire' \in [Stream -> Seq(EventType)]
        <3>1. CASE sub[k].seen \in Terminal
            <4>1. Emit(k, <<Event("execution_snapshot", View(sub[k].seen, db.rows))>> \o <<Event(sub[k].seen, sub[k].seen)>>)
                BY <1>5, <3>1 DEF EmitSnapshot, executionTerminal, emitExecutionTerminal
            <4> QED BY <1>0, <2>1, <2>2, <3>1, <4>1 DEF Emit
        <3>2. CASE sub[k].seen \notin Terminal
            <4>1. Emit(k, <<Event("execution_snapshot", View(sub[k].seen, db.rows))>>)
                BY <1>5, <3>2 DEF EmitSnapshot, executionTerminal
            <4> QED BY <1>0, <2>1, <4>1 DEF Emit
        <3> QED BY <3>1, <3>2
    <2>4. sub' \in [Stream -> SubType] /\ StatusRead'
        <3>1. \E at \in {"closed", "list"} : sub' = [sub EXCEPT ![k].at = at]
            BY <1>5 DEF EmitSnapshot, Reach
        <3>2. sub[k].seen \in StatusType
            BY <1>0, <1>5 DEF EmitSnapshot, StatusRead
        <3> QED BY <1>0, <3>1, <3>2 DEF SubType, StatusRead
    <2>5. unseen' \in [Stream -> SUBSET Component]
        BY <1>0, <1>5 DEF EmitSnapshot, TypeOK, DbType
    <2> QED BY <1>0, <1>1, <1>5, <2>3, <2>4, <2>5 DEF EmitSnapshot, OnlyStream, TypeOK
<1>6. ASSUME NEW k \in Stream, TakeCursor(k) PROVE Shape'
    <2>1. PastLast(sub[k].cursor, db.rows) \in 0 .. NumComponents
        BY <1>0, CursorIsPast DEF SubType, DbType
    <2>2. sub' \in [Stream -> SubType] /\ StatusRead'
        BY <1>0, <1>6, <2>1 DEF TakeCursor, SubType, StatusRead
    <2>3. unseen' \in [Stream -> SUBSET Component]
        BY <1>0, <1>6 DEF TakeCursor, TypeOK, DbType
    <2> QED BY <1>0, <1>1, <1>6, <2>2, <2>3 DEF TakeCursor, OnlyStream, TypeOK
<1>7. ASSUME NEW k \in Stream, EmitResults(k) PROVE Shape'
    <2>1. PastLast(sub[k].cursor, db.rows) \in 0 .. NumComponents
        BY <1>0, CursorIsPast DEF SubType, DbType
    <2>2. sub' \in [Stream -> SubType] /\ StatusRead'
        <3>1. \E at \in {"closed", "tick"} :
                 sub' = [sub EXCEPT ![k].at = at, ![k].cursor = PastLast(@, db.rows), ![k].last = sub[k].seen]
            BY <1>7 DEF EmitResults
        <3>2. sub[k].seen \in StatusType
            BY <1>0, <1>7 DEF EmitResults, StatusRead
        <3>3. PICK at \in {"closed", "tick"} :
                  sub' = [sub EXCEPT ![k].at = at, ![k].cursor = PastLast(@, db.rows), ![k].last = sub[k].seen]
            BY <3>1
        <3>4. PICK s : s = [sub[k] EXCEPT !.at = at, !.cursor = PastLast(@, db.rows), !.last = sub[k].seen]
            OBVIOUS
        <3>5. s \in SubType /\ s.seen \in StatusType
            BY <1>0, <2>1, <3>2, <3>4 DEF SubType
        <3>6. sub' = [sub EXCEPT ![k] = s]
            BY <3>3, <3>4
        <3> QED BY <3>5, <3>6, SubscriptionType
    <2>3. PICK results \in Results(sub[k].cursor) : Emit(k, TickEvents(k, results))
        BY <1>7 DEF EmitResults
    <2>4. TickEvents(k, results) \in Seq(EventType)
        BY <1>0, <1>7, TickTells DEF EmitResults, StatusRead
    <2>5. wire' \in [Stream -> Seq(EventType)]
        BY <1>0, <2>3, <2>4 DEF Emit
    <2> QED BY <1>0, <1>1, <1>7, <2>2, <2>5 DEF EmitResults, OnlyStream, TypeOK
<1>8. ASSUME NEW k \in Stream, Disconnect(k) \/ SubscribeFails(k) PROVE Shape'
    <2>1. Event("error", "error") \in EventType
        BY DEF Event, EventType
    <2>2. wire' \in [Stream -> Seq(EventType)]
        <3>1. CASE Disconnect(k)
            <4>1. <<>> \in Seq(EventType)
                OBVIOUS
            <4>2. UNCHANGED wire \/ wire' = [wire EXCEPT ![k] = <<>>]
                BY <3>1 DEF Disconnect
            <4> QED BY <1>0, <4>1, <4>2
        <3>2. CASE SubscribeFails(k)
            BY <1>0, <2>1, <3>2 DEF SubscribeFails, Emit
        <3> QED BY <1>8, <3>1, <3>2
    <2>3. sub' \in [Stream -> SubType] /\ StatusRead'
        BY <1>0, <1>8 DEF Disconnect, SubscribeFails, Reach, SubType, StatusRead
    <2>4. faults' \in 0 .. MaxFaults
        BY <1>0, <1>8, StreamAssumption DEF Disconnect, SubscribeFails, Fault, TypeOK
    <2> QED BY <1>0, <1>1, <1>8, <2>2, <2>3, <2>4 DEF Disconnect, SubscribeFails, OnlyStream, TypeOK
<1>9. ASSUME NEW k \in Stream, Attach(k) PROVE Shape'
    <2>1. sub' \in [Stream -> SubType] /\ StatusRead'
        BY <1>0, <1>9 DEF Attach, Reach, SubType, StatusRead
    <2>2. client' \in StoreType
        BY <1>9 DEF Attach, Store, NoView, View, StoreType, ViewType
    <2> QED BY <1>0, <1>1, <1>9, <2>1, <2>2 DEF Attach, TypeOK
<1>10. ASSUME NEW k \in Stream, ReadEvent(k) PROVE Shape'
    <2>1. Head(wire[k]) \in EventType /\ wire' \in [Stream -> Seq(EventType)]
        BY <1>0, <1>10 DEF ReadEvent
    <2>2. Merged(client.view, Head(wire[k])) \in ViewType
        BY <1>0, <2>1, MergedType DEF StoreType
    <2>3. client' \in StoreType
        BY <1>0, <1>10, <2>2 DEF ReadEvent, applyEvent, Store, StoreType
    <2> QED BY <1>0, <1>1, <1>10, <2>1, <2>3 DEF ReadEvent, TypeOK, StatusRead
<1>11. ASSUME NEW k \in Stream, StreamEnds(k) PROVE Shape'
    <2>1. client' \in StoreType
        BY <1>0, <1>11 DEF StreamEnds, Store, StoreType
    <2> QED BY <1>0, <1>1, <1>11, <2>1 DEF StreamEnds, TypeOK, StatusRead
<1>12. CASE UNCHANGED vars
    BY <1>0, <1>1, <1>12 DEF vars, TypeOK, StatusRead
<1> QED BY <1>2, <1>3, <1>4, <1>5, <1>6, <1>7, <1>8, <1>9, <1>10, <1>11, <1>12
        DEF Next, Subscription, Reader

LEMMA SpecShape == Spec => []Shape
BY ShapeInit, ShapeStep, PTL DEF Spec

\* The values every variable keeps to: a cursor stays within the worklist, and what is
\* on the wire are events a client can read.
THEOREM StreamTypeCorrect == Spec => []TypeOK
<1>1. Shape => TypeOK
    BY DEF Shape
<1> QED BY <1>1, SpecShape, PTL

-----------------------------------------------------------------------------
(* The inductive invariant.                                                *)

\* What the client was told of the results, or will be once it has read on.
Told(k) == client.view.known \cup ToldBy(wire[k])

\* Commits are ascending, so a row that is new is past every cursor; only a stop reports
\* a component ahead of its turn, and its row is the last one.
RowsInOrder ==
    ~db.stopping => \E c \in 0 .. NumComponents :
        /\ db.rows = {i \in Component : i < c}
        /\ \A k \in Stream : sub[k].cursor <= c

\* One loop at a time reads, and a subscription that runs has its reader.
OneReader ==
    \A k \in Stream :
        /\ reader[k] # "none" => \A j \in 1 .. k - 1 : reader[j] = "done"
        /\ reader[k] = "open" => client.status = "streaming"
        /\ reader[k] = "none" <=> sub[k].at = "none"
        /\ reader[k] = "done" => sub[k].at = "closed"
        /\ sub[k].at \in {"none", "load", "view"} => wire[k] = <<>>

\* A session that was read to be over still is.
EndStands ==
    \A k \in Stream :
        sub[k].at \in {"view", "results"} /\ sub[k].seen \in Terminal => db.status = sub[k].seen

InOrder(k) ==
    \A n \in Listed(k) :
        /\ \A m \in Listed(k) : m < n => wire[k][m].data < wire[k][n].data
        /\ wire[k][n].data < sub[k].cursor
ListedInOrder == \A k \in Stream : InOrder(k)

\* Of a stream that is read, the snapshot comes first, so that there is a view to merge
\* the rest into ...
SnapshotFirst(k) ==
    /\ \A n \in DOMAIN wire[k] : IsSnapshot(wire[k][n]) => n = 1 /\ client.view = NoView
    /\ wire[k] # <<>> /\ client.view = NoView => IsSnapshot(wire[k][1]) \/ wire[k][1].kind = "error"
    /\ sub[k].at \in {"load", "view"} => client.view = NoView
    /\ sub[k].at \in {"list", "tick", "results"} /\ client.view = NoView => wire[k] # <<>>

\* ... the end comes last ...
EndLast(k) ==
    \A n \in DOMAIN wire[k] : IsEnd(wire[k][n]) => n = Len(wire[k]) /\ sub[k].at = "closed"

\* ... when the rest is told ...
EndTellsAll(k) ==
    \A n \in DOMAIN wire[k] : wire[k][n].kind \in Terminal =>
        /\ wire[k][n].data = db.status
        /\ wire[k][n].kind = db.status
        /\ db.rows \subseteq Told(k) \cup unseen[k]

\* ... and no result twice.
TellsOnce(k) ==
    \A n \in Listed(k) :
        /\ wire[k][n].data \notin client.view.known
        /\ \A m \in DOMAIN wire[k] : IsSnapshot(wire[k][m]) => wire[k][n].data \notin wire[k][m].data.known

\* The cursor is past what was told, and nothing before it was left out but what was
\* recorded between the two listings.
CursorTellsAll(k) ==
    /\ Told(k) \subseteq db.rows
    /\ sub[k].at = "list" => unseen[k] \subseteq Told(k)
    /\ sub[k].at \in {"tick", "results"} =>
         /\ \A i \in Told(k) : i < sub[k].cursor
         /\ \A i \in db.rows : i < sub[k].cursor => i \in Told(k) \cup unseen[k]

Followed(k) == SnapshotFirst(k) /\ EndLast(k) /\ EndTellsAll(k) /\ TellsOnce(k) /\ CursorTellsAll(k)
Loops == \A k \in Stream : reader[k] = "open" => Followed(k)

Streams == RowsInOrder /\ OneReader /\ EndStands /\ ListedInOrder /\ Loops /\ TerminalTellsAll

LEMMA StreamsInit == Init => Streams
<1> SUFFICES ASSUME Init PROVE Streams
    OBVIOUS
<1>1. RowsInOrder
    <2>1. {i \in Component : i < 0} = {}
        BY StreamAssumption DEF Component
    <2>2. db.rows = {} /\ \A k \in Stream : sub[k].cursor <= 0
        BY DEF Init
    <2> QED BY <2>1, <2>2, StreamAssumption DEF RowsInOrder
<1>2. OneReader /\ EndStands
    BY DEF Init, OneReader, EndStands
<1>3. ListedInOrder /\ Loops
    BY DEF Init, ListedInOrder, InOrder, Listed, Loops
<1>4. TerminalTellsAll
    BY DEF Init, Store, TerminalTellsAll, Terminal
<1> QED BY <1>1, <1>2, <1>3, <1>4 DEF Streams

\* While one stream is read no other is; a subscription that runs is read.
LEMMA OnlyReader ==
    ASSUME OneReader, NEW k \in Stream, reader[k] = "open", NEW j \in Stream, j # k
    PROVE  reader[j] # "open"
<1>1. j < k \/ k < j
    BY StreamAssumption DEF Stream
<1>2. j < k => j \in 1 .. k - 1
    BY StreamAssumption DEF Stream
<1>3. k < j => k \in 1 .. j - 1
    BY StreamAssumption DEF Stream
<1> QED BY <1>1, <1>2, <1>3 DEF OneReader

LEMMA RunsRead ==
    ASSUME Shape, OneReader, NEW k \in Stream, sub[k].at \notin {"none", "closed"}
    PROVE  reader[k] = "open"
BY DEF OneReader, Shape, TypeOK

-----------------------------------------------------------------------------
(* The worker.                                                             *)

\* Whatever the database comes to say, new rows are past every cursor and a session
\* that ended says the same.
DbGrows ==
    /\ db.rows \subseteq db'.rows
    /\ \A i \in db'.rows \ db.rows : \A k \in Stream : sub[k].cursor <= i
    /\ db.status \in Terminal => db'.status = db.status /\ db'.rows = db.rows

LEMMA WorkerGrows ==
    ASSUME Shape, RowsInOrder, Worker \/ CancelExecution
    PROVE  DbGrows /\ RowsInOrder'
<1>0. /\ db \in [status : StatusType, rows : SUBSET Component, cancel : BOOLEAN, stopping : BOOLEAN]
      /\ sub \in [Stream -> SubType]
    BY Shapes
<1>1. UNCHANGED sub
    BY DEF Worker, Claim, Commit, ReportStop, FinishExecution, CancelExecution, Write
<1>2. CASE Claim \/ FinishExecution \/ CancelExecution
    <2>1. db'.rows = db.rows /\ db'.stopping = db.stopping
        BY <1>0, <1>2 DEF Claim, FinishExecution, CancelExecution, Write
    <2>2. db.status \notin Terminal
        BY <1>2 DEF Claim, FinishExecution, CancelExecution, Active, Terminal
    <2>3. RowsInOrder'
        BY <1>1, <2>1 DEF RowsInOrder
    <2> QED BY <2>1, <2>2, <2>3 DEF DbGrows
<1>3. CASE Commit
    <2>1. PICK c \in 0 .. NumComponents : /\ db.rows = {i \in Component : i < c}
                                          /\ \A k \in Stream : sub[k].cursor <= c
        BY <1>3 DEF Commit, RowsInOrder
    <2>2. c # NumComponents
        BY <1>3, <2>1, StreamAssumption DEF Commit, Component
    <2>3. Cardinality(db.rows) = c
        <3>1. c = 0 => db.rows = {}
            BY <2>1, StreamAssumption DEF Component
        <3>2. c > 0 => db.rows = 0 .. c - 1
            BY <2>1, <2>2, StreamAssumption DEF Component
        <3>3. c > 0 => Cardinality(0 .. c - 1) = (c - 1) - 0 + 1
            BY FS_Interval, StreamAssumption
        <3> QED BY <3>1, <3>2, <3>3, FS_EmptySet, StreamAssumption
    <2>4. db'.rows = db.rows \cup {c} /\ db.status \notin Terminal /\ db'.stopping = db.stopping
        BY <1>0, <1>3, <2>3 DEF Commit, Write, Terminal
    <2>5. db'.rows = {i \in Component : i < c + 1} /\ c + 1 \in 0 .. NumComponents
        BY <2>1, <2>2, <2>4, StreamAssumption DEF Component
    <2>6. \A k \in Stream : sub[k].cursor <= c + 1
        BY <1>0, <2>1 DEF SubType
    <2>7. RowsInOrder'
        BY <1>1, <2>5, <2>6 DEF RowsInOrder
    <2> QED BY <2>1, <2>4, <2>7 DEF DbGrows
<1>4. CASE ReportStop
    <2>1. ~db.stopping /\ db.status \notin Terminal /\ db'.stopping
        BY <1>0, <1>4 DEF ReportStop, Write, Terminal
    <2>2. PICK c \in 0 .. NumComponents : /\ db.rows = {i \in Component : i < c}
                                          /\ \A k \in Stream : sub[k].cursor <= c
        BY <2>1 DEF RowsInOrder
    <2>3. db'.rows = db.rows \/ \E failing \in Component \ db.rows : db'.rows = db.rows \cup {failing}
        BY <1>0, <1>4 DEF ReportStop, Write
    <2>4. \A i \in db'.rows \ db.rows : c <= i
        BY <2>2, <2>3, ComponentsAreNumbers
    <2>5. \A i \in db'.rows \ db.rows : \A k \in Stream : sub[k].cursor <= i
        BY <1>0, <2>2, <2>3, <2>4, ComponentsAreNumbers DEF SubType
    <2> QED BY <2>1, <2>3, <2>5 DEF DbGrows, RowsInOrder
<1> QED BY <1>2, <1>3, <1>4 DEF Worker

\* The worker tells no client anything, and what was told stays true.
LEMMA WorkerKeepsStreams ==
    ASSUME Shape, Streams, Worker \/ CancelExecution
    PROVE  Streams'
<1>0. sub \in [Stream -> SubType] /\ client \in StoreType /\ wire \in [Stream -> Seq(EventType)]
    BY Shapes
<1>1. DbGrows /\ RowsInOrder' /\ UNCHANGED <<sub, wire, reader, client, unseen>>
    BY WorkerGrows DEF Streams, Worker, Claim, Commit, ReportStop, FinishExecution, CancelExecution, Write
<1>2. OneReader' /\ ListedInOrder'
    BY <1>1 DEF Streams, OneReader, ListedInOrder, InOrder, Listed
<1>3. EndStands'
    BY <1>1 DEF Streams, EndStands, DbGrows
<1>4. ASSUME NEW k \in Stream, reader'[k] = "open" PROVE Followed(k)'
    <2>1. Followed(k) /\ Told(k)' = Told(k)
        BY <1>1, <1>4 DEF Streams, Loops, Told
    <2>2. SnapshotFirst(k)' /\ EndLast(k)' /\ TellsOnce(k)'
        BY <1>1, <2>1 DEF Followed, SnapshotFirst, EndLast, TellsOnce, Listed
    <2>3. EndTellsAll(k)'
        BY <1>1, <2>1 DEF Followed, EndTellsAll, DbGrows
    <2>4. CursorTellsAll(k)'
        <3>1. \A i \in db'.rows : i < sub[k].cursor => i \in db.rows
            <4> SUFFICES ASSUME NEW i \in db'.rows, i < sub[k].cursor, i \notin db.rows PROVE FALSE
                OBVIOUS
            <4>1. sub[k].cursor <= i /\ sub[k].cursor \in Nat
                BY <1>0, <1>1, StreamAssumption DEF DbGrows, SubType
            <4>2. i \in Nat
                <5>1. i \in Component
                    <6>1. [Next]_vars
                        BY DEF Next
                    <6>2. Shape'
                        BY <6>1, ShapeStep
                    <6> QED BY <6>2 DEF Shape, TypeOK
                <5> QED BY <5>1, ComponentsAreNumbers
            <4> QED BY <4>1, <4>2
        <3> QED BY <1>1, <2>1, <3>1 DEF Followed, CursorTellsAll, DbGrows
    <2> QED BY <2>2, <2>3, <2>4 DEF Followed
<1>5. TerminalTellsAll'
    BY <1>1 DEF Streams, TerminalTellsAll, DbGrows
<1> QED BY <1>1, <1>2, <1>3, <1>4, <1>5 DEF Streams, Loops

\* A death closes every subscription, and interrupts no session that was over.
LEMMA CrashKeepsStreams ==
    ASSUME Shape, Streams, Crash
    PROVE  Streams'
<1>0. /\ sub \in [Stream -> SubType] /\ wire \in [Stream -> Seq(EventType)]
      /\ db \in [status : StatusType, rows : SUBSET Component, cancel : BOOLEAN, stopping : BOOLEAN]
    BY Shapes
<1>1. /\ db'.rows = db.rows /\ db'.stopping = db.stopping
      /\ db.status \in Terminal => db' = db
      /\ UNCHANGED <<wire, reader, client, unseen>>
    BY <1>0 DEF Crash, Active, Terminal
<1>2. \A k \in Stream : /\ sub'[k].cursor = sub[k].cursor
                        /\ sub'[k].at = IF sub[k].at = "none" THEN "none" ELSE "closed"
    BY <1>0 DEF Crash, SubType
<1>3. RowsInOrder' /\ EndStands'
    BY <1>1, <1>2 DEF Streams, RowsInOrder, EndStands
<1>4. OneReader' /\ ListedInOrder'
    BY <1>1, <1>2 DEF Streams, OneReader, ListedInOrder, InOrder, Listed
<1>5. ASSUME NEW k \in Stream, reader'[k] = "open" PROVE Followed(k)'
    <2>1. Followed(k) /\ Told(k)' = Told(k)
        BY <1>1, <1>5 DEF Streams, Loops, Told
    <2>2. sub'[k].at = "closed"
        BY <1>1, <1>2, <1>5 DEF Streams, OneReader
    <2>3. SnapshotFirst(k)' /\ EndLast(k)' /\ TellsOnce(k)'
        BY <1>1, <2>1, <2>2 DEF Followed, SnapshotFirst, EndLast, TellsOnce, Listed
    <2>4. EndTellsAll(k)' /\ CursorTellsAll(k)'
        BY <1>1, <2>1, <2>2 DEF Followed, EndTellsAll, CursorTellsAll
    <2> QED BY <2>3, <2>4 DEF Followed
<1>6. TerminalTellsAll'
    BY <1>1 DEF Streams, TerminalTellsAll
<1> QED BY <1>3, <1>4, <1>5, <1>6 DEF Streams, Loops

-----------------------------------------------------------------------------
(* The stream that is read.                                                *)

\* What a step of the stream that is read has to show of that stream ...
Others(k) ==
    /\ UNCHANGED db
    /\ \A j \in Stream \ {k} : /\ wire'[j] = wire[j] /\ sub'[j] = sub[j]
                               /\ unseen'[j] = unseen[j] /\ reader'[j] = reader[j]

Advances(k) ==
    /\ sub'[k].cursor = sub[k].cursor \/ sub'[k].cursor = PastLast(sub[k].cursor, db.rows)
    /\ sub'[k].at # "none"
    /\ sub'[k].at \in {"load", "view"} => wire'[k] = <<>>
    /\ sub'[k].at \in {"view", "results"} /\ sub'[k].seen \in Terminal => db.status = sub'[k].seen
    /\ InOrder(k)'

GoesOn(k) == reader'[k] = "open" /\ client'.status = "streaming" /\ Followed(k)'

IsOver(k) ==
    /\ reader'[k] = "done" /\ sub'[k].at = "closed"
    /\ client'.status \in Terminal =>
         /\ client'.status = db.status /\ client'.view.status = db.status
         /\ db.rows \subseteq client'.view.known \cup unseen'[k]

\* ... as the others are over, or not attached yet.
LEMMA StreamStep ==
    ASSUME Shape, Streams, NEW k \in Stream, reader[k] = "open",
           Others(k), Advances(k), GoesOn(k) \/ IsOver(k)
    PROVE  Streams'
<1> USE DEF Others, Advances, GoesOn, IsOver
<1>0. /\ db \in [status : StatusType, rows : SUBSET Component, cancel : BOOLEAN, stopping : BOOLEAN]
      /\ sub \in [Stream -> SubType]
    BY Shapes
<1>1. RowsInOrder'
    <2> SUFFICES ASSUME ~db.stopping
                 PROVE  \E c \in 0 .. NumComponents :
                          /\ db.rows = {i \in Component : i < c}
                          /\ \A j \in Stream : sub'[j].cursor <= c
        BY DEF RowsInOrder
    <2>1. PICK c \in 0 .. NumComponents : /\ db.rows = {i \in Component : i < c}
                                          /\ \A j \in Stream : sub[j].cursor <= c
        BY DEF Streams, RowsInOrder
    <2>2. PastLast(sub[k].cursor, db.rows) <= c
        <3>1. /\ PastLast(sub[k].cursor, db.rows) \in 0 .. NumComponents
              /\ \/ PastLast(sub[k].cursor, db.rows) = sub[k].cursor
                 \/ PastLast(sub[k].cursor, db.rows) - 1 \in db.rows
            BY <1>0, CursorIsPast DEF SubType
        <3> HIDE DEF PastLast
        <3> QED BY <2>1, <3>1, StreamAssumption
    <2> QED BY <2>1, <2>2
<1>2. OneReader'
    <2> SUFFICES ASSUME NEW i \in Stream
                 PROVE  /\ reader'[i] # "none" => \A j \in 1 .. i - 1 : reader'[j] = "done"
                        /\ reader'[i] = "open" => client'.status = "streaming"
                        /\ reader'[i] = "none" <=> sub'[i].at = "none"
                        /\ reader'[i] = "done" => sub'[i].at = "closed"
                        /\ sub'[i].at \in {"none", "load", "view"} => wire'[i] = <<>>
        BY DEF OneReader
    <2>1. OneReader
        BY DEF Streams
    <2>2. CASE i = k
        <3>1. \A j \in 1 .. k - 1 : j \in Stream \ {k} /\ reader[j] = "done"
            BY <2>1, StreamAssumption DEF OneReader, Stream
        <3> QED BY <2>2, <3>1
    <2>3. CASE i # k
        <3>1. reader[i] # "open" /\ reader'[i] = reader[i]
            BY <2>1, <2>3, OnlyReader
        <3>2. ASSUME reader[i] # "none", NEW j \in 1 .. i - 1 PROVE reader'[j] = "done"
            <4>1. reader[j] = "done" /\ j \in Stream
                BY <2>1, <3>2, StreamAssumption DEF OneReader, Stream
            <4> QED BY <4>1
        <3> QED BY <2>1, <2>3, <3>1, <3>2 DEF OneReader
    <2> QED BY <2>2, <2>3
<1>3. EndStands'
    BY DEF Streams, EndStands
<1>4. ListedInOrder'
    <2> SUFFICES ASSUME NEW j \in Stream, j # k PROVE InOrder(j)'
        BY DEF ListedInOrder
    <2>1. InOrder(j)
        BY DEF Streams, ListedInOrder
    <2> QED BY <2>1 DEF InOrder, Listed
<1>5. Loops'
    BY OnlyReader DEF Streams, Loops
<1>6. TerminalTellsAll'
    <2> SUFFICES ASSUME NEW i \in Stream, client'.status \in Terminal, reader'[i] = "done",
                        \A j \in i + 1 .. MaxStreams : reader'[j] = "none"
                 PROVE  /\ client'.status = db.status /\ client'.view.status = db.status
                        /\ db.rows \subseteq client'.view.known \cup unseen'[i]
        BY DEF TerminalTellsAll
    <2>1. i = k
        <3> SUFFICES ASSUME i # k PROVE FALSE
            OBVIOUS
        <3>1. CASE i < k
            BY <3>1, StreamAssumption DEF Stream
        <3>2. CASE k < i
            <4>1. k \in 1 .. i - 1 /\ reader[i] = "done"
                BY <3>2, StreamAssumption DEF Stream
            <4> QED BY <4>1 DEF Streams, OneReader
        <3> QED BY <3>1, <3>2, StreamAssumption DEF Stream
    <2> QED BY <2>1
<1> QED BY <1>1, <1>2, <1>3, <1>4, <1>5, <1>6 DEF Streams

LEMMA ListedType ==
    ASSUME wire \in [Stream -> Seq(EventType)], NEW k \in Stream, NEW n \in Listed(k)
    PROVE  wire[k][n].data \in Component /\ wire[k][n].data \in Nat
<1>1. wire[k][n] \in EventType /\ wire[k][n].kind = "component"
    BY DEF Listed
<1>2. wire[k][n].data \in Component
    BY <1>1 DEF EventType, Terminal
<1> QED BY <1>2, ComponentsAreNumbers

LEMMA LoadKeepsStreams ==
    ASSUME Shape, Streams, NEW k \in Stream, LoadExecution(k)
    PROVE  Streams'
<1>0. sub \in [Stream -> SubType] /\ wire \in [Stream -> Seq(EventType)]
    BY Shapes
<1>1. reader[k] = "open" /\ Followed(k) /\ wire[k] = <<>> /\ client.status = "streaming"
    BY RunsRead DEF LoadExecution, Streams, Loops, OneReader
<1>2. /\ \A j \in Stream \ {k} : sub'[j] = sub[j]
      /\ sub'[k].at = "view" /\ sub'[k].seen = db.status /\ sub'[k].cursor = sub[k].cursor
      /\ UNCHANGED <<db, wire, reader, client, unseen>>
    BY <1>0 DEF LoadExecution, OnlyStream, SubType
<1>3. InOrder(k)'
    BY <1>1, <1>2 DEF InOrder, Listed
<1>4. Followed(k)'
    <2>1. client.view = NoView /\ Told(k)' = Told(k)
        BY <1>1, <1>2 DEF LoadExecution, Followed, SnapshotFirst, Told
    <2> QED BY <1>1, <1>2, <2>1
            DEF Followed, SnapshotFirst, EndLast, EndTellsAll, TellsOnce, CursorTellsAll, Listed
<1>5. Others(k) /\ Advances(k) /\ GoesOn(k)
    BY <1>1, <1>2, <1>3, <1>4 DEF Others, Advances, GoesOn
<1> QED BY <1>1, <1>5, StreamStep

LEMMA ProgressKeepsStreams ==
    ASSUME Shape, Streams, NEW k \in Stream, GetExecutionProgress(k)
    PROVE  Streams'
<1>0. sub \in [Stream -> SubType] /\ wire \in [Stream -> Seq(EventType)]
    BY Shapes
<1>1. reader[k] = "open" /\ Followed(k) /\ InOrder(k) /\ client.status = "streaming"
    BY RunsRead DEF GetExecutionProgress, Streams, Loops, OneReader, ListedInOrder
<1>2. /\ \A j \in Stream \ {k} : sub'[j] = sub[j]
      /\ sub'[k].at = "results" /\ sub'[k].seen = db.status /\ sub'[k].cursor = sub[k].cursor
      /\ sub[k].at = "tick"
      /\ UNCHANGED <<db, wire, reader, client, unseen>>
    BY <1>0 DEF GetExecutionProgress, OnlyStream, SubType
<1>3. InOrder(k)'
    BY <1>1, <1>2 DEF InOrder, Listed
<1>4. Followed(k)'
    <2>1. Told(k)' = Told(k)
        BY <1>2 DEF Told
    <2> QED BY <1>1, <1>2, <2>1
            DEF Followed, SnapshotFirst, EndLast, EndTellsAll, TellsOnce, CursorTellsAll, Listed
<1>5. Others(k) /\ Advances(k) /\ GoesOn(k)
    BY <1>1, <1>2, <1>3, <1>4 DEF Others, Advances, GoesOn
<1> QED BY <1>1, <1>5, StreamStep

\* The snapshot tells every row there is; of a session that was over, that is all.
LEMMA SnapshotKeepsStreams ==
    ASSUME Shape, Streams, NEW k \in Stream, EmitSnapshot(k)
    PROVE  Streams'
<1> DEFINE snapshot == Event("execution_snapshot", View(sub[k].seen, db.rows))
<1>0. /\ db \in [status : StatusType, rows : SUBSET Component, cancel : BOOLEAN, stopping : BOOLEAN]
      /\ sub \in [Stream -> SubType] /\ wire \in [Stream -> Seq(EventType)] /\ client \in StoreType
      /\ unseen \in [Stream -> SUBSET Component]
    BY Shapes DEF Shape, TypeOK
<1>1. /\ reader[k] = "open" /\ Followed(k) /\ wire[k] = <<>> /\ client.status = "streaming"
      /\ client.view = NoView /\ client.view.known = {}
    BY RunsRead DEF EmitSnapshot, Streams, Loops, OneReader, Followed, SnapshotFirst, NoView, View
<1>2. /\ \A j \in Stream \ {k} : sub'[j] = sub[j] /\ wire'[j] = wire[j] /\ unseen'[j] = unseen[j]
      /\ sub'[k].at = IF sub[k].seen \in Terminal THEN "closed" ELSE "list"
      /\ sub'[k].cursor = sub[k].cursor
      /\ unseen'[k] = db.rows
      /\ UNCHANGED <<db, reader, client>>
    BY <1>0 DEF EmitSnapshot, Emit, Reach, OnlyStream, executionTerminal, SubType
<1>3. IF sub[k].seen \in Terminal
      THEN /\ DOMAIN wire'[k] = {1, 2} /\ Len(wire'[k]) = 2
           /\ wire'[k][1] = snapshot /\ wire'[k][2] = Event(sub[k].seen, sub[k].seen)
      ELSE wire'[k] = <<snapshot>>
    <2>1. CASE sub[k].seen \in Terminal
        <3>1. PICK e : e = Event(sub[k].seen, sub[k].seen)
            OBVIOUS
        <3>2. Emit(k, <<snapshot>> \o <<e>>)
            BY <2>1, <3>1 DEF EmitSnapshot, executionTerminal, emitExecutionTerminal
        <3> HIDE DEF snapshot
        <3>3. wire'[k] = <<>> \o (<<snapshot>> \o <<e>>)
            BY <1>0, <1>1, <3>2 DEF Emit
        <3>4. snapshot \in {snapshot, e} /\ e \in {snapshot, e}
            OBVIOUS
        <3> QED BY <2>1, <3>1, <3>3, <3>4, PairIndexes
    <2>2. CASE sub[k].seen \notin Terminal
        <3>1. Emit(k, <<snapshot>>)
            BY <2>2 DEF EmitSnapshot, executionTerminal
        <3> HIDE DEF snapshot
        <3>2. <<>> \o <<snapshot>> = <<snapshot>>
            OBVIOUS
        <3> QED BY <1>0, <1>1, <2>2, <3>1, <3>2 DEF Emit
    <2> QED BY <2>1, <2>2
<1>4. /\ snapshot.kind = "execution_snapshot" /\ snapshot.data.known = db.rows
      /\ snapshot.data.status = sub[k].seen
    BY DEF Event, View
<1>5. sub[k].seen \in Terminal => db.status = sub[k].seen
    BY DEF EmitSnapshot, Streams, EndStands
<1> HIDE DEF snapshot
<1>6. /\ 1 \in DOMAIN wire'[k] /\ wire'[k][1] = snapshot /\ wire'[k] # <<>>
      /\ \A n \in DOMAIN wire'[k] :
           \/ n = 1
           \/ /\ n = 2 /\ Len(wire'[k]) = 2 /\ sub[k].seen \in Terminal
              /\ wire'[k][n] = Event(sub[k].seen, sub[k].seen)
    BY <1>3
<1>7. \A n \in DOMAIN wire'[k] : /\ ~IsComponent(wire'[k][n])
                                 /\ IsSnapshot(wire'[k][n]) => n = 1
                                 /\ IsEnd(wire'[k][n]) =>
                                      /\ n = Len(wire'[k]) /\ sub[k].seen \in Terminal
                                      /\ wire'[k][n] = Event(db.status, db.status)
    <2> SUFFICES ASSUME NEW n \in DOMAIN wire'[k]
                 PROVE  /\ ~IsComponent(wire'[k][n])
                        /\ IsSnapshot(wire'[k][n]) => n = 1
                        /\ IsEnd(wire'[k][n]) =>
                             /\ n = Len(wire'[k]) /\ sub[k].seen \in Terminal
                             /\ wire'[k][n] = Event(db.status, db.status)
        OBVIOUS
    <2>1. CASE n = 1
        BY <1>4, <1>6, <2>1 DEF IsComponent, IsSnapshot, IsEnd, Terminal
    <2>2. CASE n # 1
        <3>1. n = Len(wire'[k]) /\ sub[k].seen \in Terminal /\ wire'[k][n] = Event(db.status, db.status)
            BY <1>5, <1>6, <2>2
        <3>2. wire'[k][n].kind \in Terminal
            BY <1>5, <3>1 DEF Event
        <3> QED BY <3>1, <3>2 DEF IsComponent, IsSnapshot, Terminal
    <2> QED BY <2>1, <2>2
<1>8. Told(k)' = db.rows
    <2>1. ToldBy(wire'[k]) = db.rows
        BY <1>0, <1>4, <1>6, <1>7 DEF ToldBy, IsSnapshot
    <2> QED BY <1>1, <1>2, <2>1 DEF Told
<1>9. InOrder(k)'
    BY <1>7 DEF InOrder, Listed, IsComponent
<1>10. Followed(k)'
    <2>1. SnapshotFirst(k)'
        BY <1>1, <1>2, <1>4, <1>6, <1>7 DEF SnapshotFirst, IsSnapshot
    <2>2. EndLast(k)' /\ TellsOnce(k)'
        BY <1>2, <1>7 DEF EndLast, TellsOnce, Listed, IsComponent
    <2>3. EndTellsAll(k)'
        BY <1>2, <1>7, <1>8 DEF EndTellsAll, IsEnd, Event
    <2>4. CursorTellsAll(k)'
        BY <1>2, <1>8 DEF CursorTellsAll
    <2> QED BY <2>1, <2>2, <2>3, <2>4 DEF Followed
<1>11. sub'[k].at \in {"closed", "list"}
    BY <1>2
<1>12. Others(k) /\ Advances(k) /\ GoesOn(k)
    BY <1>1, <1>2, <1>9, <1>10, <1>11 DEF Others, Advances, GoesOn
<1> QED BY <1>1, <1>12, StreamStep

\* The listing of the cursor finds the rows the snapshot told, and those that are skipped.
LEMMA CursorKeepsStreams ==
    ASSUME Shape, Streams, NEW k \in Stream, TakeCursor(k)
    PROVE  Streams'
<1>0. /\ db \in [status : StatusType, rows : SUBSET Component, cancel : BOOLEAN, stopping : BOOLEAN]
      /\ sub \in [Stream -> SubType] /\ wire \in [Stream -> Seq(EventType)]
      /\ unseen \in [Stream -> SUBSET Component]
    BY Shapes DEF Shape, TypeOK
<1>1. reader[k] = "open" /\ Followed(k) /\ InOrder(k) /\ client.status = "streaming"
    BY RunsRead DEF TakeCursor, Streams, Loops, OneReader, ListedInOrder
<1>2. /\ \A j \in Stream \ {k} : sub'[j] = sub[j] /\ unseen'[j] = unseen[j]
      /\ sub[k].at = "list" /\ sub'[k].at = "tick"
      /\ sub'[k].cursor = PastLast(sub[k].cursor, db.rows)
      /\ unseen'[k] = db.rows \ unseen[k]
      /\ UNCHANGED <<db, wire, reader, client>>
    <2> HIDE DEF PastLast
    <2> QED BY <1>0 DEF TakeCursor, OnlyStream, SubType
<1>3. /\ sub[k].cursor <= sub'[k].cursor /\ \A i \in db.rows : i < sub'[k].cursor
      /\ sub[k].cursor \in Nat /\ sub'[k].cursor \in Nat
    BY <1>0, <1>2, CursorIsPast, StreamAssumption DEF SubType
<1>4. InOrder(k)'
    <2>1. \A n \in Listed(k) : wire[k][n].data \in Nat
        BY <1>0, ListedType
    <2> QED BY <1>1, <1>2, <1>3, <2>1 DEF InOrder, Listed
<1>5. Followed(k)'
    <2>1. Told(k)' = Told(k)
        BY <1>2 DEF Told
    <2>2. SnapshotFirst(k)' /\ EndLast(k)' /\ TellsOnce(k)'
        BY <1>1, <1>2 DEF Followed, SnapshotFirst, EndLast, TellsOnce, Listed
    <2>3. EndTellsAll(k)'
        BY <1>1, <1>2 DEF Followed, EndLast, EndTellsAll, IsEnd
    <2>4. CursorTellsAll(k)'
        BY <1>1, <1>2, <1>3, <2>1 DEF Followed, CursorTellsAll
    <2> QED BY <2>2, <2>3, <2>4 DEF Followed
<1>6. Others(k) /\ Advances(k) /\ GoesOn(k)
    <2> HIDE DEF PastLast
    <2> QED BY <1>1, <1>2, <1>4, <1>5 DEF Others, Advances, GoesOn
<1> QED BY <1>1, <1>6, StreamStep

\* A tick tells the rows past the cursor, each for the first time, and the end only when
\* no row is left.
LEMMA ResultsKeepStreams ==
    ASSUME Shape, Streams, NEW k \in Stream, EmitResults(k)
    PROVE  Streams'
<1> DEFINE past == {i \in db.rows : i >= sub[k].cursor}
           w == wire[k]
           v == wire'[k]
<1>0. /\ db \in [status : StatusType, rows : SUBSET Component, cancel : BOOLEAN, stopping : BOOLEAN]
      /\ sub \in [Stream -> SubType] /\ wire \in [Stream -> Seq(EventType)] /\ client \in StoreType
    BY Shapes
<1>1. /\ reader[k] = "open" /\ Followed(k) /\ InOrder(k) /\ client.status = "streaming"
      /\ sub[k].at = "results" /\ sub[k].seen \in StatusType
      /\ sub[k].seen \in Terminal => db.status = sub[k].seen
    BY RunsRead DEF EmitResults, Shape, StatusRead, Streams, Loops, OneReader, ListedInOrder, EndStands
<1>2. PICK results \in Results(sub[k].cursor) : Emit(k, TickEvents(k, results))
    BY DEF EmitResults
<1>3. PICK t \in Seq(EventType) :
          /\ t = TickEvents(k, results)
          /\ \A n \in DOMAIN t :
               \/ IsComponent(t[n]) /\ t[n].data \in past
               \/ n = Len(t) /\ sub[k].seen \in Terminal /\ t[n] = Event(sub[k].seen, sub[k].seen)
               \/ n = Len(t) /\ sub[k].seen \notin Terminal /\ t[n] = Event("progress", sub[k].seen)
          /\ \A m, n \in DOMAIN t :
               m < n /\ IsComponent(t[m]) /\ IsComponent(t[n]) => t[m].data < t[n].data
          /\ ToldBy(t) = past
    BY <1>1, TickTells DEF Shape
<1>4. /\ \A j \in Stream \ {k} : sub'[j] = sub[j] /\ wire'[j] = wire[j]
      /\ sub'[k].at = IF sub[k].seen \in Terminal THEN "closed" ELSE "tick"
      /\ sub'[k].cursor = PastLast(sub[k].cursor, db.rows)
      /\ v = w \o t
      /\ UNCHANGED <<db, reader, client, unseen>>
    <2> HIDE DEF PastLast
    <2>1. sub' = [sub EXCEPT ![k].at = IF sub[k].seen \in Terminal THEN "closed" ELSE "tick",
                             ![k].cursor = PastLast(@, db.rows), ![k].last = sub[k].seen]
        BY DEF EmitResults, executionTerminal
    <2>2. wire' = [wire EXCEPT ![k] = @ \o t]
        BY <1>2, <1>3 DEF Emit
    <2>3. UNCHANGED <<db, reader, client, unseen>>
        BY DEF EmitResults, OnlyStream
    <2> QED BY <1>0, <2>1, <2>2, <2>3 DEF SubType
<1>5. /\ sub[k].cursor <= sub'[k].cursor /\ \A i \in db.rows : i < sub'[k].cursor
      /\ sub[k].cursor \in Nat /\ sub'[k].cursor \in Nat
    BY <1>0, <1>4, CursorIsPast, StreamAssumption DEF SubType
<1>6. /\ past \subseteq db.rows /\ db.rows \subseteq Component
      /\ \A i \in past : i \in Nat /\ sub[k].cursor <= i
      /\ \A i \in db.rows : i < sub[k].cursor \/ i \in past
    <2>1. db.rows \subseteq Component /\ \A i \in db.rows : i \in Nat
        BY <1>0, ComponentsAreNumbers
    <2> QED BY <1>5, <2>1
<1>7. /\ v \in Seq(EventType) /\ Len(v) = Len(w) + Len(t)
      /\ \A n \in DOMAIN w : n \in DOMAIN v /\ v[n] = w[n]
      /\ \A n \in DOMAIN v :
           \/ n \in DOMAIN w
           \/ n - Len(w) \in DOMAIN t /\ n = Len(w) + (n - Len(w)) /\ n \notin DOMAIN w /\ v[n] = t[n - Len(w)]
    <2> HIDE DEF v
    <2>1. w \in Seq(EventType)
        BY <1>0
    <2> HIDE DEF w
    <2> QED BY <1>4, <2>1, ConcatIndexes
<1>8. \A n \in DOMAIN v : n \in Nat /\ n >= 1
    BY <1>7
<1>9. \A n \in DOMAIN w : n \in Nat /\ n <= Len(w)
    BY <1>0
<1> HIDE DEF past, v, w
\* What is on the wire behind what was: a row past the cursor, or the last event.
<1>10. \A n \in DOMAIN v :
         \/ n \in DOMAIN w /\ v[n] = w[n]
         \/ /\ n \notin DOMAIN w /\ v[n] = t[n - Len(w)] /\ n - Len(w) \in DOMAIN t
            /\ \/ IsComponent(v[n]) /\ v[n].data \in past
               \/ n = Len(v) /\ sub[k].seen \in Terminal /\ v[n] = Event(sub[k].seen, sub[k].seen)
               \/ n = Len(v) /\ sub[k].seen \notin Terminal /\ v[n] = Event("progress", sub[k].seen)
    <2> SUFFICES ASSUME NEW n \in DOMAIN v, n \notin DOMAIN w
                 PROVE  /\ v[n] = t[n - Len(w)] /\ n - Len(w) \in DOMAIN t
                        /\ \/ IsComponent(v[n]) /\ v[n].data \in past
                           \/ n = Len(v) /\ sub[k].seen \in Terminal /\ v[n] = Event(sub[k].seen, sub[k].seen)
                           \/ n = Len(v) /\ sub[k].seen \notin Terminal /\ v[n] = Event("progress", sub[k].seen)
        BY <1>7
    <2>1. n - Len(w) \in DOMAIN t /\ n = Len(w) + (n - Len(w)) /\ v[n] = t[n - Len(w)]
        BY <1>7
    <2>2. n - Len(w) = Len(t) => n = Len(v)
        BY <1>7, <2>1
    <2> QED BY <1>3, <2>1, <2>2
<1>11. \A n \in DOMAIN v : IsSnapshot(v[n]) => n \in DOMAIN w /\ v[n] = w[n]
    BY <1>10 DEF IsComponent, IsSnapshot, Event, Terminal
<1>12. \A n \in DOMAIN v : n \notin DOMAIN w /\ IsComponent(v[n]) => v[n].data \in past
    BY <1>10 DEF IsComponent, Event, Terminal
<1>13. \A n \in DOMAIN w : ~IsEnd(w[n])
    BY <1>1 DEF Followed, EndLast, w
<1>14. \A n \in DOMAIN v : IsEnd(v[n]) => /\ n = Len(v) /\ sub[k].seen \in Terminal
                                          /\ v[n].kind = db.status /\ v[n].data = db.status
    <2> SUFFICES ASSUME NEW n \in DOMAIN v, IsEnd(v[n])
                 PROVE  /\ n = Len(v) /\ sub[k].seen \in Terminal
                        /\ v[n].kind = db.status /\ v[n].data = db.status
        OBVIOUS
    <2>1. n = Len(v) /\ sub[k].seen \in Terminal /\ v[n] = Event(sub[k].seen, sub[k].seen)
        BY <1>10, <1>13 DEF IsEnd, IsComponent, Event, Terminal
    <2> QED BY <1>1, <2>1 DEF Event
<1>15. Told(k)' = Told(k) \cup past
    <2>1. ToldBy(wire'[k]) = ToldBy(wire[k]) \cup past
        BY <1>0, <1>3, <1>4, ToldByConcat DEF v, w
    <2> QED BY <1>4, <2>1 DEF Told
<1>16. \A n \in Listed(k) : wire[k][n].data \in ToldBy(wire[k])
    BY <1>0, ListedType DEF ToldBy, Listed, IsComponent
<1>17. InOrder(k)'
    <2> SUFFICES ASSUME NEW n \in DOMAIN v, IsComponent(v[n])
                 PROVE  /\ \A m \in DOMAIN v : IsComponent(v[m]) /\ m < n => v[m].data < v[n].data
                        /\ v[n].data < sub'[k].cursor
        BY DEF InOrder, Listed, IsComponent, v
    <2>1. CASE n \in DOMAIN w
        <3>1. v[n] = w[n] /\ n \in Listed(k)
            BY <1>7, <2>1 DEF Listed, IsComponent, w
        <3>2. v[n].data < sub'[k].cursor
            <4>1. w[n].data < sub[k].cursor /\ w[n].data \in Nat
                BY <1>0, <1>1, <3>1, ListedType DEF InOrder, w
            <4> QED BY <1>5, <3>1, <4>1
        <3>3. ASSUME NEW m \in DOMAIN v, IsComponent(v[m]), m < n PROVE v[m].data < v[n].data
            <4>1. m \in DOMAIN w
                <5>1. n <= Len(w) /\ n \in Nat /\ m >= 1 /\ m \in Nat
                    BY <1>8, <1>9, <2>1
                <5>2. DOMAIN w = 1 .. Len(w) /\ Len(w) \in Nat
                    BY <1>0 DEF w
                <5> QED BY <3>3, <5>1, <5>2
            <4>2. m \in Listed(k) /\ v[m] = w[m]
                BY <1>7, <3>3, <4>1 DEF Listed, IsComponent, w
            <4> QED BY <1>1, <3>1, <3>3, <4>2 DEF InOrder, w
        <3> QED BY <3>2, <3>3
    <2>2. CASE n \notin DOMAIN w
        <3>1. v[n].data \in past
            BY <1>12, <2>2
        <3>2. ASSUME NEW m \in DOMAIN v, IsComponent(v[m]), m < n PROVE v[m].data < v[n].data
            <4>1. CASE m \in DOMAIN w
                <5>1. m \in Listed(k) /\ v[m] = w[m]
                    BY <1>7, <3>2, <4>1 DEF Listed, IsComponent, w
                <5>2. w[m].data < sub[k].cursor /\ w[m].data \in Nat
                    BY <1>0, <1>1, <5>1, ListedType DEF InOrder, w
                <5> QED BY <1>5, <1>6, <3>1, <5>1, <5>2
            <4>2. CASE m \notin DOMAIN w
                <5>1. /\ v[m] = t[m - Len(w)] /\ m - Len(w) \in DOMAIN t
                      /\ v[n] = t[n - Len(w)] /\ n - Len(w) \in DOMAIN t
                    BY <1>10, <2>2, <4>2
                <5>2. Len(w) \in Nat /\ m \in Nat /\ n \in Nat
                    BY <1>0, <1>8 DEF w
                <5>3. m - Len(w) < n - Len(w)
                    BY <3>2, <5>2
                <5> QED BY <1>3, <3>2, <5>1, <5>3
            <4> QED BY <4>1, <4>2
        <3> QED BY <1>5, <1>6, <3>1, <3>2
    <2> QED BY <2>1, <2>2
<1>18. Followed(k)'
    <2>1. SnapshotFirst(k)'
        <3>1. ASSUME client.view = NoView PROVE v # <<>> /\ IsSnapshot(v[1])
            <4>1. w # <<>> /\ 1 \in DOMAIN w
                BY <1>0, <1>1, <3>1 DEF Followed, SnapshotFirst, w
            <4>2. IsSnapshot(w[1])
                BY <1>1, <1>13, <3>1, <4>1 DEF Followed, SnapshotFirst, IsEnd, w
            <4> QED BY <1>7, <4>1, <4>2
        <3>2. \A n \in DOMAIN v : IsSnapshot(v[n]) => n = 1 /\ client.view = NoView
            BY <1>1, <1>11 DEF Followed, SnapshotFirst, w
        <3> QED BY <1>4, <3>1, <3>2 DEF SnapshotFirst, v
    <2>2. EndLast(k)'
        BY <1>4, <1>14 DEF EndLast, v
    <2>3. EndTellsAll(k)'
        <3>1. db.rows \subseteq Told(k)' \cup unseen'[k]
            BY <1>1, <1>4, <1>6, <1>15 DEF Followed, CursorTellsAll
        <3> QED BY <1>4, <1>14, <3>1 DEF EndTellsAll, IsEnd, v
    <2>4. TellsOnce(k)'
        <3> SUFFICES ASSUME NEW n \in DOMAIN v, IsComponent(v[n])
                     PROVE  /\ v[n].data \notin client.view.known
                            /\ \A m \in DOMAIN v : IsSnapshot(v[m]) => v[n].data \notin v[m].data.known
            BY <1>4 DEF TellsOnce, Listed, IsComponent, v
        <3>1. CASE n \in DOMAIN w
            <4>1. v[n] = w[n] /\ n \in Listed(k)
                BY <1>7, <3>1 DEF Listed, IsComponent, w
            <4> QED BY <1>1, <1>11, <4>1 DEF Followed, TellsOnce, w
        <3>2. CASE n \notin DOMAIN w
            <4>1. v[n].data \in past
                BY <1>12, <3>2
            <4>2. v[n].data \notin Told(k)
                BY <1>1, <1>5, <1>6, <4>1 DEF Followed, CursorTellsAll
            <4>3. ASSUME NEW m \in DOMAIN v, IsSnapshot(v[m]), v[n].data \in v[m].data.known PROVE FALSE
                <5>1. m \in DOMAIN w /\ v[m] = w[m]
                    BY <1>11, <4>3
                <5>2. v[n].data \in ToldBy(wire[k])
                    BY <1>6, <4>1, <4>3, <5>1 DEF ToldBy, w
                <5> QED BY <4>2, <5>2 DEF Told
            <4> QED BY <4>2, <4>3 DEF Told
        <3> QED BY <3>1, <3>2
    <2>5. CursorTellsAll(k)'
        <3>1. Told(k)' \subseteq db.rows
            BY <1>1, <1>6, <1>15 DEF Followed, CursorTellsAll
        <3>2. \A i \in db.rows : i \in Told(k)' \cup unseen'[k]
            BY <1>1, <1>4, <1>6, <1>15 DEF Followed, CursorTellsAll
        <3> QED BY <1>4, <1>5, <3>1, <3>2 DEF CursorTellsAll
    <2> QED BY <2>1, <2>2, <2>3, <2>4, <2>5 DEF Followed
<1>19. sub'[k].at \in {"closed", "tick"}
    BY <1>4
<1>20. Others(k) /\ Advances(k) /\ GoesOn(k)
    <2> HIDE DEF PastLast
    <2> QED BY <1>1, <1>4, <1>17, <1>18, <1>19 DEF Others, Advances, GoesOn
<1> QED BY <1>1, <1>20, StreamStep

\* A broken connection loses the rest of the events, never some of them.
LEMMA DisconnectKeepsStreams ==
    ASSUME Shape, Streams, NEW k \in Stream, Disconnect(k)
    PROVE  Streams'
<1>0. sub \in [Stream -> SubType] /\ wire \in [Stream -> Seq(EventType)] /\ client \in StoreType
    BY Shapes
<1>1. reader[k] = "open" /\ Followed(k) /\ InOrder(k) /\ client.status = "streaming"
    <2>1. reader[k] = "open"
        BY RunsRead DEF Disconnect, Streams
    <2> QED BY <2>1 DEF Streams, Loops, OneReader, ListedInOrder
<1>2. /\ \A j \in Stream \ {k} : sub'[j] = sub[j] /\ wire'[j] = wire[j]
      /\ sub'[k].at = "closed" /\ sub'[k].cursor = sub[k].cursor
      /\ UNCHANGED <<db, reader, client, unseen>>
      /\ wire'[k] = wire[k] \/ wire'[k] = <<>>
    <2>1. UNCHANGED wire \/ wire' = [wire EXCEPT ![k] = <<>>]
        BY DEF Disconnect
    <2> QED BY <1>0, <2>1 DEF Disconnect, Reach, OnlyStream, SubType
<1>3. InOrder(k)'
    BY <1>1, <1>2 DEF InOrder, Listed
<1>4. Followed(k)'
    <2>1. CASE wire'[k] = wire[k]
        <3>1. Told(k)' = Told(k)
            BY <1>2, <2>1 DEF Told
        <3> QED BY <1>1, <1>2, <2>1, <3>1
                DEF Followed, SnapshotFirst, EndLast, EndTellsAll, TellsOnce, CursorTellsAll, Listed
    <2>2. CASE wire'[k] = <<>>
        <3>1. Told(k)' \subseteq Told(k)
            BY <1>2, <2>2, ToldByNothing DEF Told
        <3> QED BY <1>1, <1>2, <2>2, <3>1
                DEF Followed, SnapshotFirst, EndLast, EndTellsAll, TellsOnce, CursorTellsAll, Listed
    <2> QED BY <1>2, <2>1, <2>2
<1>5. Others(k) /\ Advances(k) /\ GoesOn(k)
    BY <1>1, <1>2, <1>3, <1>4 DEF Others, Advances, GoesOn
<1> QED BY <1>1, <1>5, StreamStep

LEMMA FailureKeepsStreams ==
    ASSUME Shape, Streams, NEW k \in Stream, SubscribeFails(k)
    PROVE  Streams'
<1> DEFINE w == wire[k]
           v == wire'[k]
           e == Event("error", "error")
<1>0. sub \in [Stream -> SubType] /\ wire \in [Stream -> Seq(EventType)] /\ client \in StoreType
    BY Shapes
<1>1. /\ reader[k] = "open" /\ Followed(k) /\ InOrder(k) /\ client.status = "streaming"
      /\ sub[k].at \in {"load", "view", "list"}
    <2>1. reader[k] = "open"
        BY RunsRead DEF SubscribeFails, Streams
    <2> QED BY <2>1 DEF SubscribeFails, Streams, Loops, OneReader, ListedInOrder
<1>2. /\ \A j \in Stream \ {k} : sub'[j] = sub[j] /\ wire'[j] = wire[j]
      /\ sub'[k].at = "closed" /\ sub'[k].cursor = sub[k].cursor
      /\ UNCHANGED <<db, reader, client, unseen>>
      /\ v = w \o <<e>>
    BY <1>0 DEF SubscribeFails, Emit, Reach, OnlyStream, SubType
<1>3. e.kind = "error" /\ e \in EventType
    BY DEF Event, EventType
<1> HIDE DEF e
<1>4. <<e>> \in Seq(EventType) /\ Len(<<e>>) = 1 /\ <<e>>[1] = e
    BY <1>3
<1>5. PICK t \in Seq(EventType) : t = <<e>>
    BY <1>4
<1>6. /\ v \in Seq(EventType) /\ Len(v) = Len(w) + 1
      /\ \A n \in DOMAIN w : n \in DOMAIN v /\ v[n] = w[n]
      /\ \A n \in DOMAIN v : \/ n \in DOMAIN w /\ v[n] = w[n]
                             \/ n \notin DOMAIN w /\ n = Len(v) /\ v[n] = e
    <2> HIDE DEF v
    <2>1. w \in Seq(EventType)
        BY <1>0
    <2> HIDE DEF w
    <2>2. /\ v \in Seq(EventType) /\ Len(v) = Len(w) + Len(t)
          /\ \A n \in DOMAIN w : n \in DOMAIN v /\ v[n] = w[n]
          /\ \A n \in DOMAIN t : Len(w) + n \in DOMAIN v /\ v[Len(w) + n] = t[n]
          /\ \A n \in DOMAIN v : \/ n \in DOMAIN w
                                 \/ n - Len(w) \in DOMAIN t /\ n = Len(w) + (n - Len(w)) /\ n \notin DOMAIN w
        BY <1>2, <1>5, <2>1, ConcatIndexes
    <2>3. Len(t) = 1 /\ t[1] = e /\ DOMAIN t = {1}
        BY <1>4, <1>5
    <2> QED BY <2>1, <2>2, <2>3
<1> HIDE DEF v, w
<1>7. \A n \in DOMAIN v : IsSnapshot(v[n]) \/ IsComponent(v[n]) \/ v[n].kind \in Terminal =>
         n \in DOMAIN w /\ v[n] = w[n]
    BY <1>3, <1>6 DEF IsSnapshot, IsComponent, Terminal
<1>8. \A n \in DOMAIN w : ~IsEnd(w[n])
    BY <1>1 DEF Followed, EndLast, w
<1>9. Told(k)' = Told(k)
    <2>1. ToldBy(v) = ToldBy(w)
        BY <1>6, <1>7 DEF ToldBy
    <2> QED BY <1>2, <2>1 DEF Told, v, w
<1>10. InOrder(k)'
    <2>1. \A n \in DOMAIN v : v[n].kind = "component" => n \in Listed(k) /\ v[n] = wire[k][n]
        BY <1>7 DEF Listed, IsComponent, w
    <2> QED BY <1>1, <1>2, <2>1 DEF InOrder, Listed, v
<1>11. Followed(k)'
    <2>1. SnapshotFirst(k)'
        <3>1. ASSUME client.view = NoView PROVE IsSnapshot(v[1]) \/ v[1].kind = "error"
            <4>1. CASE w = <<>>
                <5>1. Len(v) = 1 /\ 1 \in DOMAIN v /\ 1 \notin DOMAIN w
                    BY <1>6, <4>1
                <5> QED BY <1>3, <1>6, <5>1
            <4>2. CASE w # <<>>
                <5>1. 1 \in DOMAIN w
                    BY <1>0, <4>2 DEF w
                <5> QED BY <1>1, <1>6, <3>1, <4>2, <5>1 DEF Followed, SnapshotFirst, w
            <4> QED BY <4>1, <4>2
        <3>2. \A n \in DOMAIN v : IsSnapshot(v[n]) => n = 1 /\ client.view = NoView
            BY <1>1, <1>7 DEF Followed, SnapshotFirst, w
        <3> QED BY <1>2, <3>1, <3>2 DEF SnapshotFirst, v
    <2>2. EndLast(k)'
        BY <1>2, <1>6, <1>8 DEF EndLast, v
    <2>3. EndTellsAll(k)'
        BY <1>7, <1>8 DEF EndTellsAll, IsEnd, v
    <2>4. TellsOnce(k)'
        <3>1. \A n \in DOMAIN v : v[n].kind = "component" => n \in Listed(k) /\ v[n] = wire[k][n]
            BY <1>7 DEF Listed, IsComponent, w
        <3>2. \A n \in DOMAIN v : IsSnapshot(v[n]) => n \in DOMAIN wire[k] /\ v[n] = wire[k][n]
            BY <1>7 DEF w
        <3> QED BY <1>1, <1>2, <3>1, <3>2 DEF Followed, TellsOnce, Listed, v
    <2>5. CursorTellsAll(k)'
        BY <1>1, <1>2, <1>9 DEF Followed, CursorTellsAll
    <2> QED BY <2>1, <2>2, <2>3, <2>4, <2>5 DEF Followed
<1>12. Others(k) /\ Advances(k) /\ GoesOn(k)
    BY <1>1, <1>2, <1>10, <1>11 DEF Others, Advances, GoesOn
<1> QED BY <1>1, <1>12, StreamStep

\* A client that attaches has nothing yet.
LEMMA AttachKeepsStreams ==
    ASSUME Shape, Streams, NEW k \in Stream, Attach(k)
    PROVE  Streams'
<1>0. sub \in [Stream -> SubType] /\ wire \in [Stream -> Seq(EventType)]
    BY Shapes
<1>1. OneReader /\ sub[k].at = "none" /\ wire[k] = <<>>
    BY DEF Attach, Streams, OneReader
<1>2. \A j \in Stream : reader[j] # "open"
    BY <1>1 DEF Attach, OneReader
<1>3. /\ \A j \in Stream \ {k} : sub'[j] = sub[j] /\ reader'[j] = reader[j]
      /\ reader'[k] = "open" /\ reader[k] = "none"
      /\ sub'[k].at = "load" /\ sub'[k].cursor = sub[k].cursor
      /\ client'.status = "streaming" /\ client'.view = NoView /\ client'.view.known = {}
      /\ UNCHANGED <<db, wire, unseen>>
    BY <1>0 DEF Attach, Reach, Store, NoView, View, Shape, TypeOK, SubType
<1>4. RowsInOrder' /\ EndStands' /\ ListedInOrder'
    <2>1. \A j \in Stream : sub'[j].cursor = sub[j].cursor
        BY <1>3
    <2>2. RowsInOrder'
        BY <1>3, <2>1 DEF Streams, RowsInOrder
    <2>3. EndStands'
        BY <1>3 DEF Streams, EndStands
    <2>4. ListedInOrder'
        BY <1>3, <2>1 DEF Streams, ListedInOrder, InOrder, Listed
    <2> QED BY <2>2, <2>3, <2>4
<1>5. OneReader'
    <2> SUFFICES ASSUME NEW i \in Stream
                 PROVE  /\ reader'[i] # "none" => \A j \in 1 .. i - 1 : reader'[j] = "done"
                        /\ reader'[i] = "open" => client'.status = "streaming"
                        /\ reader'[i] = "none" <=> sub'[i].at = "none"
                        /\ reader'[i] = "done" => sub'[i].at = "closed"
                        /\ sub'[i].at \in {"none", "load", "view"} => wire'[i] = <<>>
        BY DEF OneReader
    <2>1. CASE i = k
        <3>1. \A j \in 1 .. k - 1 : j \in Stream \ {k} /\ reader[j] = "done"
            BY StreamAssumption DEF Attach, Stream
        <3> QED BY <1>1, <1>3, <2>1, <3>1
    <2>2. CASE i # k
        <3>1. ASSUME reader[i] # "none", NEW j \in 1 .. i - 1 PROVE reader'[j] = "done"
            <4>1. reader[j] = "done" /\ j \in Stream
                BY <1>1, <3>1, StreamAssumption DEF OneReader, Stream
            <4> QED BY <1>3, <4>1
        <3> QED BY <1>1, <1>2, <1>3, <2>2, <3>1 DEF OneReader
    <2> QED BY <2>1, <2>2
<1>6. ASSUME NEW i \in Stream, reader'[i] = "open" PROVE Followed(i)'
    <2>1. i = k
        BY <1>2, <1>3, <1>6
    <2>2. Told(k)' = {}
        BY <1>1, <1>3, ToldByNothing DEF Told
    <2> QED BY <1>1, <1>3, <2>1, <2>2
            DEF Followed, SnapshotFirst, EndLast, EndTellsAll, TellsOnce, CursorTellsAll, Listed
<1>7. TerminalTellsAll'
    BY <1>3 DEF TerminalTellsAll, Terminal
<1> QED BY <1>4, <1>5, <1>6, <1>7 DEF Streams, Loops

\* An event that is read is no longer on its way, and nothing else was lost.
LEMMA ReadKeepsStreams ==
    ASSUME Shape, Streams, NEW k \in Stream, ReadEvent(k)
    PROVE  Streams'
<1> DEFINE w == wire[k]
           v == wire'[k]
           e == Head(wire[k])
<1>0. /\ db \in [status : StatusType, rows : SUBSET Component, cancel : BOOLEAN, stopping : BOOLEAN]
      /\ sub \in [Stream -> SubType] /\ wire \in [Stream -> Seq(EventType)] /\ client \in StoreType
      /\ reader \in [Stream -> {"none", "open", "done"}]
    BY Shapes DEF Shape, TypeOK
<1>1. reader[k] = "open" /\ Followed(k) /\ InOrder(k) /\ client.status = "streaming" /\ w # <<>>
    BY DEF ReadEvent, Streams, Loops, OneReader, ListedInOrder
<1>2. /\ \A j \in Stream \ {k} : wire'[j] = wire[j] /\ reader'[j] = reader[j]
      /\ v = Tail(w)
      /\ client' = applyEvent(e)
      /\ reader'[k] = IF client'.status = "streaming" THEN "open" ELSE "done"
      /\ UNCHANGED <<db, sub, unseen>>
    BY <1>0 DEF ReadEvent
<1>3. /\ v \in Seq(EventType) /\ e = w[1] /\ 1 \in DOMAIN w
      /\ \A n \in DOMAIN v : n + 1 \in DOMAIN w /\ v[n] = w[n + 1] /\ n \in Nat /\ n >= 1
      /\ Len(v) = Len(w) - 1 /\ Len(w) \in Nat
    <2>1. w \in Seq(EventType)
        BY <1>0
    <2> HIDE DEF w, v, e
    <2>2. v \in Seq(EventType) /\ \A n \in DOMAIN v : n \in Nat /\ n >= 1
        BY <1>1, <1>2, <2>1, TailIndexes
    <2> QED BY <1>1, <1>2, <2>1, <2>2, TailIndexes DEF e, w
<1>4. /\ e \in EventType /\ client.view \in ViewType
      /\ wire'[k] = Tail(wire[k])
    BY <1>0, <1>2, <1>3 DEF StoreType
<1>5. sub[k].at \notin {"none", "load", "view"}
    BY <1>1 DEF Streams, OneReader
\* There is a view unless the event is the first one, a snapshot or an error.
<1>6. /\ client.view = NoView => IsSnapshot(e) \/ e.kind = "error"
      /\ IsSnapshot(e) => client.view = NoView
      /\ IsEnd(e) => v = <<>> /\ sub[k].at = "closed"
    <2>1. client.view = NoView => IsSnapshot(e) \/ e.kind = "error"
        BY <1>1, <1>3 DEF Followed, SnapshotFirst
    <2>2. IsSnapshot(e) => client.view = NoView
        BY <1>1, <1>3 DEF Followed, SnapshotFirst
    <2>3. IsEnd(e) => Len(w) = 1 /\ sub[k].at = "closed"
        BY <1>1, <1>3 DEF Followed, EndLast
    <2>4. Len(w) = 1 => v = <<>>
        BY <1>3
    <2> QED BY <2>1, <2>2, <2>3, <2>4
<1>7. InOrder(k)'
    <2> SUFFICES ASSUME NEW n \in DOMAIN v, v[n].kind = "component"
                 PROVE  /\ \A m \in DOMAIN v : v[m].kind = "component" /\ m < n => v[m].data < v[n].data
                        /\ v[n].data < sub[k].cursor
        BY <1>2 DEF InOrder, Listed
    <2>1. \A m \in DOMAIN v : v[m].kind = "component" => m + 1 \in Listed(k) /\ v[m] = wire[k][m + 1] /\ m \in Nat
        BY <1>3 DEF Listed
    <2> HIDE DEF v
    <2> QED BY <1>1, <2>1 DEF InOrder
<1>8. CASE IsEnd(e)
    <2>1. client'.status = e.kind /\ client'.view = Merged(client.view, e)
        BY <1>2, <1>8 DEF applyEvent, Store, IsEnd
    <2>2. IsOver(k)
        <3>1. reader'[k] = "done" /\ sub'[k].at = "closed"
            BY <1>2, <1>6, <1>8, <2>1 DEF IsEnd, Terminal
        <3>2. ASSUME e.kind \in Terminal
              PROVE  /\ client'.status = db.status /\ client'.view.status = db.status
                     /\ db.rows \subseteq client'.view.known \cup unseen'[k]
            <4>1. /\ e.data = db.status /\ e.kind = db.status
                  /\ db.rows \subseteq Told(k) \cup unseen[k]
                BY <1>1, <1>3, <3>2 DEF Followed, EndTellsAll
            <4>2. client.view # NoView
                BY <1>6, <3>2 DEF IsSnapshot, Terminal
            <4>3. client'.view = [client.view EXCEPT !.status = db.status]
                BY <2>1, <3>2, <4>1, <4>2 DEF Merged, Terminal
            <4>4. client'.view.status = db.status /\ client'.view.known = client.view.known
                BY <1>4, <4>3 DEF ViewType
            <4>5. ToldBy(wire[k]) = {}
                <5>1. ToldBy(Tail(wire[k])) = {}
                    BY <1>2, <1>6, <1>8, ToldByNothing
                <5>2. ~IsComponent(e) /\ ~IsSnapshot(e)
                    BY <3>2 DEF IsComponent, IsSnapshot, Terminal
                <5>3. wire[k] \in Seq(EventType) /\ wire[k] # <<>> /\ wire[k][1] = e
                    BY <1>0, <1>1, <1>3
                <5> HIDE DEF e
                <5> QED BY <5>1, <5>2, <5>3, ToldByTail
            <4> QED BY <1>2, <2>1, <4>1, <4>4, <4>5 DEF Told
        <3> QED BY <1>2, <2>1, <3>1, <3>2 DEF IsOver
    <2>3. Others(k) /\ Advances(k)
        BY <1>2, <1>5, <1>6, <1>7, <1>8 DEF Others, Advances
    <2> QED BY <1>1, <2>2, <2>3, StreamStep
<1>9. CASE ~IsEnd(e)
    <2>1. /\ client'.status = "streaming" /\ client'.view = Merged(client.view, e)
          /\ reader'[k] = "open"
        <3>1. client' = [client EXCEPT !.view = Merged(client.view, e)]
            BY <1>2, <1>9 DEF applyEvent, IsEnd
        <3> QED BY <1>0, <1>1, <1>2, <3>1 DEF StoreType
    <2>2. Merged(client.view, e) # NoView
        <3>1. CASE IsSnapshot(e)
            <4>1. e.data.status \in StatusType /\ Merged(client.view, e) = e.data
                BY <1>4, <3>1 DEF IsSnapshot, EventType, Terminal, Merged, StatusType
            <4> QED BY <4>1 DEF NoView, View, StatusType, Active, Terminal
        <3>2. CASE e.kind = "component"
            <4>1. /\ client.view # NoView
                  /\ Merged(client.view, e) = [client.view EXCEPT !.known = @ \cup {e.data}]
                  /\ e.data \in Component
                BY <1>4, <1>6, <1>9, <3>2 DEF Merged, IsSnapshot, EventType, Terminal
            <4>2. e.data \in Merged(client.view, e).known
                BY <1>4, <4>1 DEF ViewType
            <4> QED BY <4>2 DEF NoView, View
        <3>3. CASE e.kind = "progress"
            <4>1. /\ client.view # NoView
                  /\ Merged(client.view, e) = [client.view EXCEPT !.status = e.data]
                  /\ e.data \in StatusType
                BY <1>4, <1>6, <1>9, <3>3 DEF Merged, IsSnapshot, EventType, Terminal, StatusType
            <4>2. Merged(client.view, e).status \in StatusType
                BY <1>4, <4>1 DEF ViewType
            <4> QED BY <4>2 DEF NoView, View, StatusType, Active, Terminal
        <3> QED BY <1>4, <1>9, <3>1, <3>2, <3>3 DEF EventType, IsSnapshot, IsEnd
    \* What the view knows now is what it knew and what the event tells.
    <2>3. client'.view.known = client.view.known \cup {i \in Component :
              \/ IsComponent(e) /\ e.data = i
              \/ IsSnapshot(e) /\ i \in e.data.known}
        <3>1. CASE IsSnapshot(e)
            <4>1. e.data.known \in SUBSET Component /\ Merged(client.view, e) = e.data
                BY <1>4, <3>1 DEF IsSnapshot, EventType, Terminal, Merged
            <4>2. client.view.known = {} /\ ~IsComponent(e)
                BY <1>6, <3>1 DEF NoView, View, IsComponent, IsSnapshot
            <4> QED BY <2>1, <3>1, <4>1, <4>2
        <3>2. CASE e.kind = "component"
            <4>1. /\ Merged(client.view, e) = [client.view EXCEPT !.known = @ \cup {e.data}]
                  /\ e.data \in Component
                BY <1>4, <1>6, <1>9, <3>2 DEF Merged, IsSnapshot, EventType, Terminal
            <4>2. Merged(client.view, e).known = client.view.known \cup {e.data}
                BY <1>4, <4>1 DEF ViewType
            <4> QED BY <2>1, <3>2, <4>1, <4>2 DEF IsComponent, IsSnapshot
        <3>3. CASE e.kind = "progress"
            <4>1. Merged(client.view, e) = [client.view EXCEPT !.status = e.data]
                BY <1>6, <3>3 DEF Merged, IsSnapshot
            <4>2. Merged(client.view, e).known = client.view.known
                BY <1>4, <4>1 DEF ViewType
            <4> QED BY <2>1, <3>3, <4>2 DEF IsComponent, IsSnapshot
        <3> QED BY <1>4, <1>9, <3>1, <3>2, <3>3 DEF EventType, IsSnapshot, IsEnd
    <2>4. Told(k)' = Told(k)
        <3>1. wire[k] \in Seq(EventType) /\ wire[k] # <<>> /\ wire[k][1] = e
            BY <1>0, <1>1, <1>3
        <3>2. ToldBy(wire[k]) = ToldBy(Tail(wire[k])) \cup {i \in Component :
                  \/ IsComponent(e) /\ e.data = i
                  \/ IsSnapshot(e) /\ i \in e.data.known}
            <4> HIDE DEF e
            <4>1. \A i \in ToldBy(wire[k]) : i \in Component
                BY DEF ToldBy
            <4> QED BY <3>1, <4>1, ToldByTail
        <3> HIDE DEF e
        <3> QED BY <1>4, <2>3, <3>2 DEF Told
    <2>5. Followed(k)'
        <3>1. SnapshotFirst(k)'
            <4>1. \A n \in DOMAIN v : ~IsSnapshot(v[n])
                <5> SUFFICES ASSUME NEW n \in DOMAIN v, IsSnapshot(v[n]) PROVE FALSE
                    OBVIOUS
                <5>1. n + 1 \in DOMAIN w /\ IsSnapshot(w[n + 1]) /\ n \in Nat /\ n >= 1
                    BY <1>3
                <5>2. n + 1 = 1
                    BY <1>1, <5>1 DEF Followed, SnapshotFirst
                <5> QED BY <5>1, <5>2
            <4> QED BY <1>2, <1>5, <2>1, <2>2, <4>1 DEF SnapshotFirst
        <3>2. EndLast(k)'
            <4> SUFFICES ASSUME NEW n \in DOMAIN v, IsEnd(v[n])
                         PROVE  n = Len(v) /\ sub[k].at = "closed"
                BY <1>2 DEF EndLast
            <4>1. n + 1 \in DOMAIN w /\ IsEnd(w[n + 1]) /\ n \in Nat
                BY <1>3
            <4>2. n + 1 = Len(w) /\ sub[k].at = "closed"
                BY <1>1, <4>1 DEF Followed, EndLast
            <4> QED BY <1>3, <4>1, <4>2
        <3>3. EndTellsAll(k)'
            <4>1. \A n \in DOMAIN v : \E m \in DOMAIN w : v[n] = w[m]
                BY <1>3
            <4> QED BY <1>1, <1>2, <2>4, <4>1 DEF Followed, EndTellsAll
        <3>4. TellsOnce(k)'
            <4> SUFFICES ASSUME NEW n \in DOMAIN v, v[n].kind = "component"
                         PROVE  /\ v[n].data \notin client'.view.known
                                /\ \A m \in DOMAIN v : IsSnapshot(v[m]) => v[n].data \notin v[m].data.known
                BY DEF TellsOnce, Listed
            <4>1. n + 1 \in Listed(k) /\ v[n] = wire[k][n + 1] /\ n \in Nat /\ n >= 1
                BY <1>3 DEF Listed
            <4>2. \A m \in DOMAIN v : \E l \in DOMAIN wire[k] : v[m] = wire[k][l]
                BY <1>3
            <4>3. v[n].data \notin client.view.known
                BY <1>1, <4>1 DEF Followed, TellsOnce
            <4>4. IsSnapshot(e) => v[n].data \notin e.data.known
                BY <1>1, <1>3, <4>1 DEF Followed, TellsOnce
            <4>5. IsComponent(e) => v[n].data # e.data
                <5> SUFFICES ASSUME IsComponent(e) PROVE v[n].data # e.data
                    OBVIOUS
                <5>1. 1 \in Listed(k) /\ 1 < n + 1
                    BY <1>3, <4>1 DEF Listed, IsComponent
                <5>2. wire[k][1].data < wire[k][n + 1].data
                    BY <1>1, <4>1, <5>1 DEF InOrder
                <5>3. wire[k][1].data \in Nat
                    BY <1>0, <5>1, ListedType
                <5> QED BY <1>3, <4>1, <5>2, <5>3
            <4> HIDE DEF v, e
            <4> QED BY <1>1, <2>3, <4>1, <4>2, <4>3, <4>4, <4>5 DEF Followed, TellsOnce
        <3>5. CursorTellsAll(k)'
            BY <1>1, <1>2, <2>4 DEF Followed, CursorTellsAll
        <3> QED BY <3>1, <3>2, <3>3, <3>4, <3>5 DEF Followed
    <2>6. Others(k) /\ Advances(k) /\ GoesOn(k)
        <3>1. sub[k].at \in {"view", "results"} /\ sub[k].seen \in Terminal => db.status = sub[k].seen
            BY DEF Streams, EndStands
        <3> QED BY <1>2, <1>5, <1>7, <2>1, <2>5, <3>1 DEF Others, Advances, GoesOn
    <2> QED BY <1>1, <2>6, StreamStep
<1> QED BY <1>8, <1>9

LEMMA EndKeepsStreams ==
    ASSUME Shape, Streams, NEW k \in Stream, StreamEnds(k)
    PROVE  Streams'
<1>0. reader \in [Stream -> {"none", "open", "done"}]
    BY DEF Shape, TypeOK
<1>1. /\ reader[k] = "open" /\ InOrder(k) /\ sub[k].at = "closed"
    BY DEF StreamEnds, Streams, ListedInOrder
<1>2. /\ \A j \in Stream \ {k} : reader'[j] = reader[j]
      /\ reader'[k] = "done" /\ client'.status = "error"
      /\ UNCHANGED <<db, sub, wire, unseen>>
    BY <1>0 DEF StreamEnds, Store
<1>3. InOrder(k)'
    BY <1>1, <1>2 DEF InOrder, Listed
<1>4. Others(k) /\ Advances(k) /\ IsOver(k)
    BY <1>1, <1>2, <1>3 DEF Others, Advances, IsOver, Terminal
<1> QED BY <1>1, <1>4, StreamStep

LEMMA StreamsStep == Shape /\ Streams /\ [Next]_vars => Streams'
<1> SUFFICES ASSUME Shape, Streams, [Next]_vars PROVE Streams'
    OBVIOUS
<1>1. CASE UNCHANGED vars
    <2>1. UNCHANGED <<db, sub, wire, reader, client, unseen>>
        BY <1>1 DEF vars
    <2>2. \A k \in Stream : Followed(k)' = Followed(k)
        BY <2>1 DEF Followed, SnapshotFirst, EndLast, EndTellsAll, TellsOnce, CursorTellsAll, Told, Listed
    <2> QED BY <2>1, <2>2 DEF Streams, RowsInOrder, OneReader, EndStands, ListedInOrder, InOrder, Listed,
                              Loops, TerminalTellsAll
<1> QED BY <1>1, WorkerKeepsStreams, CrashKeepsStreams, LoadKeepsStreams, ProgressKeepsStreams,
           SnapshotKeepsStreams, CursorKeepsStreams, ResultsKeepStreams, DisconnectKeepsStreams,
           FailureKeepsStreams, AttachKeepsStreams, ReadKeepsStreams, EndKeepsStreams
        DEF Next, Subscription, Reader

\* What a client is told of a session is what happened to it, each thing once and the end
\* last: a client that was told the end says what the database says and has every result
\* but those recorded between the snapshot and the cursor, whatever commits, stops, deaths
\* and lost connections come between (SubscribeExecution, applyEvent).
THEOREM StreamAlwaysTells == Spec => []StreamTellsSession
<1>1. Streams => StreamTellsSession
    <2> SUFFICES ASSUME Streams PROVE NothingSentTwice
        BY DEF Streams, StreamTellsSession
    <2> QED BY DEF Streams, ListedInOrder, InOrder, Loops, Followed, TellsOnce, NothingSentTwice
<1> QED BY <1>1, StreamsInit, StreamsStep, SpecShape, PTL DEF Spec

-----------------------------------------------------------------------------
(* THE PAGES: the types.                                                   *)

ConnectionType == [session : Session \cup {None}, told : {"nothing", "view"},
               loop : {"none", "open", "broken", "closing", "settled", "done"}]
PageStoreType == [status : {"idle", "streaming", "ended", "error"},
              terminal : {"none", "event", "transport"}, exec : Session \cup {None},
              view : Views, cancelRequested : BOOLEAN, receivedEvent : BOOLEAN,
              controller : {0} \cup Connection]

\* A connection is to a session.
Sessioned == \A k \in Connection : streams[k].loop # "none" => streams[k].session \in Session
PageShape == PageTypeOK /\ Sessioned

LEMMA AttachType ==
    ASSUME streams \in [Connection -> ConnectionType], store \in PageStoreType, Sessioned,
           NEW s \in Session \cup {None}, attach(s)
    PROVE  streams' \in [Connection -> ConnectionType] /\ store' \in PageStoreType /\ Sessioned'
<1>1. CASE store.status = "streaming" \/ s = None
    BY <1>1 DEF attach, Sessioned
<1>2. CASE ~(store.status = "streaming" \/ s = None)
    <2>1. PICK k \in Connection :
              /\ streams' = [streams EXCEPT ![k] = [NoStream EXCEPT !.session = s, !.loop = "open"]]
              /\ store' = [Idle EXCEPT !.status = "streaming", !.exec = s, !.controller = k,
                                       !.cancelRequested = store.cancelRequested]
        BY <1>2 DEF attach
    <2>2. [NoStream EXCEPT !.session = s, !.loop = "open"] \in ConnectionType
        BY DEF ConnectionType, NoStream
    <2>3. store' \in PageStoreType
        BY <2>1 DEF PageStoreType, Idle, Views
    <2>4. streams' \in [Connection -> ConnectionType]
        BY <2>1, <2>2
    <2>5. Sessioned'
        BY <1>2, <2>1 DEF Sessioned, ConnectionType, NoStream
    <2> QED BY <2>3, <2>4, <2>5
<1> QED BY <1>1, <1>2

LEMMA RewatchType ==
    ASSUME PageShape, showing' \in Session \cup {None}, Rewatch
    PROVE  streams' \in [Connection -> ConnectionType] /\ store' \in PageStoreType /\ Sessioned'
<1> DEFINE now == Watched(ops', showing')
           s == IF now # Watched(ops, showing) THEN now ELSE None
<1>1. s \in Session \cup {None}
    BY DEF Watched
<1>2. attach(s)
    BY DEF Rewatch
<1> HIDE DEF s
<1> QED BY <1>1, <1>2, AttachType DEF PageShape, PageTypeOK, ConnectionType, PageStoreType

LEMMA LoopType ==
    ASSUME streams \in [Connection -> ConnectionType], NEW k \in Connection,
           NEW label \in {"none", "open", "broken", "closing", "settled", "done"}, Loop(k, label)
    PROVE  /\ streams' \in [Connection -> ConnectionType]
           /\ streams'[k].loop = label
           /\ \A j \in Connection : /\ streams'[j].session = streams[j].session
                                    /\ j # k => streams'[j] = streams[j]
BY DEF Loop, ConnectionType

LEMMA RefreshType ==
    ASSUME PageTypeOK, NEW S \in SUBSET Session, Refresh(S)
    PROVE  /\ ops' \in [Session -> {"none", "idle", "active", "ended"}]
           /\ details' \in [Session -> Views]
           /\ stale' \subseteq Keys(Session)
<1>1. ops' \in [Session -> {"none", "idle", "active", "ended"}] /\ details' \in [Session -> Views]
    BY DEF Refresh, PageTypeOK, Views
<1>2. Mounted(S) \subseteq Keys(Session)
    BY DEF Mounted, Keys
<1> QED BY <1>1, <1>2 DEF Refresh, PageTypeOK

LEMMA PageShapeInit == PageInit => PageShape
<1> SUFFICES ASSUME PageInit PROVE PageShape
    OBVIOUS
<1>1. streams \in [Connection -> ConnectionType] /\ Sessioned
    BY DEF PageInit, NoStream, ConnectionType, Sessioned
<1>2. store \in PageStoreType
    BY DEF PageInit, Idle, PageStoreType, Views
<1> QED BY <1>1, <1>2, PageAssumption DEF PageInit, PageShape, PageTypeOK, ConnectionType, PageStoreType, Views, Keys

LEMMA PageShapeStep == PageShape /\ [PageNext]_pageVars => PageShape'
<1> SUFFICES ASSUME PageShape, [PageNext]_pageVars PROVE PageShape'
    OBVIOUS
<1>0. PageTypeOK /\ Sessioned /\ streams \in [Connection -> ConnectionType] /\ store \in PageStoreType
    BY DEF PageShape, PageTypeOK, ConnectionType, PageStoreType
<1>1. ASSUME NEW s \in Session, SessionEnds(s) PROVE PageShape'
    BY <1>0, <1>1 DEF SessionEnds, caches, PageTypeOK, PageShape, Sessioned
<1>2. ASSUME NEW s \in Session, FetchOperation(s) PROVE PageShape'
    <2>1. streams' \in [Connection -> ConnectionType] /\ store' \in PageStoreType /\ Sessioned'
        BY <1>0, <1>2, RewatchType DEF FetchOperation, PageTypeOK
    <2>2. ops' \in [Session -> {"none", "idle", "active", "ended"}]
        BY <1>0, <1>2 DEF FetchOperation, OperationView, PageTypeOK
    <2> QED BY <1>0, <1>2, <2>1, <2>2 DEF FetchOperation, PageTypeOK, PageShape, ConnectionType, PageStoreType
<1>3. ASSUME NEW s \in Session, FetchExecution(s) PROVE PageShape'
    <2>1. details' \in [Session -> Views]
        BY <1>0, <1>3 DEF FetchExecution, ViewOf, PageTypeOK, Views
    <2> QED BY <1>0, <1>3, <2>1 DEF FetchExecution, PageTypeOK, PageShape, Sessioned
<1>4. ASSUME NEW s \in Session, Open(s) PROVE PageShape'
    <2>1. streams' \in [Connection -> ConnectionType] /\ store' \in PageStoreType /\ Sessioned'
        BY <1>4, RewatchType DEF Open
    <2> QED BY <1>0, <1>4, <2>1 DEF Open, PageTypeOK, PageShape, ConnectionType, PageStoreType
<1>5. ASSUME NEW s \in Session, Start(s) PROVE PageShape'
    <2>1. streams' \in [Connection -> ConnectionType] /\ store' \in PageStoreType /\ Sessioned'
        BY <1>0, <1>5, AttachType DEF Start
    <2>2. details' \in [Session -> Views] /\ stale' \subseteq Keys(Session)
        BY <1>0, <1>5 DEF Start, PageTypeOK, Views, Keys
    <2> QED BY <1>0, <1>5, <2>1, <2>2 DEF Start, PageTypeOK, PageShape, ConnectionType, PageStoreType
<1>6. ASSUME NEW s \in Session, Cancel(s) PROVE PageShape'
    <2>1. store' \in PageStoreType
        BY <1>0, <1>6 DEF Cancel, PageStoreType
    <2>2. /\ sessions' \in [Session -> {"absent", "live", "asked", "ended"}]
          /\ canceling' \in [Session -> Views]
        BY <1>0, <1>6 DEF Cancel, Live, PageTypeOK, Views
    <2> QED BY <1>0, <1>6, <2>1, <2>2 DEF Cancel, caches, PageTypeOK, PageShape, Sessioned, PageStoreType
<1>7. ASSUME NEW s \in Session, CancelAnswers(s) PROVE PageShape'
    <2>1. canceling' \in [Session -> Views]
        BY <1>0, <1>7 DEF CancelAnswers, PageTypeOK, Views
    <2>2. /\ details' \in [Session -> Views] /\ stale' \subseteq Keys(Session)
          /\ ops' \in [Session -> {"none", "idle", "active", "ended"}]
        <3>1. CASE showing = s
            <4>1. [details EXCEPT ![s] = canceling[s]] \in [Session -> Views]
                BY <1>0 DEF PageTypeOK
            <4> QED BY <1>0, <1>7, <3>1, <4>1 DEF CancelAnswers, PageTypeOK, Keys
        <3>2. CASE showing # s
            BY <1>0, <1>7, <3>2, RefreshType DEF CancelAnswers
        <3> QED BY <3>1, <3>2
    <2> QED BY <1>0, <1>7, <2>1, <2>2 DEF CancelAnswers, PageTypeOK, PageShape, Sessioned
<1>8. ASSUME NEW k \in Connection, ReadView(k) PROVE PageShape'
    <2>1. ViewOf(streams[k].session) \in Views
        BY <1>0, <1>8 DEF ReadView, Sessioned, ViewOf, PageTypeOK, Views
    <2>2. store' \in PageStoreType /\ streams' \in [Connection -> ConnectionType] /\ Sessioned'
        BY <1>0, <1>8, <2>1 DEF ReadView, PageStoreType, ConnectionType, Sessioned
    <2> QED BY <1>0, <1>8, <2>2 DEF ReadView, caches, PageTypeOK, PageShape, ConnectionType, PageStoreType
<1>9. ASSUME NEW k \in Connection, ReadTerminal(k) \/ ReadError(k) \/ StreamBreaks(k) \/ LoopEnds(k)
      PROVE  PageShape'
    <2>1. PICK label \in {"broken", "closing", "settled"} : Loop(k, label) /\ streams[k].loop # "none"
        BY <1>9 DEF ReadTerminal, ReadError, StreamBreaks, LoopEnds
    <2>2. streams' \in [Connection -> ConnectionType] /\ Sessioned'
        BY <1>0, <2>1, LoopType DEF Sessioned
    <2>3. store' \in PageStoreType
        BY <1>0, <1>9 DEF ReadTerminal, ReadError, StreamBreaks, LoopEnds, PageStoreType, Views
    <2>4. breaks' \in 0 .. MaxBreaks
        BY <1>0, <1>9, PageAssumption DEF ReadTerminal, ReadError, StreamBreaks, LoopEnds, PageTypeOK
    <2> QED BY <1>0, <1>9, <2>2, <2>3, <2>4
            DEF ReadTerminal, ReadError, StreamBreaks, LoopEnds, caches, PageTypeOK, PageShape, ConnectionType, PageStoreType
<1>10. ASSUME NEW k \in Connection, Synchronise(k) PROVE PageShape'
    <2>1. streams' \in [Connection -> ConnectionType] /\ Sessioned'
        BY <1>0, <1>10, LoopType DEF Sessioned, Synchronise
    <2>2. /\ details' \in [Session -> Views] /\ stale' \subseteq Keys(Session)
          /\ ops' \in [Session -> {"none", "idle", "active", "ended"}]
        <3>1. streams[k].session \in Session
            BY <1>0, <1>10 DEF Synchronise, Sessioned
        <3>2. \/ \E S \in SUBSET Session : Refresh(S)
              \/ UNCHANGED caches
            BY <1>10, <3>1 DEF Synchronise
        <3> QED BY <1>0, <3>2, RefreshType DEF caches, PageTypeOK
    <2> QED BY <1>0, <1>10, <2>1, <2>2 DEF Synchronise, PageTypeOK, PageShape, ConnectionType
<1>11. CASE UNCHANGED pageVars
    BY <1>0, <1>11 DEF pageVars, caches, PageTypeOK, PageShape, Sessioned
<1> QED BY <1>1, <1>2, <1>3, <1>4, <1>5, <1>6, <1>7, <1>8, <1>9, <1>10, <1>11 DEF PageNext, Fetch, Reading

LEMMA PageKeepsShape == PageSpec => []PageShape
BY PageShapeInit, PageShapeStep, PTL DEF PageSpec

\* The values every variable keeps to: what a query caches is what the server
\* answers, and the store's controller is a connection the client made.
THEOREM PageTypeCorrect == PageSpec => []PageTypeOK
<1>1. PageShape => PageTypeOK
    BY DEF PageShape
<1> QED BY <1>1, PageKeepsShape, PTL

-----------------------------------------------------------------------------
(* The store follows one stream.                                           *)

\* Whoever attaches finds no stream followed: the new one is the only open one.
LEMMA AttachFollows ==
    ASSUME PageShape, LiveStreamIsFollowed, NEW s \in Session \cup {None}, attach(s)
    PROVE  LiveStreamIsFollowed'
<1>1. CASE store.status = "streaming" \/ s = None
    BY <1>1 DEF attach, LiveStreamIsFollowed
<1>2. CASE ~(store.status = "streaming" \/ s = None)
    <2>1. PICK k \in Connection :
              /\ streams' = [streams EXCEPT ![k] = [NoStream EXCEPT !.session = s, !.loop = "open"]]
              /\ store' = [Idle EXCEPT !.status = "streaming", !.exec = s, !.controller = k,
                                       !.cancelRequested = store.cancelRequested]
        BY <1>2 DEF attach
    <2>2. \A j \in Connection : streams[j].loop # "open"
        BY <1>2 DEF LiveStreamIsFollowed
    <2> QED BY <2>1, <2>2 DEF LiveStreamIsFollowed, NoStream, Idle, PageShape, PageTypeOK
<1> QED BY <1>1, <1>2

LEMMA RewatchFollows ==
    ASSUME PageShape, LiveStreamIsFollowed, showing' \in Session \cup {None}, Rewatch
    PROVE  LiveStreamIsFollowed'
<1> DEFINE now == Watched(ops', showing')
           s == IF now # Watched(ops, showing) THEN now ELSE None
<1>1. s \in Session \cup {None}
    BY DEF Watched
<1>2. attach(s)
    BY DEF Rewatch
<1> HIDE DEF s
<1> QED BY <1>1, <1>2, AttachFollows

LEMMA FollowsStep == PageShape /\ LiveStreamIsFollowed /\ [PageNext]_pageVars => LiveStreamIsFollowed'
<1> SUFFICES ASSUME PageShape, LiveStreamIsFollowed, [PageNext]_pageVars PROVE LiveStreamIsFollowed'
    OBVIOUS
<1> USE DEF LiveStreamIsFollowed
<1>0. streams \in [Connection -> ConnectionType] /\ store \in PageStoreType
    BY DEF PageShape, PageTypeOK, ConnectionType, PageStoreType
<1>1. ASSUME NEW s \in Session, SessionEnds(s) \/ FetchExecution(s) \/ CancelAnswers(s)
      PROVE  LiveStreamIsFollowed'
    BY <1>1 DEF SessionEnds, FetchExecution, CancelAnswers
<1>2. ASSUME NEW s \in Session, FetchOperation(s) \/ Open(s) PROVE LiveStreamIsFollowed'
    BY <1>2, RewatchFollows DEF FetchOperation, Open, PageShape, PageTypeOK
<1>3. ASSUME NEW s \in Session, Start(s) PROVE LiveStreamIsFollowed'
    BY <1>3, AttachFollows DEF Start
<1>4. ASSUME NEW s \in Session, Cancel(s) PROVE LiveStreamIsFollowed'
    BY <1>0, <1>4 DEF Cancel, PageStoreType
<1>5. ASSUME NEW k \in Connection, ReadView(k) PROVE LiveStreamIsFollowed'
    BY <1>0, <1>5 DEF ReadView, Mine, PageStoreType, ConnectionType
\* The stream that ends is the one followed, so no other one is open; one that is
\* not the store's says nothing.
<1>6. ASSUME NEW k \in Connection, ReadTerminal(k) \/ ReadError(k) \/ LoopEnds(k)
      PROVE  LiveStreamIsFollowed'
    <2>1. PICK label \in {"closing", "settled"} : Loop(k, label)
        BY <1>6 DEF ReadTerminal, ReadError, LoopEnds
    <2>2. streams'[k].loop # "open" /\ \A j \in Connection \ {k} : streams'[j] = streams[j]
        BY <1>0, <2>1, LoopType
    <2>3. Mine(k) \/ UNCHANGED store
        BY <1>6 DEF ReadTerminal, ReadError, LoopEnds
    <2> QED BY <2>2, <2>3 DEF Mine
<1>7. ASSUME NEW k \in Connection, StreamBreaks(k) \/ Synchronise(k) PROVE LiveStreamIsFollowed'
    <2>1. UNCHANGED store /\ \E label \in {"broken", "done"} : Loop(k, label)
        BY <1>7 DEF StreamBreaks, Synchronise
    <2> QED BY <1>0, <2>1, LoopType
<1>8. CASE UNCHANGED pageVars
    BY <1>8 DEF pageVars
<1> QED BY <1>1, <1>2, <1>3, <1>4, <1>5, <1>6, <1>7, <1>8 DEF PageNext, Fetch, Reading

\* One stream at a time is followed: while the loop over it runs, the store says it is
\* streaming that session, and no stream that ended before can tell otherwise, however
\* many pages attach (workset-execution.ts: the controller guards of attach).
THEOREM OneStreamIsFollowed == PageSpec => []LiveStreamIsFollowed
<1>1. PageInit => LiveStreamIsFollowed
    BY DEF PageInit, LiveStreamIsFollowed, NoStream
<1> QED BY <1>1, FollowsStep, PageKeepsShape, PTL DEF PageSpec

-----------------------------------------------------------------------------
(* The caches are calibrated.                                              *)

\* What is cached of a session is its end, or is being fetched again.
Calibrated(s) ==
    /\ ops[s] \in {"none", "ended"} \/ <<"operation", s>> \in stale
    /\ details[s] \in {"none", "ended"} \/ <<"execution", s>> \in stale

\* The stream that told the end of the session the store is on: it synchronises the
\* caches as its last step.
ToldTheEnd(k) ==
    /\ streams[k].session = store.exec
    /\ streams[k].loop \in {"closing", "settled", "done"}
    /\ streams[k].loop = "done" => Calibrated(store.exec)

EndIsTold ==
    store.status = "ended" =>
        /\ store.exec \in Session
        /\ sessions[store.exec] = "ended"
        /\ store.terminal = "event"
        /\ \E k \in Connection : ToldTheEnd(k)

\* Queries that are refreshed are dropped or fetched again, whatever they said; those
\* of the other sessions are left alone.
LEMMA RefreshCalibrates ==
    ASSUME PageShape, NEW S \in SUBSET Session, Refresh(S), UNCHANGED showing, NEW s \in Session,
           s \in S \/ Calibrated(s)
    PROVE  Calibrated(s)'
<1>1. CASE s \in S /\ s # showing
    BY <1>1 DEF Refresh, Calibrated
<1>2. CASE s \in S /\ s = showing
    <2>1. ops'[s] = ops[s] /\ details'[s] = details[s]
        BY <1>2 DEF Refresh
    <2>2. /\ ops[s] = "none" \/ <<"operation", s>> \in Mounted(S)
          /\ details[s] = "none" \/ <<"execution", s>> \in Mounted(S)
        BY <1>2 DEF Mounted, Keys, Cached
    <2> QED BY <2>1, <2>2 DEF Refresh, Calibrated
<1>3. CASE s \notin S
    <2>1. ops'[s] = ops[s] /\ details'[s] = details[s]
        BY <1>3 DEF Refresh
    <2>2. \A kind \in {"operation", "execution"} : <<kind, s>> \in stale => <<kind, s>> \in stale'
        BY <1>3 DEF Refresh, Keys
    <2> QED BY <1>3, <2>1, <2>2 DEF Calibrated
<1> QED BY <1>1, <1>2, <1>3

\* A page that attaches leaves the store streaming, or leaves everything alone.
LEMMA AttachStreams ==
    ASSUME NEW s, attach(s)
    PROVE  UNCHANGED <<store, streams>> \/ store'.status = "streaming"
BY DEF attach, Idle

\* The caches of a session that ended only come to say so.
LEMMA CachesStayCalibrated ==
    ASSUME PageShape, NEW e \in Session, sessions[e] = "ended", Calibrated(e),
           NEW s \in Session, Fetch(s) \/ Open(s) \/ Start(s) \/ Cancel(s) \/ CancelAnswers(s) \/ SessionEnds(s)
    PROVE  Calibrated(e)'
<1>1. CASE FetchOperation(s)
    <2>1. CASE s = e
        BY <1>1, <2>1 DEF FetchOperation, OperationView, Live, Calibrated, PageShape, PageTypeOK
    <2>2. CASE s # e
        <3>1. <<"operation", e>> # <<"operation", s>> /\ <<"execution", e>> # <<"operation", s>>
            BY <2>2
        <3> QED BY <1>1, <2>2, <3>1 DEF FetchOperation, Calibrated, PageShape, PageTypeOK
    <2> QED BY <2>1, <2>2
<1>2. CASE FetchExecution(s)
    <2>1. CASE s = e
        BY <1>2, <2>1 DEF FetchExecution, ViewOf, Calibrated, PageShape, PageTypeOK
    <2>2. CASE s # e
        <3>1. <<"execution", e>> # <<"execution", s>> /\ <<"operation", e>> # <<"execution", s>>
            BY <2>2
        <3> QED BY <1>2, <2>2, <3>1 DEF FetchExecution, Calibrated, PageShape, PageTypeOK
    <2> QED BY <2>1, <2>2
<1>3. CASE Open(s) \/ Cancel(s) \/ SessionEnds(s)
    BY <1>3 DEF Open, Cancel, SessionEnds, caches, Calibrated
<1>4. CASE Start(s)
    <2>1. s # e
        BY <1>4 DEF Start
    <2> QED BY <1>4, <2>1 DEF Start, Calibrated, PageShape, PageTypeOK
<1>5. CASE CancelAnswers(s)
    <2>1. CASE showing # s
        <3>1. Refresh({s}) /\ UNCHANGED showing
            BY <1>5, <2>1 DEF CancelAnswers
        <3> QED BY <3>1, RefreshCalibrates
    <2>2. CASE showing = s /\ s = e
        BY <1>5, <2>2 DEF CancelAnswers, Calibrated, Keys
    <2>3. CASE showing = s /\ s # e
        BY <1>5, <2>3 DEF CancelAnswers, Calibrated, PageShape, PageTypeOK
    <2> QED BY <2>1, <2>2, <2>3
<1> QED BY <1>1, <1>2, <1>3, <1>4, <1>5 DEF Fetch

LEMMA EndIsToldStep ==
    PageShape /\ LiveStreamIsFollowed /\ EndIsTold /\ [PageNext]_pageVars => EndIsTold'
<1> SUFFICES ASSUME PageShape, LiveStreamIsFollowed, EndIsTold, [PageNext]_pageVars, store'.status = "ended"
             PROVE  /\ store'.exec \in Session
                    /\ sessions'[store'.exec] = "ended"
                    /\ store'.terminal = "event"
                    /\ \E k \in Connection : ToldTheEnd(k)'
    BY DEF EndIsTold
<1> DEFINE e == store.exec
<1>0. streams \in [Connection -> ConnectionType] /\ store \in PageStoreType
    BY DEF PageShape, PageTypeOK, ConnectionType, PageStoreType
\* What pages, users and the server do leaves the ended session and its stream alone.
<1>1. ASSUME NEW s \in Session, Fetch(s) \/ Open(s) \/ Start(s) \/ Cancel(s) \/ CancelAnswers(s) \/ SessionEnds(s)
      PROVE  /\ store'.exec \in Session /\ sessions'[store'.exec] = "ended" /\ store'.terminal = "event"
             /\ \E k \in Connection : ToldTheEnd(k)'
    <2>1. \/ UNCHANGED <<store, streams>>
          \/ store'.status = "streaming"
          \/ UNCHANGED streams /\ Cancel(s)
        BY <1>1, AttachStreams
           DEF Fetch, FetchOperation, FetchExecution, Open, Start, Cancel, CancelAnswers, SessionEnds, Rewatch
    <2>2. /\ store.status = "ended" /\ store'.exec = e /\ store'.terminal = store.terminal
          /\ UNCHANGED streams
        BY <1>0, <2>1 DEF Cancel, PageStoreType
    <2>3. PICK k \in Connection : e \in Session /\ sessions[e] = "ended" /\ store.terminal = "event" /\ ToldTheEnd(k)
        BY <2>2 DEF EndIsTold
    <2>4. sessions'[e] = "ended"
        BY <1>1, <2>3 DEF Fetch, FetchOperation, FetchExecution, Open, Start, Cancel, CancelAnswers,
                          SessionEnds, Live, PageShape, PageTypeOK
    <2>5. PICK x \in Session : x = e
        BY <2>3
    <2>6. Calibrated(x) => Calibrated(x)'
        BY <1>1, <2>3, <2>5, CachesStayCalibrated
    <2>7. ToldTheEnd(k)'
        BY <2>2, <2>3, <2>5, <2>6 DEF ToldTheEnd, Calibrated
    <2> QED BY <2>2, <2>3, <2>4, <2>7
<1>2. ASSUME NEW k \in Connection, ReadTerminal(k)
      PROVE  /\ store'.exec \in Session /\ sessions'[store'.exec] = "ended" /\ store'.terminal = "event"
             /\ \E j \in Connection : ToldTheEnd(j)'
    <2>1. store.exec = streams[k].session /\ streams[k].session \in Session
        BY <1>2 DEF ReadTerminal, LiveStreamIsFollowed, PageShape, Sessioned
    <2>2. store'.exec = store.exec /\ store'.terminal = "event"
        BY <1>0, <1>2 DEF ReadTerminal, PageStoreType
    <2>3. streams'[k].loop = "closing" /\ streams'[k].session = streams[k].session
        BY <1>0, <1>2, LoopType DEF ReadTerminal
    <2> QED BY <1>2, <2>1, <2>2, <2>3 DEF ReadTerminal, ToldTheEnd
<1>3. ASSUME NEW k \in Connection, ReadView(k) \/ ReadError(k)
      PROVE  FALSE
    <2>1. store.status = "streaming" \/ ReadError(k)
        BY <1>3 DEF ReadView, LiveStreamIsFollowed
    <2> QED BY <1>0, <1>3, <2>1 DEF ReadView, ReadError, PageStoreType
<1>4. ASSUME NEW k \in Connection, StreamBreaks(k) \/ LoopEnds(k)
      PROVE  /\ store'.exec \in Session /\ sessions'[store'.exec] = "ended" /\ store'.terminal = "event"
             /\ \E j \in Connection : ToldTheEnd(j)'
    <2>1. /\ store.status = "ended" /\ store'.exec = e /\ store'.terminal = store.terminal
          /\ UNCHANGED <<sessions, caches>>
        BY <1>0, <1>4 DEF StreamBreaks, LoopEnds, PageStoreType
    <2>2. PICK j \in Connection : e \in Session /\ sessions[e] = "ended" /\ store.terminal = "event" /\ ToldTheEnd(j)
        BY <2>1 DEF EndIsTold
    <2>3. PICK label \in {"broken", "settled"} :
              /\ Loop(k, label) /\ streams[k].loop \in {"open", "closing", "broken"}
              /\ label = "broken" => streams[k].loop = "open"
        BY <1>4 DEF StreamBreaks, LoopEnds
    <2>4. /\ streams'[k].loop = label
          /\ streams'[j].session = streams[j].session
          /\ j # k => streams'[j] = streams[j]
        BY <1>0, <2>3, LoopType
    <2>5. Calibrated(e)' = Calibrated(e)
        BY <2>1 DEF Calibrated, caches
    <2>6. ToldTheEnd(j)'
        BY <2>1, <2>2, <2>3, <2>4, <2>5 DEF ToldTheEnd
    <2> QED BY <2>1, <2>2, <2>6
<1>5. ASSUME NEW k \in Connection, Synchronise(k)
      PROVE  /\ store'.exec \in Session /\ sessions'[store'.exec] = "ended" /\ store'.terminal = "event"
             /\ \E j \in Connection : ToldTheEnd(j)'
    <2>1. UNCHANGED <<sessions, store, showing>>
        BY <1>5 DEF Synchronise
    <2>2. PICK j \in Connection : e \in Session /\ sessions[e] = "ended" /\ store.terminal = "event" /\ ToldTheEnd(j)
        BY <2>1 DEF EndIsTold
    <2>3. /\ streams'[k].loop = "done" /\ streams'[j].session = streams[j].session
          /\ j # k => streams'[j] = streams[j]
        BY <1>0, <1>5, LoopType DEF Synchronise
    <2>4. CASE store.exec = streams[k].session
        <3>1. Refresh({e})
            BY <1>5, <2>2, <2>4 DEF Synchronise
        <3>2. Calibrated(e)'
            BY <2>1, <2>2, <3>1, RefreshCalibrates
        <3> QED BY <2>1, <2>2, <2>3, <3>2 DEF ToldTheEnd, Calibrated
    <2>5. CASE store.exec # streams[k].session
        <3>1. j # k /\ UNCHANGED caches
            BY <1>5, <2>2, <2>5 DEF Synchronise, ToldTheEnd
        <3>2. Calibrated(e)' = Calibrated(e)
            BY <2>1, <3>1 DEF Calibrated, caches
        <3> QED BY <2>1, <2>2, <2>3, <3>1, <3>2 DEF ToldTheEnd
    <2> QED BY <2>4, <2>5
<1>6. CASE UNCHANGED pageVars
    <2>1. UNCHANGED <<sessions, store, streams, caches>>
        BY <1>6 DEF pageVars
    <2> QED BY <2>1 DEF EndIsTold, ToldTheEnd, Calibrated, caches
<1> QED BY <1>1, <1>2, <1>3, <1>4, <1>5, <1>6 DEF PageNext, Reading

\* Once the end of a session was synchronised, whatever its page reads from the caches
\* is that end, also when the user was elsewhere when it came (cache-sync.ts: "inactive
\* members are removed, so the next mount cold-fetches").
THEOREM CachesSayTheEnd == PageSpec => []CachesAreCalibrated
<1>1. PageInit => EndIsTold
    BY DEF PageInit, Idle, EndIsTold
<1>2. EndIsTold => CachesAreCalibrated
    <2> SUFFICES ASSUME EndIsTold, store.status = "ended",
                        \A k \in Connection : streams[k].session = store.exec => streams[k].loop = "done",
                        Keys({store.exec}) \cap stale = {}
                 PROVE  ops[store.exec] \in {"none", "ended"} /\ details[store.exec] \in {"none", "ended"}
        BY DEF CachesAreCalibrated
    <2>1. Calibrated(store.exec)
        BY DEF EndIsTold, ToldTheEnd
    <2>2. <<"operation", store.exec>> \notin stale /\ <<"execution", store.exec>> \notin stale
        BY DEF Keys
    <2> QED BY <2>1, <2>2 DEF Calibrated
<1> QED BY <1>1, <1>2, EndIsToldStep, PageKeepsShape, OneStreamIsFollowed, PTL DEF PageSpec
=============================================================================
