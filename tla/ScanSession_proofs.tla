------------------------- MODULE ScanSession_proofs --------------------------
(***************************************************************************)
(* Proofs about ScanSession for every set of scans, every tree, every      *)
(* capacity of the channel and of a batch, and every disk.  The invariant  *)
(* follows the entries a scan found from the listing that read them to     *)
(* the merge, and the cause of a failure to the row that names it.         *)
(***************************************************************************)
EXTENDS ScanSession, FiniteSetTheorems, TLAPS

-----------------------------------------------------------------------------
(* The invariant.                                                          *)

\* The states of a scan's two goroutines and of its history.
Entry == Paths \X Nat
Listing == [dir : Dirs, left : SUBSET Paths, hold : SUBSET Entry]
WalkType == [st : {"walking", "failing", "closed"}, todo : SUBSET Dirs,
             open : SUBSET Listing, err : {NoErr, Canceled, "walk"}]
PipeType == [chan : Seq(Entry), batch : Seq(Entry), st : {"draining", "done"},
             failed : BOOLEAN]
Kinds == {"walk", "write", "status", "cleanup", "stale", "merge", "outcome"}
LogType == [faults : SUBSET Kinds, changed : SUBSET Files, absent : SUBSET Files,
            merged : BOOLEAN, result : {"none", "completed", "failed", "canceled"}]

\* The types of the state, those TypeOK leaves out included.
WalksFit ==
    /\ walk \in [Scans -> WalkType]
    /\ \A s \in Scans : IsFiniteSet(walk[s].open) /\ Cardinality(walk[s].open) <= Width(s)
PipesFit ==
    /\ pipe \in [Scans -> PipeType]
    /\ \A s \in Scans : Len(pipe[s].chan) <= QueueSize /\ Len(pipe[s].batch) <= BatchSize
LogsFit == log \in [Scans -> LogType]
EntriesFit == entries \in [Paths -> [ver : Nat, rate : Nat]]
StagingFits == staging \in [Scans -> SUBSET Entry]
RowType == [status : {"none", "running", "merging", "completed", "failed", "canceled",
                      "interrupted"}, code : Codes]
RowsFit == row \in [Scans -> RowType]
PlacesFit == pc \in [Scans -> Places]
OthersFit ==
    /\ load \in Workloads /\ disk \in [Files -> Nat] /\ edits \in Nat /\ crashes \in Nat
    /\ library \in {"none", "completed", "failed", "canceled"}
    /\ asked \subseteq stop /\ stop \subseteq Scans
    /\ (probe = NoProbe \/ (probe.file \in Files /\ probe.ver \in Nat))
Shape ==
    /\ WalksFit /\ PipesFit /\ LogsFit /\ EntriesFit /\ StagingFits /\ RowsFit /\ PlacesFit
    /\ OthersFit

EndedPlaces == {"return", "returned", "dead"}
Merging == {"pipeline", "start merge", "merge"}

\* The goroutines of a scan end before its caller goes on, and what ended them
\* is known: an error of the walk is recorded as one, a canceled context was
\* canceled by the caller, by the consumer or by the walk itself.
Goroutines(s) ==
    LET hit == log[s].faults IN
    /\ walk[s].st = "walking" => walk[s].err = NoErr
    /\ walk[s].st = "failing" => walk[s].err # NoErr
    /\ walk[s].st = "closed" => walk[s].open = {}
    /\ pc[s] # "pipeline" => walk[s].st = "closed" /\ pipe[s].st = "done"
    /\ pipe[s].st = "draining" => ~pipe[s].failed
    /\ pipe[s].st = "done" /\ ~pipe[s].failed =>
         walk[s].st = "closed" /\ pipe[s].chan = <<>> /\ pipe[s].batch = <<>>
    /\ pc[s] = "pipeline" =>
         /\ hit \subseteq {"walk", "write"}
         /\ ("walk" \in hit <=> walk[s].err = "walk")
         /\ ("write" \in hit <=> pipe[s].failed)
         /\ s \in stop => \/ s \in asked \/ pipe[s].failed
                          \/ (walk[s].st = "closed" /\ walk[s].err # NoErr)
         /\ walk[s].err = Canceled => s \in asked \/ pipe[s].failed

\* What the caller knows at each of its statements.
CallerKnows(s) ==
    LET hit == log[s].faults IN
    /\ pc[s] = "idle" => s \notin asked /\ s \notin stop /\ hit = {} /\ staging[s] = {}
    /\ pc[s] \in {"clean failed", "record failed"} =>
         /\ (walk[s].err = "walk" \/ pipe[s].failed)
         /\ ("walk" \in hit <=> walk[s].err = "walk")
         /\ (pipe[s].failed => "write" \in hit)
    /\ pc[s] \in {"record canceled", "clean canceled"} => s \in asked
    /\ pc[s] \in {"start merge", "merge"} =>
         hit = {} /\ walk[s].err = NoErr /\ ~pipe[s].failed
    /\ pc[s] = "complete" => hit \subseteq {"stale"} /\ log[s].merged
    /\ pc[s] = "merge failed" => "merge" \in hit
    /\ pc[s] \in {"idle", "pipeline", "record canceled", "clean canceled", "clean failed",
                  "record failed", "start merge", "merge"} => ~log[s].merged

\* The row of a scan, and why it may be left unfinished.
RowFollows(s) ==
    LET hit == log[s].faults IN
    /\ pc[s] = "idle" => row[s].status = "none"
    /\ pc[s] \in {"pipeline", "record canceled", "clean failed", "record failed", "start merge"} =>
         row[s].status = "running"
    /\ pc[s] \in {"merge", "complete", "merge failed"} => row[s].status = "merging"
    /\ pc[s] = "clean canceled" => row[s].status = "canceled" \/ "status" \in hit
    /\ row[s].status \in {"none", "running", "merging", "completed"} => row[s].code = "none"
    /\ row[s].status \in {"failed", "completed"} => pc[s] \in EndedPlaces
    /\ row[s].status = "canceled" =>
         /\ row[s].code = "SCAN_CANCELLED" /\ s \in asked /\ ~log[s].merged
         /\ pc[s] \in EndedPlaces \cup {"clean canceled"}
    /\ row[s].status = "completed" => log[s].merged /\ hit \subseteq {"stale", "outcome"}
    /\ row[s].code = "SCAN_WALK_FAILED" => "walk" \in hit
    /\ row[s].code = "STAGING_WRITE_FAILED" => "write" \in hit /\ "walk" \notin hit
    /\ row[s].code = "MERGE_FAILED" => "merge" \in hit
    /\ row[s].status = "interrupted" => row[s].code = "INTERRUPTED" /\ crashes > 0
                                        /\ pc[s] \in {"returned", "dead"}
    /\ pc[s] \in {"return", "returned"} /\ row[s].status \in {"running", "merging"} =>
         "status" \in hit

\* Staged rows are left only where a write failed on the way out.
StagingFollows(s) ==
    /\ pc[s] = "record failed" /\ staging[s] # {} => "cleanup" \in log[s].faults
    /\ pc[s] = "complete" => staging[s] = {}
    /\ pc[s] \in {"return", "returned"} /\ staging[s] # {} =>
         log[s].faults \cap {"cleanup", "status", "merge"} # {}

\* The entries a scan read: in the hands of its workers, on their way, or staged.
Carried(s) ==
    staging[s] \cup Elements(pipe[s].batch) \cup Elements(pipe[s].chan)
      \cup UNION {l.hold : l \in walk[s].open}
Seen(s, p) == \E e \in Carried(s) : e[1] = p

\* What a scan carries is what it found below its scope, and is still there
\* unless the file changed; what it calls absent was.
Truthful(s) ==
    pc[s] \in Merging =>
        /\ \A f \in Files : disk[f] = 0 => f \in log[s].absent
        /\ \A f \in log[s].absent : f \notin log[s].changed => disk[f] = 0
        /\ \A d \in walk[s].todo : d = Scope[s] \/ d \in InScope(s)
        /\ \A l \in walk[s].open :
             /\ l.dir = Scope[s] \/ l.dir \in InScope(s)
             /\ \A p \in l.left : ParentOf[p] = l.dir
             /\ \A e1, e2 \in l.hold : e1 = e2
        /\ \A e \in Carried(s) :
             /\ e[1] \in InScope(s) /\ e[2] # 0
             /\ (e[1] \in Files \ log[s].changed => e[2] = disk[e[1]])

\* Every directory the scan found is done, or the walk has still to come to it.
Found(s, p) == Seen(s, p) \/ p \in log[s].absent
Whole(s) ==
    pc[s] \in Merging /\ walk[s].err = NoErr /\ ~pipe[s].failed =>
        /\ \A l \in walk[s].open, p \in Paths :
             ParentOf[p] = l.dir => p \in l.left \/ Found(s, p)
        /\ \A d \in Dirs : d = Scope[s] \/ Seen(s, d) =>
             \/ d \in walk[s].todo
             \/ \E l \in walk[s].open : l.dir = d \/ (d \in Paths /\ l.dir = ParentOf[d])
             \/ \A p \in Paths : ParentOf[p] = d => Found(s, p)
        /\ walk[s].st = "closed" => walk[s].todo = {}

ScanInv(s) ==
    /\ Goroutines(s) /\ CallerKnows(s) /\ RowFollows(s) /\ StagingFollows(s)
    /\ Truthful(s) /\ Whole(s)
SessionInv == Shape /\ \A s \in Scans : ScanInv(s)

\* Nothing of scan t moves.
Unmoved(t) ==
    /\ walk'[t] = walk[t] /\ pipe'[t] = pipe[t] /\ staging'[t] = staging[t]
    /\ row'[t] = row[t] /\ pc'[t] = pc[t] /\ log'[t] = log[t]
    /\ (t \in asked' <=> t \in asked) /\ (t \in stop' <=> t \in stop)

-----------------------------------------------------------------------------
(* Facts the steps keep needing.                                           *)

LEMMA ShapeIsTyped ==
    ASSUME Shape
    PROVE  TypeOK
<1>1. \A s \in Scans : /\ walk[s].st \in {"walking", "failing", "closed"}
                       /\ walk[s].todo \subseteq Dirs
                       /\ walk[s].err \in {NoErr, Canceled, "walk"}
    BY DEF Shape, WalksFit, WalkType
<1>2. asked \subseteq Scans /\ asked \subseteq stop
    BY DEF Shape, OthersFit
<1>3. row \in [Scans -> [status : {"none", "running", "merging", "completed", "failed",
                                  "canceled", "interrupted"}, code : Codes]]
    BY DEF Shape, RowsFit, RowType
<1>4. staging \in [Scans -> SUBSET (Paths \X Nat)]
    BY DEF Shape, StagingFits, Entry
<1> QED BY <1>1, <1>2, <1>3, <1>4
        DEF Shape, TypeOK, WalksFit, PipesFit, EntriesFit, PlacesFit, OthersFit

\* The parts of a scan's state.
LEMMA Facts ==
    ASSUME Shape, NEW s \in Scans
    PROVE  /\ walk[s].st \in {"walking", "failing", "closed"}
           /\ walk[s].todo \subseteq Dirs /\ walk[s].open \subseteq Listing
           /\ walk[s].err \in {NoErr, Canceled, "walk"}
           /\ pipe[s].chan \in Seq(Entry) /\ pipe[s].batch \in Seq(Entry)
           /\ pipe[s].st \in {"draining", "done"} /\ pipe[s].failed \in BOOLEAN
           /\ log[s].faults \subseteq Kinds /\ log[s].changed \subseteq Files
           /\ log[s].absent \subseteq Files /\ log[s].merged \in BOOLEAN
           /\ log[s].result \in {"none", "completed", "failed", "canceled"}
           /\ staging[s] \subseteq Entry /\ pc[s] \in Places
           /\ disk \in [Files -> Nat] /\ row[s] \in RowType
<1>1. walk[s] \in WalkType /\ pipe[s] \in PipeType /\ log[s] \in LogType
    BY DEF Shape, WalksFit, PipesFit, LogsFit
<1>2. /\ staging[s] \subseteq Entry /\ pc[s] \in Places /\ disk \in [Files -> Nat]
      /\ row[s] \in RowType
    BY DEF Shape, StagingFits, PlacesFit, OthersFit, RowsFit
<1>3. /\ walk[s].st \in {"walking", "failing", "closed"}
      /\ walk[s].todo \subseteq Dirs /\ walk[s].open \subseteq Listing
      /\ walk[s].err \in {NoErr, Canceled, "walk"}
    BY <1>1 DEF WalkType
<1>4. /\ pipe[s].chan \in Seq(Entry) /\ pipe[s].batch \in Seq(Entry)
      /\ pipe[s].st \in {"draining", "done"} /\ pipe[s].failed \in BOOLEAN
    BY <1>1 DEF PipeType
<1>5. /\ log[s].faults \subseteq Kinds /\ log[s].changed \subseteq Files
      /\ log[s].absent \subseteq Files /\ log[s].merged \in BOOLEAN
      /\ log[s].result \in {"none", "completed", "failed", "canceled"}
    BY <1>1 DEF LogType
<1> QED BY <1>2, <1>3, <1>4, <1>5

LEMMA ListingFacts ==
    ASSUME NEW l \in Listing
    PROVE  l.dir \in Dirs /\ l.left \subseteq Paths /\ l.hold \subseteq Entry
BY DEF Listing

LEMMA Tree ==
    /\ Root \in Dirs /\ Dirs \cap Files = {}
    /\ \A s \in Scans : Scope[s] \in Dirs
    /\ \A p \in Paths : ParentOf[p] \in Dirs
    /\ \A f \in Files : f \in Paths
    /\ \A d \in Dirs \ {Root} : d \in Paths
    /\ \A s \in Scans : InScope(s) \subseteq Paths
BY ScanAssumption DEF Paths, InScope

\* A scan answers for everything in its scope, and in the directories below.
LEMMA ScopeGrows ==
    ASSUME NEW s \in Scans, NEW p \in Paths,
           ParentOf[p] = Scope[s] \/ ParentOf[p] \in InScope(s)
    PROVE  p \in InScope(s)
<1>1. ParentOf[p] \in Dirs /\ Scope[s] \in Dirs
    BY Tree
<1>2. SUFFICES ASSUME NEW S \in SUBSET Dirs, ParentOf[p] \in S, ClosedAbove(S)
               PROVE  Scope[s] \in S
    BY <1>1 DEF InScope, Above
<1>3. CASE ParentOf[p] = Scope[s]
    BY <1>2, <1>3
<1>4. CASE ParentOf[p] \in InScope(s)
  <2>1. ParentOf[p] \in Paths /\ Scope[s] \in Above(ParentOf[p])
      BY <1>4 DEF InScope
  <2>2. ParentOf[p] # Root
      BY <2>1 DEF Paths
  <2>3. ParentOf[ParentOf[p]] \in S
      BY <1>1, <1>2, <2>2 DEF ClosedAbove
  <2> QED BY <2>1, <2>3, <1>2 DEF Above
<1> QED BY <1>3, <1>4

LEMMA NoElements == Elements(<<>>) = {}
BY DEF Elements

LEMMA ElementsOfAppend ==
    ASSUME NEW S, NEW q \in Seq(S), NEW e \in S
    PROVE  Elements(Append(q, e)) = Elements(q) \cup {e}
BY DEF Elements

LEMMA ElementsOfHead ==
    ASSUME NEW S, NEW q \in Seq(S), q # <<>>
    PROVE  Head(q) \in S /\ Elements(q) = {Head(q)} \cup Elements(Tail(q))
<1>1. Len(q) \in Nat /\ Len(q) >= 1 /\ Head(q) = q[1] /\ Len(Tail(q)) = Len(q) - 1
    OBVIOUS
<1>2. \A i \in 1 .. Len(Tail(q)) : Tail(q)[i] = q[i + 1]
    OBVIOUS
<1>3. \A i \in 1 .. Len(q) : i # 1 => i - 1 \in 1 .. Len(Tail(q)) /\ Tail(q)[i - 1] = q[i]
    BY <1>1, <1>2
<1>4. Elements(q) \subseteq {Head(q)} \cup Elements(Tail(q))
    BY <1>1, <1>3 DEF Elements
<1>5. {Head(q)} \cup Elements(Tail(q)) \subseteq Elements(q)
    BY <1>1, <1>2 DEF Elements
<1> QED BY <1>1, <1>4, <1>5

LEMMA ElementsAreEntries ==
    ASSUME NEW S, NEW q \in Seq(S)
    PROVE  Elements(q) \subseteq S
BY DEF Elements

\* The scan that a step does not touch.
LEMMA Bystander ==
    ASSUME NEW t \in Scans, ScanInv(t), Unmoved(t), disk' = disk, crashes' = crashes
    PROVE  ScanInv(t)'
<1> USE DEF Unmoved
<1>1. Goroutines(t)'
    BY DEF ScanInv, Goroutines
<1>2. CallerKnows(t)'
    BY DEF ScanInv, CallerKnows
<1>3. RowFollows(t)'
    BY DEF ScanInv, RowFollows
<1>4. StagingFollows(t)'
    BY DEF ScanInv, StagingFollows
<1>5. Carried(t)' = Carried(t)
    BY DEF Carried, Elements
<1>6. Truthful(t)'
    BY <1>5 DEF ScanInv, Truthful, InScope, Above
<1>7. \A p : (Seen(t, p)' <=> Seen(t, p)) /\ (Found(t, p)' <=> Found(t, p))
    BY <1>5 DEF Seen, Found
<1>8. Whole(t)'
    BY <1>7 DEF ScanInv, Whole
<1> QED BY <1>1, <1>2, <1>3, <1>4, <1>6, <1>8 DEF ScanInv

LEMMA Focus ==
    ASSUME SessionInv, NEW s \in Scans, Shape', ScanInv(s)',
           \A t \in Scans \ {s} : Unmoved(t), disk' = disk, crashes' = crashes
    PROVE  SessionInv'
BY Bystander DEF SessionInv

-----------------------------------------------------------------------------
(* The goroutines: what their steps have in common.                        *)

\* A step of the pipeline: only the goroutines of scan s and its history move.
Pipeline(s) ==
    /\ \A t \in Scans \ {s} : Unmoved(t)
    /\ UNCHANGED <<load, disk, edits, entries, row, library, pc, asked, probe, crashes>>

LEMMA PipelineFits ==
    ASSUME SessionInv, NEW s \in Scans, Pipeline(s), WalksFit', PipesFit', LogsFit',
           StagingFits', stop' \in {stop, stop \cup {s}}
    PROVE  Shape'
<1>1. EntriesFit' /\ RowsFit' /\ PlacesFit'
    BY DEF SessionInv, Shape, Pipeline, EntriesFit, RowsFit, PlacesFit
<1>2. OthersFit'
    BY DEF SessionInv, Shape, Pipeline, OthersFit
<1> QED BY <1>1, <1>2 DEF Shape

LEMMA WalksKept ==
    ASSUME WalksFit, NEW s \in Scans, walk' = [walk EXCEPT ![s] = walk'[s]],
           walk'[s] \in WalkType, IsFiniteSet(walk'[s].open),
           Cardinality(walk'[s].open) <= Width(s)
    PROVE  WalksFit'
BY DEF WalksFit, Width, Full

LEMMA PipesKept ==
    ASSUME PipesFit, NEW s \in Scans, pipe' = [pipe EXCEPT ![s] = pipe'[s]],
           pipe'[s] \in PipeType, Len(pipe'[s].chan) <= QueueSize,
           Len(pipe'[s].batch) <= BatchSize
    PROVE  PipesFit'
BY DEF PipesFit

LEMMA LogsKept ==
    ASSUME LogsFit, NEW s \in Scans, log' = [log EXCEPT ![s] = log'[s]], log'[s] \in LogType
    PROVE  LogsFit'
BY DEF LogsFit

\* A scan whose walk or whose consumer is at work is in its pipeline.
LEMMA AtWork ==
    ASSUME SessionInv, NEW s \in Scans, walk[s].st # "closed" \/ pipe[s].st # "done"
    PROVE  pc[s] = "pipeline"
BY DEF SessionInv, ScanInv, Goroutines

\* A step that neither ends a goroutine nor is a fault.
LEMMA ControlStays ==
    ASSUME NEW s \in Scans, ScanInv(s),
           walk'[s].st = walk[s].st, walk'[s].err = walk[s].err,
           pipe'[s].st = pipe[s].st, pipe'[s].failed = pipe[s].failed,
           log'[s] = log[s], pc'[s] = pc[s], row'[s] = row[s], crashes' = crashes,
           staging'[s] = staging[s] \/ pc[s] = "pipeline",
           s \in asked' <=> s \in asked, s \in stop' <=> s \in stop,
           walk[s].st = "closed" => walk'[s].open = {},
           pipe[s].st = "done" /\ ~pipe[s].failed =>
              pipe'[s].chan = <<>> /\ pipe'[s].batch = <<>>
    PROVE  Goroutines(s)' /\ CallerKnows(s)' /\ RowFollows(s)' /\ StagingFollows(s)'
<1>1. Goroutines(s)'
    BY DEF ScanInv, Goroutines
<1>2. CallerKnows(s)'
    BY DEF ScanInv, CallerKnows
<1>3. RowFollows(s)'
    BY DEF ScanInv, RowFollows
<1>4. StagingFollows(s)'
    BY DEF ScanInv, StagingFollows
<1> QED BY <1>1, <1>2, <1>3, <1>4

\* A step after which the scan holds no more than before.
LEMMA LessIsTrue ==
    ASSUME NEW s \in Scans, ScanInv(s), disk' = disk,
           walk'[s].todo \subseteq walk[s].todo, walk'[s].open \subseteq walk[s].open,
           Carried(s)' \subseteq Carried(s),
           log'[s].absent = log[s].absent, log'[s].changed = log[s].changed,
           pc'[s] \in Merging => pc[s] \in Merging
    PROVE  Truthful(s)'
BY DEF ScanInv, Truthful, InScope, Above

\* The walk gives up: on an error of its own, or because its context is canceled.
WalkFails(s) ==
    /\ walk[s].st = "walking" /\ walk'[s].st = "failing" /\ walk'[s].todo = walk[s].todo
    /\ walk'[s].open \subseteq walk[s].open
    /\ log'[s].absent = log[s].absent /\ log'[s].changed = log[s].changed
    /\ log'[s].merged = log[s].merged
    /\ \/ walk'[s].err = "walk" /\ log'[s].faults = log[s].faults \cup {"walk"}
       \/ walk'[s].err = Canceled /\ s \in stop /\ log'[s].faults = log[s].faults
    /\ pipe'[s] = pipe[s] /\ staging'[s] = staging[s] /\ stop' = stop

LEMMA FailingIsTold ==
    ASSUME SessionInv, NEW s \in Scans, Pipeline(s), WalkFails(s)
    PROVE  ScanInv(s)'
<1>1. /\ pc[s] = "pipeline" /\ pc'[s] = pc[s] /\ row'[s] = row[s] /\ asked' = asked
      /\ disk' = disk /\ crashes' = crashes
    BY AtWork DEF WalkFails, Pipeline
<1>2. "walk" # NoErr /\ Canceled # NoErr /\ Canceled # "walk"
    BY ScanAssumption
<1>3. ScanInv(s)
    BY DEF SessionInv
<1>4. Goroutines(s)'
  <2>1. walk[s].err = NoErr
      BY <1>3 DEF ScanInv, Goroutines, WalkFails
  <2> QED BY <1>1, <1>2, <1>3, <2>1 DEF ScanInv, Goroutines, WalkFails
<1>5. CallerKnows(s)'
    BY <1>1, <1>3 DEF ScanInv, CallerKnows, WalkFails
<1>6. RowFollows(s)'
    BY <1>1, <1>3 DEF ScanInv, RowFollows, EndedPlaces
<1>7. StagingFollows(s)'
    BY <1>1 DEF StagingFollows
<1>8. Carried(s)' \subseteq Carried(s)
    BY DEF Carried, WalkFails, Elements
<1>9. Truthful(s)'
    BY <1>1, <1>3, <1>8, LessIsTrue DEF WalkFails
<1>10. Whole(s)'
    BY <1>2 DEF Whole, WalkFails
<1> QED BY <1>4, <1>5, <1>6, <1>7, <1>9, <1>10 DEF ScanInv

-----------------------------------------------------------------------------
(* The producer.                                                           *)

\* What each step of the producer leaves alone.
LEMMA ProducerIsPipeline ==
    ASSUME SessionInv, NEW s \in Scans, Producer(s)
    PROVE  Pipeline(s) /\ staging' = staging
<1>1. /\ walk \in [Scans -> WalkType] /\ pipe \in [Scans -> PipeType]
      /\ log \in [Scans -> LogType]
    BY DEF SessionInv, Shape, WalksFit, PipesFit, LogsFit
<1>2. \A t \in Scans \ {s} : walk'[t] = walk[t] /\ pipe'[t] = pipe[t] /\ log'[t] = log[t]
  <2> TAKE t \in Scans \ {s}
  <2>1. CASE OpenDir(s)
      BY <1>1, <2>1 DEF OpenDir, FailWalk, Fault
  <2>2. CASE Inspect(s)
      BY <1>1, <2>2 DEF Inspect, FailWalk, Replace
  <2>3. CASE Emit(s)
      BY <1>1, <2>3 DEF Emit, Replace
  <2>4. CASE ListingDone(s) \/ WalkCanceled(s) \/ WorkerLeaves(s) \/ WalkReturns(s)
      BY <1>1, <2>4 DEF ListingDone, WalkCanceled, WorkerLeaves, WalkReturns, FailWalk, Replace
  <2> QED BY <2>1, <2>2, <2>3, <2>4 DEF Producer
<1>3. /\ UNCHANGED <<load, disk, edits, entries, staging, row, library, pc, asked, probe, crashes>>
      /\ \A t \in Scans \ {s} : t \in stop' <=> t \in stop
    BY DEF Producer, OpenDir, Inspect, Emit, ListingDone, WalkCanceled, WorkerLeaves,
           WalkReturns, walkOnly, diskVars, control, probeVars
<1> QED BY <1>2, <1>3 DEF Pipeline, Unmoved

LEMMA OpenDirKeeps ==
    ASSUME SessionInv, NEW s \in Scans, OpenDir(s)
    PROVE  SessionInv'
<1>1. Shape /\ ScanInv(s)
    BY DEF SessionInv
<1>2. Pipeline(s) /\ staging' = staging
    BY ProducerIsPipeline DEF Producer
<1>3. /\ walk[s].st = "walking" /\ Cardinality(walk[s].open) < Width(s)
      /\ stop' = stop /\ pipe' = pipe
    BY DEF OpenDir, walkOnly, control
<1>4. pc[s] = "pipeline" /\ walk[s].err = NoErr
    BY <1>1, <1>3, AtWork DEF ScanInv, Goroutines
<1>5. StagingFits' /\ PipesFit'
    BY <1>1, <1>2, <1>3 DEF Shape, StagingFits, PipesFit
<1>6. /\ walk \in [Scans -> WalkType] /\ walk[s] \in WalkType /\ log \in [Scans -> LogType]
      /\ log[s] \in LogType
    BY <1>1 DEF Shape, WalksFit, LogsFit
<1>7. ASSUME NEW d \in walk[s].todo, FailWalk(s, {}, "walk"), Fault(s, "walk")
      PROVE  SessionInv'
  <2>1. /\ walk' = [walk EXCEPT ![s] = walk'[s]]
        /\ walk'[s] = [walk[s] EXCEPT !.st = "failing", !.open = walk[s].open, !.err = "walk"]
      BY <1>6, <1>7 DEF FailWalk
  <2>2. walk'[s] \in WalkType /\ walk'[s].open = walk[s].open
      BY <1>6, <2>1 DEF WalkType
  <2>3. WalksFit'
      BY <1>1, <2>1, <2>2, WalksKept DEF Shape, WalksFit
  <2>4. /\ log' = [log EXCEPT ![s] = log'[s]]
        /\ log'[s] = [log[s] EXCEPT !.faults = log[s].faults \cup {"walk"}]
      BY <1>6, <1>7 DEF Fault
  <2>5. log'[s] \in LogType
      BY <1>6, <2>4 DEF LogType, Kinds
  <2>6. LogsFit'
      BY <1>1, <2>4, <2>5, LogsKept DEF Shape
  <2>7. Shape'
      BY <1>2, <1>3, <1>5, <2>3, <2>6, PipelineFits
  <2>8. WalkFails(s)
      BY <1>2, <1>3, <1>6, <2>1, <2>4 DEF WalkFails, Pipeline, WalkType, LogType
  <2> QED BY <1>2, <2>7, <2>8, FailingIsTold, Focus DEF Pipeline
<1>8. ASSUME NEW d \in walk[s].todo,
             walk' = [walk EXCEPT
                  ![s].todo = @ \ {d},
                  ![s].open = @ \cup {[dir |-> d, left |-> Children(d), hold |-> {}]}],
             log' = log
      PROVE  SessionInv'
  <2> DEFINE l0 == [dir |-> d, left |-> Children(d), hold |-> {}]
  <2>1. /\ walk' = [walk EXCEPT ![s] = walk'[s]]
        /\ walk'[s] = [walk[s] EXCEPT !.todo = walk[s].todo \ {d}, !.open = walk[s].open \cup {l0}]
      BY <1>6, <1>8
  <2>2. l0 \in Listing
      BY <1>1, Facts DEF Listing, Children
  <2>3. walk'[s] \in WalkType
    <3>1. walk[s].todo \ {d} \subseteq Dirs /\ walk[s].open \cup {l0} \subseteq Listing
        BY <1>6, <2>2 DEF WalkType
    <3> HIDE DEF l0
    <3> QED BY <1>6, <2>1, <3>1 DEF WalkType
  <2>4. /\ walk'[s].todo = walk[s].todo \ {d} /\ walk'[s].open = walk[s].open \cup {l0}
        /\ walk'[s].st = walk[s].st /\ walk'[s].err = walk[s].err
      BY <1>6, <2>1 DEF WalkType
  <2>5. l0.dir = d /\ l0.left = Children(d) /\ l0.hold = {}
      OBVIOUS
  <2> HIDE DEF l0
  <2>6. IsFiniteSet(walk'[s].open) /\ Cardinality(walk'[s].open) <= Width(s)
    <3>1. IsFiniteSet(walk[s].open)
        BY <1>1 DEF Shape, WalksFit
    <3>2. Width(s) \in Nat
        BY ScanAssumption DEF Width
    <3>3. /\ IsFiniteSet(walk[s].open \cup {l0})
          /\ \/ Cardinality(walk[s].open \cup {l0}) = Cardinality(walk[s].open)
             \/ Cardinality(walk[s].open \cup {l0}) = Cardinality(walk[s].open) + 1
        BY <3>1, FS_AddElement
    <3>4. Cardinality(walk[s].open) \in Nat
        BY <3>1, FS_CardinalityType
    <3> QED BY <1>3, <2>4, <3>2, <3>3, <3>4
  <2>7. WalksFit'
      BY <1>1, <2>1, <2>3, <2>6, WalksKept DEF Shape
  <2>8. Shape'
      BY <1>1, <1>2, <1>3, <1>5, <1>8, <2>7, PipelineFits DEF Shape, LogsFit
  <2>9. Goroutines(s)' /\ CallerKnows(s)' /\ RowFollows(s)' /\ StagingFollows(s)'
    <3>1. pipe[s].st = "done" /\ ~pipe[s].failed =>
              pipe'[s].chan = <<>> /\ pipe'[s].batch = <<>>
        BY <1>1, <1>3 DEF ScanInv, Goroutines
    <3> QED BY <1>1, <1>2, <1>3, <1>8, <2>4, <3>1, ControlStays DEF Pipeline
  <2>10. Carried(s)' = Carried(s)
      BY <1>2, <1>3, <2>4, <2>5 DEF Carried, Elements
  <2>11. /\ d \in Dirs /\ (d = Scope[s] \/ d \in InScope(s))
         /\ disk' = disk /\ log' = log /\ pc'[s] = pc[s]
      BY <1>1, <1>2, <1>4, <1>8, Facts DEF ScanInv, Truthful, Merging, Pipeline
  <2>12. \A p \in Paths : ParentOf[p] = d => p \in Children(d) \/ p \in log[s].absent
    <3> SUFFICES ASSUME NEW p \in Paths, ParentOf[p] = d, DiskVersion(p) = 0
                 PROVE  p \in log[s].absent
        BY DEF Children
    <3>1. p \in Files /\ disk[p] = 0
        BY DEF DiskVersion, Paths
    <3> QED BY <1>1, <1>4, <3>1 DEF ScanInv, Truthful, Merging
  <2>13. Truthful(s)'
    <3>1. \A l \in walk'[s].open : /\ l.dir = Scope[s] \/ l.dir \in InScope(s)
                                   /\ \A p \in l.left : ParentOf[p] = l.dir
                                   /\ \A e1, e2 \in l.hold : e1 = e2
        BY <1>1, <1>4, <2>4, <2>5, <2>11 DEF ScanInv, Truthful, Merging, Children
    <3>2. \A x \in walk'[s].todo : x = Scope[s] \/ x \in InScope(s)
        BY <1>1, <1>4, <2>4 DEF ScanInv, Truthful, Merging
    <3> QED BY <1>1, <1>4, <2>10, <2>11, <3>1, <3>2 DEF ScanInv, Truthful, Merging, InScope, Above
  <2>14. \A p : (Found(s, p)' <=> Found(s, p)) /\ (Seen(s, p)' <=> Seen(s, p))
      BY <2>10, <2>11 DEF Found, Seen
  <2>15. Whole(s)'
    <3> SUFFICES ASSUME ~pipe[s].failed
                 PROVE  /\ \A l \in walk'[s].open, p \in Paths :
                             ParentOf[p] = l.dir => p \in l.left \/ Found(s, p)
                        /\ \A x \in Dirs : x = Scope[s] \/ Seen(s, x) =>
                             \/ x \in walk'[s].todo
                             \/ \E l \in walk'[s].open :
                                   l.dir = x \/ (x \in Paths /\ l.dir = ParentOf[x])
                             \/ \A p \in Paths : ParentOf[p] = x => Found(s, p)
                        /\ walk'[s].st = "closed" => walk'[s].todo = {}
        BY <1>3, <2>14 DEF Whole
    <3>1. \A l \in walk[s].open, p \in Paths :
             ParentOf[p] = l.dir => p \in l.left \/ Found(s, p)
        BY <1>1, <1>4 DEF ScanInv, Whole, Merging
    <3>2. \A x \in Dirs : x = Scope[s] \/ Seen(s, x) =>
             \/ x \in walk[s].todo
             \/ \E l \in walk[s].open : l.dir = x \/ (x \in Paths /\ l.dir = ParentOf[x])
             \/ \A p \in Paths : ParentOf[p] = x => Found(s, p)
        BY <1>1, <1>4 DEF ScanInv, Whole, Merging
    <3>3. \A l \in walk'[s].open, p \in Paths :
             ParentOf[p] = l.dir => p \in l.left \/ Found(s, p)
        BY <2>4, <2>5, <2>12, <3>1 DEF Found
    <3>4. l0 \in walk'[s].open
        BY <2>4
    <3> QED BY <1>3, <2>4, <2>5, <3>2, <3>3, <3>4
  <2>16. ScanInv(s)'
      BY <2>9, <2>13, <2>15 DEF ScanInv
  <2> QED BY <1>2, <2>8, <2>16, Focus DEF Pipeline
<1> QED BY <1>7, <1>8 DEF OpenDir

\* A worker's listing moves on.
LEMMA ReplaceFits ==
    ASSUME Shape, NEW s \in Scans, NEW l \in walk[s].open, NEW new,
           new = {} \/ (\E m \in Listing : new = {m}), Replace(s, {l}, new)
    PROVE  /\ WalksFit'
           /\ walk'[s].open = (walk[s].open \ {l}) \cup new
           /\ walk'[s].st = walk[s].st /\ walk'[s].err = walk[s].err
           /\ walk'[s].todo = walk[s].todo
<1>1. walk \in [Scans -> WalkType] /\ walk[s] \in WalkType
    BY DEF Shape, WalksFit
<1>2. /\ walk' = [walk EXCEPT ![s] = walk'[s]]
      /\ walk'[s] = [walk[s] EXCEPT !.open = (walk[s].open \ {l}) \cup new]
    BY <1>1 DEF Replace
<1>3. /\ walk'[s].open = (walk[s].open \ {l}) \cup new
      /\ walk'[s].st = walk[s].st /\ walk'[s].err = walk[s].err
      /\ walk'[s].todo = walk[s].todo
    BY <1>1, <1>2 DEF WalkType
<1>4. walk'[s] \in WalkType
  <2>1. (walk[s].open \ {l}) \cup new \subseteq Listing
      BY <1>1 DEF WalkType
  <2> DEFINE o == (walk[s].open \ {l}) \cup new
  <2>2. o \subseteq Listing /\ walk'[s] = [walk[s] EXCEPT !.open = o]
      BY <1>2, <2>1
  <2> HIDE DEF o
  <2> QED BY <1>1, <2>2 DEF WalkType
<1>5. IsFiniteSet(walk'[s].open) /\ Cardinality(walk'[s].open) <= Width(s)
  <2>1. IsFiniteSet(walk[s].open) /\ Cardinality(walk[s].open) <= Width(s)
      BY DEF Shape, WalksFit
  <2>2. Width(s) \in Nat /\ Cardinality(walk[s].open) \in Nat
      BY <2>1, FS_CardinalityType, ScanAssumption DEF Width
  <2>3. /\ IsFiniteSet(walk[s].open \ {l})
        /\ Cardinality(walk[s].open \ {l}) = Cardinality(walk[s].open) - 1
      BY <2>1, FS_RemoveElement
  <2>4. CASE new = {}
      BY <1>3, <2>1, <2>2, <2>3, <2>4
  <2>5. CASE \E m \in Listing : new = {m}
    <3>1. PICK m \in Listing : new = {m}
        BY <2>5
    <3>2. /\ IsFiniteSet((walk[s].open \ {l}) \cup {m})
          /\ \/ Cardinality((walk[s].open \ {l}) \cup {m}) = Cardinality(walk[s].open \ {l})
             \/ Cardinality((walk[s].open \ {l}) \cup {m}) = Cardinality(walk[s].open \ {l}) + 1
        BY <2>3, FS_AddElement
    <3>3. walk'[s].open = (walk[s].open \ {l}) \cup {m}
        BY <1>3, <3>1
    <3> QED BY <2>1, <2>2, <2>3, <3>2, <3>3
  <2> QED BY <2>4, <2>5
<1> QED BY <1>2, <1>3, <1>4, <1>5, WalksKept DEF Shape

\* The walk gives up, its other listings left to their workers.
LEMMA FailWalkFits ==
    ASSUME Shape, NEW s \in Scans, NEW gone, NEW err \in {Canceled, "walk"},
           FailWalk(s, gone, err)
    PROVE  /\ WalksFit'
           /\ walk'[s].st = "failing" /\ walk'[s].err = err /\ walk'[s].todo = walk[s].todo
           /\ walk'[s].open \subseteq walk[s].open
<1>1. walk \in [Scans -> WalkType] /\ walk[s] \in WalkType
    BY DEF Shape, WalksFit
<1>2. /\ walk' = [walk EXCEPT ![s] = walk'[s]]
      /\ walk'[s] = [walk[s] EXCEPT !.st = "failing", !.open = walk[s].open \ gone, !.err = err]
    BY <1>1 DEF FailWalk
<1>3. /\ walk'[s].st = "failing" /\ walk'[s].err = err /\ walk'[s].todo = walk[s].todo
      /\ walk'[s].open = walk[s].open \ gone
    BY <1>1, <1>2 DEF WalkType
<1>4. walk'[s] \in WalkType
  <2>1. walk[s].open \ gone \subseteq Listing
      BY <1>1 DEF WalkType
  <2> QED BY <1>1, <1>2, <2>1 DEF WalkType
<1>5. IsFiniteSet(walk'[s].open) /\ Cardinality(walk'[s].open) <= Width(s)
  <2>1. IsFiniteSet(walk[s].open) /\ Cardinality(walk[s].open) <= Width(s)
      BY DEF Shape, WalksFit
  <2>2. Width(s) \in Nat /\ Cardinality(walk[s].open) \in Nat
      BY <2>1, FS_CardinalityType, ScanAssumption DEF Width
  <2>3. /\ IsFiniteSet(walk'[s].open)
        /\ Cardinality(walk'[s].open) <= Cardinality(walk[s].open)
        /\ Cardinality(walk'[s].open) \in Nat
      BY <1>3, <2>1, FS_Subset, FS_CardinalityType
  <2> QED BY <2>1, <2>2, <2>3
<1> QED BY <1>2, <1>3, <1>4, <1>5, WalksKept DEF Shape

LEMMA WalkCanceledKeeps ==
    ASSUME SessionInv, NEW s \in Scans, WalkCanceled(s)
    PROVE  SessionInv'
<1>1. Shape
    BY DEF SessionInv
<1>2. Pipeline(s) /\ staging' = staging
    BY ProducerIsPipeline DEF Producer
<1>3. /\ walk[s].st = "walking" /\ s \in stop /\ stop' = stop /\ pipe' = pipe /\ log' = log
      /\ FailWalk(s, {}, Canceled)
    BY DEF WalkCanceled, walkOnly, control
<1>4. /\ WalksFit'
      /\ walk'[s].st = "failing" /\ walk'[s].err = Canceled /\ walk'[s].todo = walk[s].todo
      /\ walk'[s].open \subseteq walk[s].open
    BY <1>1, <1>3, FailWalkFits
<1>5. StagingFits' /\ PipesFit' /\ LogsFit'
    BY <1>1, <1>2, <1>3 DEF Shape, StagingFits, PipesFit, LogsFit
<1>6. WalkFails(s)
    BY <1>2, <1>3, <1>4 DEF WalkFails
<1>7. Shape'
    BY <1>2, <1>3, <1>4, <1>5, PipelineFits
<1> QED BY <1>2, <1>6, <1>7, FailingIsTold, Focus DEF Pipeline

LEMMA InspectKeeps ==
    ASSUME SessionInv, NEW s \in Scans, Inspect(s)
    PROVE  SessionInv'
<1>1. Shape /\ ScanInv(s)
    BY DEF SessionInv
<1>2. Pipeline(s) /\ staging' = staging
    BY ProducerIsPipeline DEF Producer
<1>3. walk[s].st = "walking" /\ stop' = stop /\ pipe' = pipe
    BY DEF Inspect, walkOnly, control
<1>4. pc[s] = "pipeline" /\ walk[s].err = NoErr /\ pipe[s].st \in {"draining", "done"}
    BY <1>1, <1>3, AtWork, Facts DEF ScanInv, Goroutines
<1>5. StagingFits' /\ PipesFit'
    BY <1>1, <1>2, <1>3 DEF Shape, StagingFits, PipesFit
<1>6. PICK l \in walk[s].open : \E p \in l.left :
         /\ l.hold = {}
         /\ IF DiskVersion(p) = 0
            THEN /\ FailWalk(s, {l}, "walk")
                 /\ log' = [log EXCEPT ![s].faults = @ \cup {"walk"}]
            ELSE /\ Replace(s, {l}, {[l EXCEPT !.left = @ \ {p},
                                               !.hold = {<<p, DiskVersion(p)>>}]})
                 /\ UNCHANGED log
    BY DEF Inspect
<1>7. PICK p \in l.left :
         /\ l.hold = {}
         /\ IF DiskVersion(p) = 0
            THEN /\ FailWalk(s, {l}, "walk")
                 /\ log' = [log EXCEPT ![s].faults = @ \cup {"walk"}]
            ELSE /\ Replace(s, {l}, {[l EXCEPT !.left = @ \ {p},
                                               !.hold = {<<p, DiskVersion(p)>>}]})
                 /\ UNCHANGED log
    BY <1>6
<1>8. /\ l \in Listing /\ l.dir \in Dirs /\ l.left \subseteq Paths /\ p \in Paths
    BY <1>1, <1>7, Facts, ListingFacts
<1>9. CASE DiskVersion(p) = 0
  <2>1. /\ WalksFit'
        /\ walk'[s].st = "failing" /\ walk'[s].err = "walk" /\ walk'[s].todo = walk[s].todo
        /\ walk'[s].open \subseteq walk[s].open
      BY <1>1, <1>7, <1>9, FailWalkFits
  <2>2. log \in [Scans -> LogType] /\ log[s] \in LogType
      BY <1>1 DEF Shape, LogsFit
  <2>3. /\ log' = [log EXCEPT ![s] = log'[s]]
        /\ log'[s] = [log[s] EXCEPT !.faults = log[s].faults \cup {"walk"}]
      BY <1>7, <1>9, <2>2
  <2>4. log'[s] \in LogType
      BY <2>2, <2>3 DEF LogType, Kinds
  <2>5. LogsFit'
      BY <1>1, <2>3, <2>4, LogsKept DEF Shape
  <2>6. Shape'
      BY <1>2, <1>3, <1>5, <2>1, <2>5, PipelineFits
  <2>7. WalkFails(s)
      BY <1>2, <1>3, <2>1, <2>2, <2>3 DEF WalkFails, LogType
  <2> QED BY <1>2, <2>6, <2>7, FailingIsTold, Focus DEF Pipeline
<1>10. CASE DiskVersion(p) # 0
  <2> DEFINE m == [l EXCEPT !.left = l.left \ {p}, !.hold = {<<p, DiskVersion(p)>>}]
  <2>1. Replace(s, {l}, {m}) /\ log' = log
      BY <1>7, <1>10
  <2>2. /\ m \in Listing /\ m.dir = l.dir /\ m.left = l.left \ {p}
        /\ m.hold = {<<p, DiskVersion(p)>>}
    <3>1. DiskVersion(p) \in Nat
        BY <1>1, <1>8, Facts DEF DiskVersion, Paths
    <3>2. <<p, DiskVersion(p)>> \in Entry
        BY <1>8, <3>1 DEF Entry
    <3> QED BY <1>8, <3>2 DEF Listing
  <2> HIDE DEF m
  <2>3. /\ WalksFit'
        /\ walk'[s].open = (walk[s].open \ {l}) \cup {m}
        /\ walk'[s].st = walk[s].st /\ walk'[s].err = walk[s].err
        /\ walk'[s].todo = walk[s].todo
      BY <1>1, <2>1, <2>2, ReplaceFits
  <2>4. Shape'
      BY <1>1, <1>2, <1>3, <1>5, <2>1, <2>3, PipelineFits DEF Shape, LogsFit
  <2>5. Goroutines(s)' /\ CallerKnows(s)' /\ RowFollows(s)' /\ StagingFollows(s)'
    <3>1. pipe[s].st = "done" /\ ~pipe[s].failed =>
              pipe'[s].chan = <<>> /\ pipe'[s].batch = <<>>
        BY <1>1, <1>3 DEF ScanInv, Goroutines
    <3> QED BY <1>1, <1>2, <1>3, <2>1, <2>3, <3>1, ControlStays DEF Pipeline
  <2>6. Carried(s)' = Carried(s) \cup {<<p, DiskVersion(p)>>}
    <3>1. UNION {k.hold : k \in walk'[s].open}
            = (UNION {k.hold : k \in walk[s].open}) \cup {<<p, DiskVersion(p)>>}
        BY <1>7, <2>2, <2>3
    <3>2. Elements(pipe[s].batch)' = Elements(pipe[s].batch) /\ Elements(pipe[s].chan)' = Elements(pipe[s].chan)
        BY <1>3
    <3> QED BY <1>2, <3>1, <3>2 DEF Carried
  <2>7. /\ disk' = disk /\ pc'[s] = pc[s]
        /\ l.dir = Scope[s] \/ l.dir \in InScope(s)
        /\ ParentOf[p] = l.dir
      BY <1>1, <1>2, <1>4, <1>7 DEF ScanInv, Truthful, Merging, Pipeline
  <2>8. p \in InScope(s)
      BY <1>8, <2>7, ScopeGrows
  <2>9. Truthful(s)'
    <3>1. \A k \in walk'[s].open : /\ k.dir = Scope[s] \/ k.dir \in InScope(s)
                                   /\ \A q \in k.left : ParentOf[q] = k.dir
                                   /\ \A e1, e2 \in k.hold : e1 = e2
        BY <1>1, <1>4, <2>2, <2>3, <2>7 DEF ScanInv, Truthful, Merging
    <3>2. \A e \in Carried(s)' :
             /\ e[1] \in InScope(s) /\ e[2] # 0
             /\ (e[1] \in Files \ log[s].changed => e[2] = disk[e[1]])
      <4>1. \A e \in Carried(s) :
             /\ e[1] \in InScope(s) /\ e[2] # 0
             /\ (e[1] \in Files \ log[s].changed => e[2] = disk[e[1]])
          BY <1>1, <1>4 DEF ScanInv, Truthful, Merging
      <4>2. p \in Files => DiskVersion(p) = disk[p]
          BY Tree DEF DiskVersion
      <4> QED BY <1>10, <2>6, <2>8, <4>1, <4>2
    <3> QED BY <1>1, <1>4, <2>1, <2>3, <2>7, <3>1, <3>2 DEF ScanInv, Truthful, Merging, InScope, Above
  <2>10. /\ \A q : Seen(s, q)' <=> Seen(s, q) \/ q = p
         /\ \A q : Found(s, q)' <=> Found(s, q) \/ q = p
    <3>1. \A q : Seen(s, q)' <=> Seen(s, q) \/ q = p
      <4> DEFINE e0 == <<p, DiskVersion(p)>>
      <4>1. e0[1] = p /\ Carried(s)' = Carried(s) \cup {e0}
          BY <2>6
      <4> HIDE DEF e0
      <4>2. \A q : (\E e \in Carried(s)' : e[1] = q) <=> (\E e \in Carried(s) : e[1] = q) \/ q = p
          BY <4>1
      <4> QED BY <4>2 DEF Seen
    <3> QED BY <2>1, <3>1 DEF Found
  <2>11. Whole(s)'
    <3> SUFFICES ASSUME ~pipe[s].failed
                 PROVE  /\ \A k \in walk'[s].open, q \in Paths :
                             ParentOf[q] = k.dir => q \in k.left \/ Found(s, q)'
                        /\ \A x \in Dirs : x = Scope[s] \/ Seen(s, x)' =>
                             \/ x \in walk'[s].todo
                             \/ \E k \in walk'[s].open :
                                   k.dir = x \/ (x \in Paths /\ k.dir = ParentOf[x])
                             \/ \A q \in Paths : ParentOf[q] = x => Found(s, q)'
                        /\ walk'[s].st = "closed" => walk'[s].todo = {}
        BY <1>3 DEF Whole
    <3>1. \A k \in walk[s].open, q \in Paths :
             ParentOf[q] = k.dir => q \in k.left \/ Found(s, q)
        BY <1>1, <1>4 DEF ScanInv, Whole, Merging
    <3>2. \A x \in Dirs : x = Scope[s] \/ Seen(s, x) =>
             \/ x \in walk[s].todo
             \/ \E k \in walk[s].open : k.dir = x \/ (x \in Paths /\ k.dir = ParentOf[x])
             \/ \A q \in Paths : ParentOf[q] = x => Found(s, q)
        BY <1>1, <1>4 DEF ScanInv, Whole, Merging
    <3>3. \A k \in walk'[s].open, q \in Paths :
             ParentOf[q] = k.dir => q \in k.left \/ Found(s, q)'
        BY <2>2, <2>3, <2>10, <3>1
    <3>4. m \in walk'[s].open
        BY <2>3
    <3>5. \A x : (\E k \in walk[s].open : k.dir = x) => \E k \in walk'[s].open : k.dir = x
        BY <2>2, <2>3
    <3>6. ASSUME NEW x \in Dirs, x = Scope[s] \/ Seen(s, x)'
          PROVE  \/ x \in walk'[s].todo
                 \/ \E k \in walk'[s].open :
                       k.dir = x \/ (x \in Paths /\ k.dir = ParentOf[x])
                 \/ \A q \in Paths : ParentOf[q] = x => Found(s, q)'
      <4>1. CASE x = p
          BY <1>8, <2>2, <2>7, <3>4, <4>1
      <4>2. CASE x = Scope[s] \/ Seen(s, x)
          BY <2>3, <2>10, <3>2, <3>5, <4>2
      <4> QED BY <2>10, <3>6, <4>1, <4>2
    <3> QED BY <1>3, <2>3, <3>3, <3>6
  <2>12. ScanInv(s)'
      BY <2>5, <2>9, <2>11 DEF ScanInv
  <2> QED BY <1>2, <2>4, <2>12, Focus DEF Pipeline
<1> QED BY <1>9, <1>10

LEMMA EmitKeeps ==
    ASSUME SessionInv, NEW s \in Scans, Emit(s)
    PROVE  SessionInv'
<1>1. Shape /\ ScanInv(s)
    BY DEF SessionInv
<1>2. Pipeline(s) /\ staging' = staging
    BY ProducerIsPipeline DEF Producer
<1>3. /\ walk[s].st \in {"walking", "failing"} /\ stop' = stop /\ log' = log
      /\ Len(pipe[s].chan) < QueueSize
    BY DEF Emit, walkOnly, control
<1>4. pc[s] = "pipeline" /\ (walk[s].st = "failing" => walk[s].err # NoErr)
    BY <1>1, <1>3, AtWork DEF ScanInv, Goroutines
<1>5. PICK l \in walk[s].open : \E e \in l.hold :
         /\ Replace(s, {l}, {[l EXCEPT !.hold = {}]})
         /\ pipe' = [pipe EXCEPT ![s].chan = Append(@, e)]
    BY DEF Emit
<1>6. PICK e \in l.hold :
         /\ Replace(s, {l}, {[l EXCEPT !.hold = {}]})
         /\ pipe' = [pipe EXCEPT ![s].chan = Append(@, e)]
    BY <1>5
<1>7. /\ l \in Listing /\ e \in Entry /\ l.hold \subseteq Entry
      /\ pipe[s].chan \in Seq(Entry) /\ pipe[s].batch \in Seq(Entry)
      /\ pipe \in [Scans -> PipeType] /\ pipe[s] \in PipeType
    BY <1>1, <1>6, Facts, ListingFacts DEF Shape, PipesFit
<1>8. /\ pipe' = [pipe EXCEPT ![s] = pipe'[s]]
      /\ pipe'[s] = [pipe[s] EXCEPT !.chan = Append(pipe[s].chan, e)]
    BY <1>6, <1>7
<1>9. /\ pipe'[s].chan = Append(pipe[s].chan, e) /\ pipe'[s].batch = pipe[s].batch
      /\ pipe'[s].st = pipe[s].st /\ pipe'[s].failed = pipe[s].failed
    BY <1>7, <1>8 DEF PipeType
<1>10. PipesFit'
  <2>1. Append(pipe[s].chan, e) \in Seq(Entry)
      BY <1>7
  <2> DEFINE c == Append(pipe[s].chan, e)
  <2>2. c \in Seq(Entry) /\ pipe'[s] = [pipe[s] EXCEPT !.chan = c] /\ Len(c) = Len(pipe[s].chan) + 1
      BY <1>7, <1>8, <2>1
  <2>3. Len(c) <= QueueSize
      BY <1>3, <1>7, <2>2, ScanAssumption
  <2> HIDE DEF c
  <2>4. pipe'[s] \in PipeType /\ pipe'[s].chan = c /\ pipe'[s].batch = pipe[s].batch
      BY <1>7, <2>2 DEF PipeType
  <2> QED BY <1>1, <1>8, <2>3, <2>4, PipesKept DEF Shape, PipesFit
<1> DEFINE m == [l EXCEPT !.hold = {}]
<1>11. m \in Listing /\ m.dir = l.dir /\ m.left = l.left /\ m.hold = {} /\ Replace(s, {l}, {m})
    BY <1>6, <1>7 DEF Listing
<1> HIDE DEF m
<1>12. /\ WalksFit'
       /\ walk'[s].open = (walk[s].open \ {l}) \cup {m}
       /\ walk'[s].st = walk[s].st /\ walk'[s].err = walk[s].err
       /\ walk'[s].todo = walk[s].todo
    BY <1>1, <1>11, ReplaceFits
<1>13. Shape'
    BY <1>1, <1>2, <1>3, <1>10, <1>12, PipelineFits DEF Shape, LogsFit, StagingFits
<1>14. Goroutines(s)' /\ CallerKnows(s)' /\ RowFollows(s)' /\ StagingFollows(s)'
  <2>1. ~(pipe[s].st = "done" /\ ~pipe[s].failed)
      BY <1>1, <1>3 DEF ScanInv, Goroutines
  <2> QED BY <1>1, <1>2, <1>3, <1>9, <1>12, <2>1, ControlStays DEF Pipeline
<1>15. l.hold = {e}
    BY <1>1, <1>4, <1>6 DEF ScanInv, Truthful, Merging
<1>16. Carried(s)' = Carried(s)
  <2>1. UNION {k.hold : k \in walk[s].open} = (UNION {k.hold : k \in walk'[s].open}) \cup {e}
      BY <1>11, <1>12, <1>15
  <2>2. Elements(pipe'[s].chan) = Elements(pipe[s].chan) \cup {e}
      BY <1>7, <1>9, ElementsOfAppend
  <2>3. Elements(pipe'[s].batch) = Elements(pipe[s].batch)
      BY <1>9
  <2>4. /\ Elements(pipe[s].chan)' = Elements(pipe'[s].chan)
        /\ Elements(pipe[s].batch)' = Elements(pipe'[s].batch)
      BY DEF Elements
  <2> QED BY <1>2, <2>1, <2>2, <2>3, <2>4 DEF Carried
<1>17. disk' = disk /\ pc'[s] = pc[s]
    BY <1>2 DEF Pipeline
<1>18. Truthful(s)'
  <2>1. \A k \in walk'[s].open : /\ k.dir = Scope[s] \/ k.dir \in InScope(s)
                                 /\ \A q \in k.left : ParentOf[q] = k.dir
                                 /\ \A e1, e2 \in k.hold : e1 = e2
      BY <1>1, <1>4, <1>11, <1>12 DEF ScanInv, Truthful, Merging
  <2> QED BY <1>1, <1>3, <1>4, <1>12, <1>16, <1>17, <2>1 DEF ScanInv, Truthful, Merging, InScope, Above
<1>19. \A q : (Seen(s, q)' <=> Seen(s, q)) /\ (Found(s, q)' <=> Found(s, q))
    BY <1>3, <1>16 DEF Seen, Found
<1>20. Whole(s)'
  <2>1. /\ \A x : (\E k \in walk[s].open : k.dir = x) <=> \E k \in walk'[s].open : k.dir = x
        /\ \A k \in walk'[s].open : \E k2 \in walk[s].open : k2.dir = k.dir /\ k2.left = k.left
        /\ walk'[s].st # "closed"
      BY <1>3, <1>11, <1>12
  <2>2. SUFFICES ASSUME walk[s].err = NoErr, ~pipe[s].failed
                 PROVE  /\ \A k \in walk'[s].open, q \in Paths :
                             ParentOf[q] = k.dir => q \in k.left \/ Found(s, q)
                        /\ \A x \in Dirs : x = Scope[s] \/ Seen(s, x) =>
                             \/ x \in walk'[s].todo
                             \/ \E k \in walk'[s].open :
                                   k.dir = x \/ (x \in Paths /\ k.dir = ParentOf[x])
                             \/ \A q \in Paths : ParentOf[q] = x => Found(s, q)
      BY <1>9, <1>12, <1>19, <2>1 DEF Whole
  <2>3. /\ \A k \in walk[s].open, q \in Paths :
             ParentOf[q] = k.dir => q \in k.left \/ Found(s, q)
        /\ \A x \in Dirs : x = Scope[s] \/ Seen(s, x) =>
             \/ x \in walk[s].todo
             \/ \E k \in walk[s].open : k.dir = x \/ (x \in Paths /\ k.dir = ParentOf[x])
             \/ \A q \in Paths : ParentOf[q] = x => Found(s, q)
      BY <1>1, <1>4, <2>2 DEF ScanInv, Whole, Merging
  <2>4. ASSUME NEW k \in walk'[s].open, NEW q \in Paths, ParentOf[q] = k.dir
        PROVE  q \in k.left \/ Found(s, q)
    <3>1. PICK k2 \in walk[s].open : k2.dir = k.dir /\ k2.left = k.left
        BY <2>1
    <3> QED BY <2>3, <2>4, <3>1
  <2>5. ASSUME NEW x \in Dirs, x = Scope[s] \/ Seen(s, x)
        PROVE  \/ x \in walk'[s].todo
               \/ \E k \in walk'[s].open : k.dir = x \/ (x \in Paths /\ k.dir = ParentOf[x])
               \/ \A q \in Paths : ParentOf[q] = x => Found(s, q)
    <3>1. CASE x \in walk[s].todo
        BY <1>12, <3>1
    <3>2. CASE \E k \in walk[s].open : k.dir = x
        BY <2>1, <3>2
    <3>3. CASE x \in Paths /\ \E k \in walk[s].open : k.dir = ParentOf[x]
        BY <2>1, <3>3
    <3>4. CASE \A q \in Paths : ParentOf[q] = x => Found(s, q)
        BY <3>4
    <3> QED BY <2>3, <2>5, <3>1, <3>2, <3>3, <3>4
  <2> QED BY <2>4, <2>5
<1>21. ScanInv(s)'
    BY <1>14, <1>18, <1>20 DEF ScanInv
<1> QED BY <1>2, <1>13, <1>21, Focus DEF Pipeline

LEMMA ListingDoneKeeps ==
    ASSUME SessionInv, NEW s \in Scans, ListingDone(s)
    PROVE  SessionInv'
<1>1. Shape /\ ScanInv(s)
    BY DEF SessionInv
<1>2. Pipeline(s) /\ staging' = staging
    BY ProducerIsPipeline DEF Producer
<1>3. walk[s].st = "walking" /\ stop' = stop /\ log' = log /\ pipe' = pipe
    BY DEF ListingDone, walkOnly, control
<1>4. pc[s] = "pipeline" /\ pc'[s] = pc[s] /\ disk' = disk
    BY <1>1, <1>2, <1>3, AtWork DEF Pipeline
<1>5. PICK l \in walk[s].open :
         /\ l.left = {} /\ l.hold = {}
         /\ walk' = [walk EXCEPT ![s].open = @ \ {l},
                                 ![s].todo = @ \cup (Children(l.dir) \cap Dirs)]
    BY DEF ListingDone
<1>6. /\ walk \in [Scans -> WalkType] /\ walk[s] \in WalkType
      /\ IsFiniteSet(walk[s].open) /\ Cardinality(walk[s].open) <= Width(s)
    BY <1>1 DEF Shape, WalksFit
<1>7. /\ walk' = [walk EXCEPT ![s] = walk'[s]]
      /\ walk'[s] = [walk[s] EXCEPT !.open = walk[s].open \ {l},
                                    !.todo = walk[s].todo \cup (Children(l.dir) \cap Dirs)]
    BY <1>5, <1>6
<1>8. /\ walk'[s].open = walk[s].open \ {l}
      /\ walk'[s].todo = walk[s].todo \cup (Children(l.dir) \cap Dirs)
      /\ walk'[s].st = walk[s].st /\ walk'[s].err = walk[s].err
    BY <1>6, <1>7 DEF WalkType
<1>9. WalksFit'
  <2>1. walk'[s] \in WalkType
    <3>1. /\ walk[s].open \ {l} \subseteq Listing
          /\ walk[s].todo \cup (Children(l.dir) \cap Dirs) \subseteq Dirs
        BY <1>6 DEF WalkType
    <3> QED BY <1>6, <1>7, <3>1 DEF WalkType
  <2>2. /\ Width(s) \in Nat /\ Cardinality(walk[s].open) \in Nat
        /\ IsFiniteSet(walk[s].open \ {l})
        /\ Cardinality(walk[s].open \ {l}) = Cardinality(walk[s].open) - 1
      BY <1>6, FS_CardinalityType, FS_RemoveElement, ScanAssumption DEF Width
  <2>3. IsFiniteSet(walk'[s].open) /\ Cardinality(walk'[s].open) <= Width(s)
      BY <1>6, <1>8, <2>2
  <2> QED BY <1>1, <1>7, <2>1, <2>3, WalksKept DEF Shape
<1>10. Shape'
    BY <1>1, <1>2, <1>3, <1>9, PipelineFits DEF Shape, LogsFit, StagingFits, PipesFit
<1>11. Goroutines(s)' /\ CallerKnows(s)' /\ RowFollows(s)' /\ StagingFollows(s)'
  <2>1. ~(pipe[s].st = "done" /\ ~pipe[s].failed)
      BY <1>1, <1>3 DEF ScanInv, Goroutines
  <2> QED BY <1>1, <1>2, <1>3, <1>8, <2>1, ControlStays DEF Pipeline
<1>12. Carried(s)' = Carried(s)
  <2>1. UNION {k.hold : k \in walk[s].open} = UNION {k.hold : k \in walk'[s].open}
      BY <1>5, <1>8
  <2>2. /\ Elements(pipe[s].batch)' = Elements(pipe[s].batch)
        /\ Elements(pipe[s].chan)' = Elements(pipe[s].chan)
      BY <1>3 DEF Elements
  <2> QED BY <1>2, <2>1, <2>2 DEF Carried
<1>13. \A d \in Children(l.dir) : d \in InScope(s)
  <2>1. l.dir = Scope[s] \/ l.dir \in InScope(s)
      BY <1>1, <1>4 DEF ScanInv, Truthful, Merging
  <2> QED BY <2>1, ScopeGrows DEF Children
<1>14. Truthful(s)'
    BY <1>1, <1>3, <1>4, <1>8, <1>12, <1>13 DEF ScanInv, Truthful, Merging, InScope, Above
<1>15. \A q : (Seen(s, q)' <=> Seen(s, q)) /\ (Found(s, q)' <=> Found(s, q))
    BY <1>3, <1>12 DEF Seen, Found
<1>16. Whole(s)'
  <2>1. SUFFICES ASSUME walk[s].err = NoErr, ~pipe[s].failed
                 PROVE  /\ \A k \in walk'[s].open, q \in Paths :
                             ParentOf[q] = k.dir => q \in k.left \/ Found(s, q)
                        /\ \A x \in Dirs : x = Scope[s] \/ Seen(s, x) =>
                             \/ x \in walk'[s].todo
                             \/ \E k \in walk'[s].open :
                                   k.dir = x \/ (x \in Paths /\ k.dir = ParentOf[x])
                             \/ \A q \in Paths : ParentOf[q] = x => Found(s, q)
      BY <1>3, <1>8, <1>15 DEF Whole
  <2>2. /\ \A k \in walk[s].open, q \in Paths :
             ParentOf[q] = k.dir => q \in k.left \/ Found(s, q)
        /\ \A x \in Dirs : x = Scope[s] \/ Seen(s, x) =>
             \/ x \in walk[s].todo
             \/ \E k \in walk[s].open : k.dir = x \/ (x \in Paths /\ k.dir = ParentOf[x])
             \/ \A q \in Paths : ParentOf[q] = x => Found(s, q)
      BY <1>1, <1>4, <2>1 DEF ScanInv, Whole, Merging
  <2>3. \A x \in Dirs \cap Paths : ParentOf[x] = l.dir => x \in walk'[s].todo
      BY <1>8 DEF Children, DiskVersion
  <2>4. \A q \in Paths : ParentOf[q] = l.dir => Found(s, q)
      BY <1>5, <2>2
  <2> QED BY <1>8, <2>2, <2>3, <2>4
<1>17. ScanInv(s)'
    BY <1>11, <1>14, <1>16 DEF ScanInv
<1> QED BY <1>2, <1>10, <1>17, Focus DEF Pipeline

LEMMA WorkerLeavesKeeps ==
    ASSUME SessionInv, NEW s \in Scans, WorkerLeaves(s)
    PROVE  SessionInv'
<1>1. Shape /\ ScanInv(s)
    BY DEF SessionInv
<1>2. Pipeline(s) /\ staging' = staging
    BY ProducerIsPipeline DEF Producer
<1>3. walk[s].st = "failing" /\ stop' = stop /\ log' = log /\ pipe' = pipe
    BY DEF WorkerLeaves, walkOnly, control
<1>4. PICK l \in walk[s].open : Replace(s, {l}, {})
    BY DEF WorkerLeaves
<1>5. /\ WalksFit'
      /\ walk'[s].open = walk[s].open \ {l}
      /\ walk'[s].st = walk[s].st /\ walk'[s].err = walk[s].err
      /\ walk'[s].todo = walk[s].todo
  <2> DEFINE new == {}
  <2>1. new = {} /\ Replace(s, {l}, new)
      BY <1>4
  <2>2. (walk[s].open \ {l}) \cup new = walk[s].open \ {l}
      OBVIOUS
  <2> HIDE DEF new
  <2> QED BY <1>1, <2>1, <2>2, ReplaceFits
<1>6. Shape'
    BY <1>1, <1>2, <1>3, <1>5, PipelineFits DEF Shape, LogsFit, StagingFits, PipesFit
<1>7. Goroutines(s)' /\ CallerKnows(s)' /\ RowFollows(s)' /\ StagingFollows(s)'
  <2>1. ~(pipe[s].st = "done" /\ ~pipe[s].failed)
      BY <1>1, <1>3 DEF ScanInv, Goroutines
  <2> QED BY <1>1, <1>2, <1>3, <1>5, <2>1, ControlStays DEF Pipeline
<1>8. Carried(s)' \subseteq Carried(s)
    BY <1>2, <1>3, <1>5 DEF Carried, Elements
<1>9. Truthful(s)'
    BY <1>1, <1>2, <1>3, <1>5, <1>8, LessIsTrue DEF Pipeline
<1>10. Whole(s)'
    BY <1>1, <1>3, <1>5 DEF ScanInv, Goroutines, Whole
<1> QED BY <1>2, <1>6, <1>7, <1>9, <1>10, Focus DEF Pipeline, ScanInv

LEMMA WalkReturnsKeeps ==
    ASSUME SessionInv, NEW s \in Scans, WalkReturns(s)
    PROVE  SessionInv'
<1>1. Shape /\ ScanInv(s)
    BY DEF SessionInv
<1>2. Pipeline(s) /\ staging' = staging
    BY ProducerIsPipeline DEF Producer
<1>3. /\ walk[s].open = {} /\ log' = log /\ pipe' = pipe
      /\ walk[s].st \in {"walking", "failing"}
      /\ stop' = IF walk'[s].err = NoErr THEN stop ELSE stop \cup {s}
    BY DEF WalkReturns
<1>4. /\ pc[s] = "pipeline" /\ pc'[s] = pc[s] /\ row'[s] = row[s] /\ asked' = asked
      /\ disk' = disk /\ crashes' = crashes
    BY <1>1, <1>2, <1>3, AtWork DEF Pipeline
<1>5. walk \in [Scans -> WalkType] /\ walk[s] \in WalkType
    BY <1>1 DEF Shape, WalksFit
<1>6. /\ walk' = [walk EXCEPT ![s] = walk'[s]] /\ walk'[s] \in WalkType
      /\ walk'[s].st = "closed" /\ walk'[s].open = {} /\ walk'[s].todo = walk[s].todo
      /\ \/ walk[s].st = "walking" /\ walk[s].todo = {}
            /\ walk'[s].err = IF Full(s) /\ s \in stop THEN Canceled ELSE NoErr
         \/ walk[s].st = "failing" /\ walk'[s].err = walk[s].err
  <2>1. CASE walk[s].st = "walking" /\ walk[s].todo = {}
             /\ walk' = [walk EXCEPT ![s].st = "closed",
                        ![s].err = IF Full(s) /\ s \in stop THEN Canceled ELSE NoErr]
    <3> DEFINE e == IF Full(s) /\ s \in stop THEN Canceled ELSE NoErr
    <3>1. e \in {NoErr, Canceled}
        OBVIOUS
    <3>2. walk' = [walk EXCEPT ![s].st = "closed", ![s].err = e]
        BY <2>1
    <3>3. walk'[s].err = e => walk'[s].err = IF Full(s) /\ s \in stop THEN Canceled ELSE NoErr
        OBVIOUS
    <3> HIDE DEF e
    <3>4. /\ walk' = [walk EXCEPT ![s] = walk'[s]]
          /\ walk'[s] = [walk[s] EXCEPT !.st = "closed", !.err = e]
        BY <1>5, <3>2
    <3> QED BY <1>3, <1>5, <2>1, <3>1, <3>3, <3>4 DEF WalkType
  <2>2. CASE walk[s].st = "failing" /\ walk' = [walk EXCEPT ![s].st = "closed"]
    <3>1. /\ walk' = [walk EXCEPT ![s] = walk'[s]]
          /\ walk'[s] = [walk[s] EXCEPT !.st = "closed"]
        BY <1>5, <2>2
    <3> QED BY <1>3, <1>5, <2>2, <3>1 DEF WalkType
  <2> QED BY <2>1, <2>2 DEF WalkReturns
<1>7. WalksFit'
  <2>1. IsFiniteSet(walk'[s].open) /\ Cardinality(walk'[s].open) = 0
      BY <1>6, FS_EmptySet
  <2>2. Width(s) \in Nat
      BY ScanAssumption DEF Width
  <2>3. Cardinality(walk'[s].open) <= Width(s)
      BY <2>1, <2>2
  <2> QED BY <1>1, <1>6, <2>1, <2>3, WalksKept DEF Shape
<1>8. Shape'
    BY <1>1, <1>2, <1>3, <1>7, PipelineFits DEF Shape, LogsFit, StagingFits, PipesFit
<1>9. "walk" # NoErr /\ Canceled # NoErr /\ Canceled # "walk"
    BY ScanAssumption
<1>10. Goroutines(s)'
    BY <1>1, <1>3, <1>4, <1>6, <1>9 DEF ScanInv, Goroutines
<1>11. CallerKnows(s)' /\ RowFollows(s)' /\ StagingFollows(s)'
    BY <1>1, <1>2, <1>3, <1>4 DEF ScanInv, CallerKnows, RowFollows, StagingFollows, EndedPlaces
<1>12. Carried(s)' = Carried(s)
  <2>1. /\ Elements(pipe[s].batch)' = Elements(pipe[s].batch)
        /\ Elements(pipe[s].chan)' = Elements(pipe[s].chan)
      BY <1>3 DEF Elements
  <2>2. (UNION {l.hold : l \in walk[s].open})' = UNION {l.hold : l \in walk[s].open}
      BY <1>3, <1>6
  <2> QED BY <1>2, <2>1, <2>2 DEF Carried
<1>13. Truthful(s)'
    BY <1>1, <1>3, <1>4, <1>6, <1>12, LessIsTrue
<1>14. Whole(s)'
  <2>1. \A q : (Seen(s, q)' <=> Seen(s, q)) /\ (Found(s, q)' <=> Found(s, q))
      BY <1>3, <1>12 DEF Seen, Found
  <2> QED BY <1>1, <1>3, <1>4, <1>6, <1>9, <2>1 DEF ScanInv, Goroutines, Whole, Merging
<1> QED BY <1>2, <1>8, <1>10, <1>11, <1>13, <1>14, Focus DEF Pipeline, ScanInv

-----------------------------------------------------------------------------
(* The consumer.                                                           *)

LEMMA ConsumerIsPipeline ==
    ASSUME SessionInv, NEW s \in Scans, Consumer(s)
    PROVE  Pipeline(s) /\ walk' = walk /\ stop' \in {stop, stop \cup {s}}
<1>1. /\ pipe \in [Scans -> PipeType] /\ log \in [Scans -> LogType]
      /\ staging \in [Scans -> SUBSET Entry]
    BY DEF SessionInv, Shape, PipesFit, LogsFit, StagingFits
<1>2. \A t \in Scans \ {s} : pipe'[t] = pipe[t] /\ log'[t] = log[t] /\ staging'[t] = staging[t]
  <2> TAKE t \in Scans \ {s}
  <2>1. CASE Receive(s)
      BY <1>1, <2>1 DEF Receive
  <2>2. CASE FlushFull(s)
      BY <1>1, <2>2 DEF FlushFull, WriteOf, Stage, Fault
  <2>3. CASE FlushLast(s)
      BY <1>1, <2>3 DEF FlushLast, WriteOf, Stage, Fault
  <2> QED BY <2>1, <2>2, <2>3 DEF Consumer
<1>3. /\ UNCHANGED <<load, disk, edits, entries, row, library, pc, walk, asked, probe, crashes>>
      /\ stop' \in {stop, stop \cup {s}}
    BY DEF Consumer, Receive, FlushFull, FlushLast, WriteOf, pipeOnly, diskVars, probeVars
<1> QED BY <1>2, <1>3 DEF Pipeline, Unmoved

\* A step that moves entries along carries the same ones.
LEMMA CarryingOn ==
    ASSUME NEW s \in Scans, ScanInv(s), Pipeline(s), walk' = walk, Carried(s)' = Carried(s),
           log'[s].absent = log[s].absent, log'[s].changed = log[s].changed,
           pipe'[s].failed = pipe[s].failed \/ pipe'[s].failed = TRUE
    PROVE  Truthful(s)' /\ Whole(s)'
<1>1. disk' = disk /\ pc' = pc
    BY DEF Pipeline
<1>2. Truthful(s)'
    BY <1>1, LessIsTrue
<1>3. \A q : (Seen(s, q)' <=> Seen(s, q)) /\ (Found(s, q)' <=> Found(s, q))
    BY DEF Seen, Found
<1>4. Whole(s)'
    BY <1>1, <1>3 DEF ScanInv, Whole
<1> QED BY <1>2, <1>4

LEMMA ReceiveKeeps ==
    ASSUME SessionInv, NEW s \in Scans, Receive(s)
    PROVE  SessionInv'
<1>1. Shape /\ ScanInv(s)
    BY DEF SessionInv
<1>2. Pipeline(s) /\ walk' = walk
    BY ConsumerIsPipeline DEF Consumer
<1>3. /\ pipe[s].st = "draining" /\ pipe[s].chan # <<>> /\ Len(pipe[s].batch) < BatchSize
      /\ pipe' = [pipe EXCEPT ![s].batch = Append(@, Head(pipe[s].chan)), ![s].chan = Tail(@)]
      /\ staging' = staging /\ stop' = stop /\ log' = log
    BY DEF Receive
<1>4. /\ pipe \in [Scans -> PipeType] /\ pipe[s] \in PipeType
      /\ pipe[s].chan \in Seq(Entry) /\ pipe[s].batch \in Seq(Entry)
      /\ Len(pipe[s].chan) <= QueueSize
    BY <1>1, Facts DEF Shape, PipesFit
<1> DEFINE b == Append(pipe[s].batch, Head(pipe[s].chan))
           c == Tail(pipe[s].chan)
<1>5. /\ Head(pipe[s].chan) \in Entry
      /\ Elements(pipe[s].chan) = {Head(pipe[s].chan)} \cup Elements(c)
    BY <1>3, <1>4, ElementsOfHead
<1>6. Elements(b) = Elements(pipe[s].batch) \cup {Head(pipe[s].chan)}
    BY <1>4, <1>5, ElementsOfAppend
<1>7. /\ b \in Seq(Entry) /\ c \in Seq(Entry)
      /\ Len(b) = Len(pipe[s].batch) + 1 /\ Len(c) = Len(pipe[s].chan) - 1
    BY <1>3, <1>4, <1>5
<1>8. Len(b) <= BatchSize /\ Len(c) <= QueueSize
    BY <1>3, <1>4, <1>7, ScanAssumption
<1>9. /\ pipe' = [pipe EXCEPT ![s] = pipe'[s]]
      /\ pipe'[s] = [pipe[s] EXCEPT !.batch = b, !.chan = c]
    BY <1>3, <1>4
<1> HIDE DEF b, c
<1>10. /\ pipe'[s] \in PipeType /\ pipe'[s].batch = b /\ pipe'[s].chan = c
       /\ pipe'[s].st = pipe[s].st /\ pipe'[s].failed = pipe[s].failed
    BY <1>4, <1>7, <1>9 DEF PipeType
<1>11. PipesFit'
    BY <1>1, <1>8, <1>9, <1>10, PipesKept DEF Shape
<1>12. Shape'
    BY <1>1, <1>2, <1>3, <1>11, PipelineFits DEF Shape, LogsFit, StagingFits, WalksFit
<1>13. Goroutines(s)' /\ CallerKnows(s)' /\ RowFollows(s)' /\ StagingFollows(s)'
  <2>1. walk[s].st = "closed" => walk'[s].open = {}
      BY <1>1, <1>2 DEF ScanInv, Goroutines
  <2> QED BY <1>1, <1>2, <1>3, <1>10, <2>1, ControlStays DEF Pipeline
<1>14. Carried(s)' = Carried(s)
  <2>1. Elements(pipe[s].batch)' = Elements(b) /\ Elements(pipe[s].chan)' = Elements(c)
      BY <1>10 DEF Elements
  <2> QED BY <1>2, <1>3, <1>5, <1>6, <2>1 DEF Carried
<1>15. Truthful(s)' /\ Whole(s)'
    BY <1>1, <1>2, <1>3, <1>10, <1>14, CarryingOn
<1> QED BY <1>2, <1>12, <1>13, <1>15, Focus DEF Pipeline, ScanInv

\* The consumer gives up a batch it could not write.
LEMMA WriteFailsKeeps ==
    ASSUME SessionInv, NEW s \in Scans, Pipeline(s), walk' = walk, staging' = staging,
           stop' \in {stop, stop \cup {s}}, pipe[s].st = "draining",
           pipe' = [pipe EXCEPT ![s].st = "done", ![s].failed = TRUE],
           log' = [log EXCEPT ![s].faults = @ \cup {"write"}]
    PROVE  SessionInv'
<1>1. Shape /\ ScanInv(s)
    BY DEF SessionInv
<1>2. /\ pipe \in [Scans -> PipeType] /\ pipe[s] \in PipeType
      /\ log \in [Scans -> LogType] /\ log[s] \in LogType
      /\ Len(pipe[s].chan) <= QueueSize /\ Len(pipe[s].batch) <= BatchSize
    BY <1>1 DEF Shape, PipesFit, LogsFit
<1>3. /\ pipe' = [pipe EXCEPT ![s] = pipe'[s]]
      /\ pipe'[s] = [pipe[s] EXCEPT !.st = "done", !.failed = TRUE]
      /\ log' = [log EXCEPT ![s] = log'[s]]
      /\ log'[s] = [log[s] EXCEPT !.faults = log[s].faults \cup {"write"}]
    BY <1>2
<1>4. /\ pipe'[s] \in PipeType /\ pipe'[s].st = "done" /\ pipe'[s].failed = TRUE
      /\ pipe'[s].chan = pipe[s].chan /\ pipe'[s].batch = pipe[s].batch
    BY <1>2, <1>3 DEF PipeType
<1>5. /\ log'[s] \in LogType /\ log'[s].faults = log[s].faults \cup {"write"}
      /\ log'[s].absent = log[s].absent /\ log'[s].changed = log[s].changed
      /\ log'[s].merged = log[s].merged
    BY <1>2, <1>3 DEF LogType, Kinds
<1>6. PipesFit' /\ LogsFit'
    BY <1>1, <1>2, <1>3, <1>4, <1>5, PipesKept, LogsKept DEF Shape
<1>7. Shape'
    BY <1>1, <1>6, PipelineFits DEF Shape, StagingFits, WalksFit
<1>8. /\ pc[s] = "pipeline" /\ pc'[s] = pc[s] /\ row'[s] = row[s] /\ asked' = asked
      /\ disk' = disk /\ crashes' = crashes
    BY AtWork DEF Pipeline
<1>9. Goroutines(s)'
    BY <1>1, <1>4, <1>5, <1>8 DEF ScanInv, Goroutines
<1>10. CallerKnows(s)' /\ RowFollows(s)' /\ StagingFollows(s)'
    BY <1>1, <1>5, <1>8 DEF ScanInv, CallerKnows, RowFollows, StagingFollows, EndedPlaces
<1>11. Carried(s)' = Carried(s)
    BY <1>4 DEF Carried, Elements
<1>12. Truthful(s)' /\ Whole(s)'
    BY <1>1, <1>4, <1>5, <1>11, CarryingOn
<1> QED BY <1>7, <1>8, <1>9, <1>10, <1>12, Focus DEF Pipeline, ScanInv

\* A batch is written: its rows are staged.
LEMMA BatchIsStaged ==
    ASSUME SessionInv, NEW s \in Scans, Pipeline(s), walk' = walk, stop' = stop, log' = log,
           Stage(s), pipe[s].st = "draining",
           pipe' = [pipe EXCEPT ![s].batch = <<>>]
           \/ (pipe' = [pipe EXCEPT ![s].batch = <<>>, ![s].st = "done"]
               /\ walk[s].st = "closed" /\ pipe[s].chan = <<>>)
    PROVE  SessionInv'
<1>1. Shape /\ ScanInv(s)
    BY DEF SessionInv
<1>2. /\ pipe \in [Scans -> PipeType] /\ pipe[s] \in PipeType
      /\ staging \in [Scans -> SUBSET Entry] /\ Elements(pipe[s].batch) \subseteq Entry
      /\ Len(pipe[s].chan) <= QueueSize /\ Len(pipe[s].batch) <= BatchSize
    BY <1>1, Facts, ElementsAreEntries DEF Shape, PipesFit, StagingFits
<1>3. pipe[s].failed = FALSE
    BY <1>1, <1>2 DEF ScanInv, Goroutines, PipeType
<1>4. /\ pipe' = [pipe EXCEPT ![s] = pipe'[s]]
      /\ pipe'[s] \in PipeType /\ pipe'[s].batch = <<>> /\ pipe'[s].chan = pipe[s].chan
      /\ pipe'[s].failed = pipe[s].failed
      /\ \/ pipe'[s].st = pipe[s].st
         \/ pipe'[s].st = "done" /\ walk[s].st = "closed" /\ pipe[s].chan = <<>>
  <2>1. \/ pipe'[s] = [pipe[s] EXCEPT !.batch = <<>>]
        \/ pipe'[s] = [pipe[s] EXCEPT !.batch = <<>>, !.st = "done"]
           /\ walk[s].st = "closed" /\ pipe[s].chan = <<>>
      BY <1>2
  <2>2. <<>> \in Seq(Entry)
      OBVIOUS
  <2>3. pipe' = [pipe EXCEPT ![s] = pipe'[s]]
      BY <1>2
  <2>4. CASE pipe'[s] = [pipe[s] EXCEPT !.batch = <<>>]
      BY <1>2, <2>2, <2>3, <2>4 DEF PipeType
  <2>5. CASE pipe'[s] = [pipe[s] EXCEPT !.batch = <<>>, !.st = "done"]
             /\ walk[s].st = "closed" /\ pipe[s].chan = <<>>
      BY <1>2, <2>2, <2>3, <2>5 DEF PipeType
  <2> QED BY <2>1, <2>4, <2>5
<1>5. staging'[s] = staging[s] \cup Elements(pipe[s].batch) /\ StagingFits'
    BY <1>2 DEF Stage, StagingFits
<1>6. PipesFit'
    BY <1>1, <1>2, <1>4, PipesKept, ScanAssumption DEF Shape
<1>7. Shape'
    BY <1>1, <1>5, <1>6, PipelineFits DEF Shape, LogsFit, WalksFit
<1>8. /\ pc[s] = "pipeline" /\ pc'[s] = pc[s] /\ row'[s] = row[s] /\ asked' = asked
      /\ disk' = disk /\ crashes' = crashes
    BY AtWork DEF Pipeline
<1>9. Goroutines(s)'
    BY <1>1, <1>3, <1>4, <1>8 DEF ScanInv, Goroutines
<1>10. CallerKnows(s)' /\ RowFollows(s)' /\ StagingFollows(s)'
    BY <1>1, <1>8 DEF ScanInv, CallerKnows, RowFollows, StagingFollows, EndedPlaces
<1>11. Carried(s)' = Carried(s)
  <2>1. Elements(pipe[s].batch)' = {} /\ Elements(pipe[s].chan)' = Elements(pipe[s].chan)
      BY <1>4, NoElements DEF Elements
  <2> QED BY <1>5, <2>1 DEF Carried
<1>12. Truthful(s)' /\ Whole(s)'
    BY <1>1, <1>4, <1>11, CarryingOn
<1> QED BY <1>7, <1>8, <1>9, <1>10, <1>12, Focus DEF Pipeline, ScanInv

LEMMA FlushKeeps ==
    ASSUME SessionInv, NEW s \in Scans, FlushFull(s) \/ FlushLast(s)
    PROVE  SessionInv'
<1>1. Pipeline(s) /\ walk' = walk /\ stop' \in {stop, stop \cup {s}}
    BY ConsumerIsPipeline DEF Consumer
<1>2. CASE FlushFull(s)
  <2>1. \/ Stage(s) /\ pipe' = [pipe EXCEPT ![s].batch = <<>>] /\ stop' = stop /\ log' = log
        \/ /\ pipe' = [pipe EXCEPT ![s].st = "done", ![s].failed = TRUE]
           /\ log' = [log EXCEPT ![s].faults = @ \cup {"write"}] /\ staging' = staging
      BY <1>2 DEF FlushFull, WriteOf, Fault
  <2>2. pipe[s].st = "draining"
      BY <1>2 DEF FlushFull
  <2> QED BY <1>1, <2>1, <2>2, BatchIsStaged, WriteFailsKeeps
<1>3. CASE FlushLast(s)
  <2>1. \/ /\ Stage(s) /\ pipe' = [pipe EXCEPT ![s].batch = <<>>, ![s].st = "done"]
           /\ stop' = stop /\ log' = log
        \/ /\ pipe' = [pipe EXCEPT ![s].st = "done", ![s].failed = TRUE]
           /\ log' = [log EXCEPT ![s].faults = @ \cup {"write"}] /\ staging' = staging
      BY <1>3 DEF FlushLast, WriteOf, Fault
  <2>2. pipe[s].st = "draining" /\ walk[s].st = "closed" /\ pipe[s].chan = <<>>
      BY <1>3 DEF FlushLast
  <2> QED BY <1>1, <2>1, <2>2, BatchIsStaged, WriteFailsKeeps
<1> QED BY <1>2, <1>3

-----------------------------------------------------------------------------
(* The caller: what its steps have in common.                              *)

\* A step of scan s's caller, once both goroutines are done.
CallerStep(s) ==
    /\ \A t \in Scans \ {s} : Unmoved(t)
    /\ UNCHANGED <<load, disk, edits, walk, pipe, asked, stop, probe, crashes>>
    /\ pc[s] \notin {"idle", "returned", "dead"}
    /\ walk[s].st = "closed" /\ pipe[s].st = "done" /\ pc'[s] # "pipeline"

LEMMA CallerFocus ==
    ASSUME SessionInv, NEW s \in Scans, CallerStep(s),
           EntriesFit', StagingFits', RowsFit', PlacesFit', LogsFit',
           library' \in {"none", "completed", "failed", "canceled"},
           CallerKnows(s)', RowFollows(s)', StagingFollows(s)', Truthful(s)', Whole(s)'
    PROVE  SessionInv'
<1>1. WalksFit' /\ PipesFit' /\ OthersFit'
    BY DEF SessionInv, Shape, WalksFit, PipesFit, OthersFit, CallerStep
<1>2. Goroutines(s)'
    BY DEF SessionInv, ScanInv, Goroutines, CallerStep
<1> QED BY <1>1, <1>2, Focus DEF Shape, ScanInv, CallerStep

\* After the merge, or without one, what was read does not matter any more.
LEMMA NoMoreMerging ==
    ASSUME NEW s \in Scans, pc'[s] \notin Merging
    PROVE  Truthful(s)' /\ Whole(s)'
BY DEF Truthful, Whole

LEMMA GotoFits ==
    ASSUME PlacesFit, NEW s \in Scans, NEW place \in Places, Goto(s, place)
    PROVE  PlacesFit' /\ pc'[s] = place /\ \A t \in Scans \ {s} : pc'[t] = pc[t]
BY DEF PlacesFit, Goto

LEMMA StatusFits ==
    ASSUME RowsFit, NEW s \in Scans, NEW status, NEW code \in Codes, Status(s, status, code),
           status \in {"running", "merging", "completed", "failed", "canceled"}
    PROVE  /\ RowsFit' /\ row'[s].status = status /\ row'[s].code = code
           /\ \A t \in Scans \ {s} : row'[t] = row[t]
<1>1. [status |-> status, code |-> code] \in RowType
    BY DEF RowType
<1> QED BY <1>1 DEF RowsFit, Status

LEMMA CleanFits ==
    ASSUME StagingFits, NEW s \in Scans, Clean(s)
    PROVE  StagingFits' /\ staging'[s] = {} /\ \A t \in Scans \ {s} : staging'[t] = staging[t]
BY DEF StagingFits, Clean

\* A history grows: by a fault, by the merge, by the caller's answer.
LEMMA LogGrows ==
    ASSUME LogsFit, NEW s \in Scans, NEW hit \in SUBSET Kinds, NEW merged \in BOOLEAN,
           NEW result \in {"none", "completed", "failed", "canceled"},
           log' = [log EXCEPT ![s] = [log[s] EXCEPT !.faults = log[s].faults \cup hit,
                                                    !.merged = merged, !.result = result]]
    PROVE  /\ LogsFit'
           /\ log'[s].faults = log[s].faults \cup hit /\ log'[s].merged = merged
           /\ log'[s].absent = log[s].absent /\ log'[s].changed = log[s].changed
           /\ \A t \in Scans \ {s} : log'[t] = log[t]
<1>1. log[s] \in LogType /\ log \in [Scans -> LogType]
    BY DEF LogsFit
<1> DEFINE all == log[s].faults \cup hit
<1>2. all \subseteq Kinds
    BY <1>1 DEF LogType
<1>3. log' = [log EXCEPT ![s] = [log[s] EXCEPT !.faults = all, !.merged = merged, !.result = result]]
    OBVIOUS
<1>4. SUFFICES /\ LogsFit'
               /\ log'[s].faults = all /\ log'[s].merged = merged
               /\ log'[s].absent = log[s].absent /\ log'[s].changed = log[s].changed
               /\ \A t \in Scans \ {s} : log'[t] = log[t]
    OBVIOUS
<1> HIDE DEF all
<1>5. /\ log'[s] \in LogType /\ log'[s].faults = all /\ log'[s].merged = merged
      /\ log'[s].absent = log[s].absent /\ log'[s].changed = log[s].changed
  <2>1. log'[s] = [log[s] EXCEPT !.faults = all, !.merged = merged, !.result = result]
      BY <1>1, <1>3
  <2>2. log'[s] \in LogType
      BY <1>1, <1>2, <2>1 DEF LogType
  <2>3. /\ log'[s].faults = all /\ log'[s].merged = merged
        /\ log'[s].absent = log[s].absent /\ log'[s].changed = log[s].changed
      BY <1>1, <2>1 DEF LogType
  <2> QED BY <2>2, <2>3
<1> QED BY <1>1, <1>3, <1>5 DEF LogsFit

LEMMA FaultFits ==
    ASSUME LogsFit, NEW s \in Scans, NEW kind \in Kinds, Fault(s, kind)
    PROVE  /\ LogsFit'
           /\ log'[s].faults = log[s].faults \cup {kind} /\ log'[s].merged = log[s].merged
           /\ log'[s].absent = log[s].absent /\ log'[s].changed = log[s].changed
           /\ \A t \in Scans \ {s} : log'[t] = log[t]
<1>1. log[s] \in LogType /\ log \in [Scans -> LogType]
    BY DEF LogsFit
<1>2. /\ log[s].merged \in BOOLEAN
      /\ log[s].result \in {"none", "completed", "failed", "canceled"}
    BY <1>1 DEF LogType
<1>3. log' = [log EXCEPT ![s] = [log[s] EXCEPT !.faults = log[s].faults \cup {kind},
                                   !.merged = log[s].merged, !.result = log[s].result]]
    BY <1>1 DEF Fault, LogType
<1>4. {kind} \in SUBSET Kinds
    OBVIOUS
<1> QED BY <1>2, <1>3, <1>4, LogGrows

LEMMA FinishFits ==
    ASSUME LogsFit, PlacesFit, NEW s \in Scans,
           NEW result \in {"completed", "failed", "canceled"}, Finish(s, result)
    PROVE  /\ LogsFit' /\ PlacesFit' /\ pc'[s] = "return"
           /\ log'[s].faults = log[s].faults /\ log'[s].merged = log[s].merged
           /\ \A t \in Scans \ {s} : log'[t] = log[t] /\ pc'[t] = pc[t]
<1>1. log[s] \in LogType /\ log \in [Scans -> LogType]
    BY DEF LogsFit
<1>2. log[s].merged \in BOOLEAN
    BY <1>1 DEF LogType
<1>3. log' = [log EXCEPT ![s] = [log[s] EXCEPT !.faults = log[s].faults \cup {},
                                   !.merged = log[s].merged, !.result = result]]
    BY <1>1 DEF Finish, LogType
<1>4. /\ LogsFit' /\ log'[s].faults = log[s].faults \cup {} /\ log'[s].merged = log[s].merged
      /\ \A t \in Scans \ {s} : log'[t] = log[t]
    BY <1>2, <1>3, LogGrows
<1>5. "return" \in Places
    BY DEF Places
<1> QED BY <1>4, <1>5, GotoFits DEF Finish

LEMMA FinishFaultFits ==
    ASSUME LogsFit, PlacesFit, NEW s \in Scans, NEW kind \in Kinds,
           NEW result \in {"completed", "failed", "canceled"}, FinishFault(s, kind, result)
    PROVE  /\ LogsFit' /\ PlacesFit' /\ pc'[s] = "return"
           /\ log'[s].faults = log[s].faults \cup {kind} /\ log'[s].merged = log[s].merged
           /\ \A t \in Scans \ {s} : log'[t] = log[t] /\ pc'[t] = pc[t]
<1>1. log[s] \in LogType /\ log \in [Scans -> LogType]
    BY DEF LogsFit
<1>2. log[s].merged \in BOOLEAN
    BY <1>1 DEF LogType
<1>3. log' = [log EXCEPT ![s] = [log[s] EXCEPT !.faults = log[s].faults \cup {kind},
                                   !.merged = log[s].merged, !.result = result]]
    BY <1>1 DEF FinishFault, LogType
<1>4. /\ LogsFit' /\ log'[s].faults = log[s].faults \cup {kind}
      /\ log'[s].merged = log[s].merged
      /\ \A t \in Scans \ {s} : log'[t] = log[t]
  <2>1. /\ {kind} \in SUBSET Kinds
        /\ result \in {"none", "completed", "failed", "canceled"}
      OBVIOUS
  <2> QED BY <1>2, <1>3, <2>1, LogGrows
<1>5. "return" \in Places
    BY DEF Places
<1> QED BY <1>4, <1>5, GotoFits DEF FinishFault

\* The statement the caller is at tells that the pipeline is over.
LEMMA CallerIsAlone ==
    ASSUME SessionInv, NEW s \in Scans, pc[s] \notin {"idle", "pipeline", "returned", "dead"},
           \A t \in Scans \ {s} : log'[t] = log[t] /\ pc'[t] = pc[t] /\ row'[t] = row[t]
                                  /\ staging'[t] = staging[t],
           UNCHANGED <<diskVars, walk, pipe, control, probeVars, crashes>>,
           pc'[s] # "pipeline"
    PROVE  CallerStep(s)
BY DEF SessionInv, ScanInv, Goroutines, CallerStep, Unmoved, diskVars, control, probeVars

-----------------------------------------------------------------------------
(* The caller, statement by statement.                                     *)

\* A step that leaves what was read alone, and gets no nearer to the merge.
LEMMA StillTrue ==
    ASSUME NEW s \in Scans, ScanInv(s), UNCHANGED <<disk, walk, pipe, staging>>,
           log'[s].absent = log[s].absent, log'[s].changed = log[s].changed,
           pc'[s] \in Merging => pc[s] \in Merging
    PROVE  Truthful(s)' /\ Whole(s)'
<1>1. Carried(s)' = Carried(s)
    BY DEF Carried, Elements
<1>2. Truthful(s)'
    BY <1>1, LessIsTrue
<1>3. \A q : (Seen(s, q)' <=> Seen(s, q)) /\ (Found(s, q)' <=> Found(s, q))
    BY <1>1 DEF Seen, Found
<1>4. Whole(s)'
    BY <1>3 DEF ScanInv, Whole
<1> QED BY <1>2, <1>4

LEMMA JoinKeeps ==
    ASSUME SessionInv, NEW s \in Scans, Join(s)
    PROVE  SessionInv'
<1>1. Shape /\ ScanInv(s)
    BY DEF SessionInv
<1>2. /\ pc[s] = "pipeline" /\ walk[s].st = "closed" /\ pipe[s].st = "done"
      /\ UNCHANGED <<load, disk, edits, library, walk, pipe, asked, stop, probe, crashes,
                     entries, staging, row, log>>
    BY DEF Join, callerOnly, diskVars, control, probeVars
<1> DEFINE place == IF s \in asked THEN "record canceled"
                    ELSE IF walk[s].err # NoErr \/ pipe[s].failed THEN "clean failed"
                    ELSE "start merge"
<1>3. place \in Places /\ Goto(s, place)
    BY DEF Join, Places
<1>4. PlacesFit' /\ pc'[s] = place /\ \A t \in Scans \ {s} : pc'[t] = pc[t]
    BY <1>1, <1>3, GotoFits DEF Shape
<1>5. CallerStep(s)
    BY <1>2, <1>4 DEF CallerStep, Unmoved
<1>6. CallerKnows(s)'
  <2>1. /\ log[s].faults \subseteq {"walk", "write"} /\ ~log[s].merged
        /\ ("walk" \in log[s].faults <=> walk[s].err = "walk")
        /\ ("write" \in log[s].faults <=> pipe[s].failed)
        /\ (walk[s].err = Canceled => s \in asked \/ pipe[s].failed)
        /\ walk[s].err \in {NoErr, Canceled, "walk"} /\ "walk" # NoErr
      BY <1>1, <1>2, Facts, ScanAssumption DEF ScanInv, CallerKnows, Goroutines
  <2>2. CASE s \in asked
      BY <1>2, <1>4, <2>1, <2>2 DEF CallerKnows
  <2>3. CASE s \notin asked /\ (walk[s].err # NoErr \/ pipe[s].failed)
      BY <1>2, <1>4, <2>1, <2>3 DEF CallerKnows
  <2>4. CASE s \notin asked /\ walk[s].err = NoErr /\ ~pipe[s].failed
    <3>1. log[s].faults = {} /\ pc'[s] = "start merge"
        BY <1>4, <2>1, <2>4
    <3> QED BY <1>2, <2>1, <2>4, <3>1 DEF CallerKnows
  <2> QED BY <2>2, <2>3, <2>4
<1>7. RowFollows(s)' /\ StagingFollows(s)'
    BY <1>1, <1>2, <1>4 DEF ScanInv, RowFollows, StagingFollows, EndedPlaces
<1>8. Truthful(s)' /\ Whole(s)'
    BY <1>1, <1>2, StillTrue DEF Merging
<1>9. EntriesFit' /\ StagingFits' /\ RowsFit' /\ LogsFit'
    BY <1>1, <1>2 DEF Shape, EntriesFit, StagingFits, RowsFit, LogsFit
<1> QED BY <1>1, <1>2, <1>4, <1>5, <1>6, <1>7, <1>8, <1>9, CallerFocus DEF Shape, OthersFit

LEMMA RecordCanceledKeeps ==
    ASSUME SessionInv, NEW s \in Scans, RecordCanceled(s)
    PROVE  SessionInv'
<1>1. Shape /\ ScanInv(s)
    BY DEF SessionInv
<1>2. /\ pc[s] = "record canceled" /\ Goto(s, "clean canceled")
      /\ UNCHANGED <<entries, staging, library, diskVars, walk, pipe, control, probeVars, crashes>>
    BY DEF RecordCanceled, callerOnly
<1>3. PlacesFit' /\ pc'[s] = "clean canceled" /\ \A t \in Scans \ {s} : pc'[t] = pc[t]
    BY <1>1, <1>2, GotoFits DEF Shape, Places
<1>4. \/ Status(s, "canceled", "SCAN_CANCELLED") /\ log' = log
      \/ Fault(s, "status") /\ row' = row
    BY DEF RecordCanceled, WriteOf
<1>5. /\ RowsFit' /\ LogsFit' /\ log'[s].merged = log[s].merged
      /\ \/ row'[s].status = "canceled" /\ row'[s].code = "SCAN_CANCELLED"
            /\ log'[s].faults = log[s].faults
         \/ row'[s] = row[s] /\ log'[s].faults = log[s].faults \cup {"status"}
      /\ \A t \in Scans \ {s} : log'[t] = log[t] /\ row'[t] = row[t]
  <2>1. CASE Status(s, "canceled", "SCAN_CANCELLED") /\ log' = log
    <3>1. "SCAN_CANCELLED" \in Codes
        BY DEF Codes
    <3> QED BY <1>1, <2>1, <3>1, StatusFits DEF Shape, LogsFit
  <2>2. CASE Fault(s, "status") /\ row' = row
    <3>1. "status" \in Kinds
        BY DEF Kinds
    <3> QED BY <1>1, <2>2, <3>1, FaultFits DEF Shape, RowsFit
  <2> QED BY <1>4, <2>1, <2>2
<1>6. CallerStep(s)
    BY <1>2, <1>3, <1>5, CallerIsAlone
<1>7. s \in asked /\ asked' = asked /\ crashes' = crashes /\ ~log[s].merged
    BY <1>1, <1>2 DEF ScanInv, CallerKnows, control
<1>8. CallerKnows(s)'
    BY <1>3, <1>5, <1>7 DEF CallerKnows
<1>9. RowFollows(s)'
    BY <1>1, <1>2, <1>3, <1>5, <1>7 DEF ScanInv, RowFollows, EndedPlaces
<1>10. StagingFollows(s)'
    BY <1>3 DEF StagingFollows
<1>11. Truthful(s)' /\ Whole(s)'
    BY <1>3, NoMoreMerging DEF Merging
<1>12. EntriesFit' /\ StagingFits'
    BY <1>1, <1>2 DEF Shape, EntriesFit, StagingFits
<1> QED BY <1>1, <1>2, <1>3, <1>5, <1>6, <1>8, <1>9, <1>10, <1>11, <1>12, CallerFocus
        DEF Shape, OthersFit

LEMMA CleanCanceledKeeps ==
    ASSUME SessionInv, NEW s \in Scans, CleanCanceled(s)
    PROVE  SessionInv'
<1>1. Shape /\ ScanInv(s)
    BY DEF SessionInv
<1>2. /\ pc[s] = "clean canceled"
      /\ UNCHANGED <<entries, row, library, diskVars, walk, pipe, control, probeVars, crashes>>
    BY DEF CleanCanceled, callerOnly
<1>3. \/ Clean(s) /\ Finish(s, "canceled")
      \/ FinishFault(s, "cleanup", "canceled") /\ staging' = staging
    BY DEF CleanCanceled
<1>4. /\ StagingFits' /\ LogsFit' /\ PlacesFit' /\ pc'[s] = "return"
      /\ log'[s].merged = log[s].merged
      /\ \/ staging'[s] = {} /\ log'[s].faults = log[s].faults
         \/ log'[s].faults = log[s].faults \cup {"cleanup"}
      /\ \A t \in Scans \ {s} : log'[t] = log[t] /\ pc'[t] = pc[t] /\ staging'[t] = staging[t]
  <2>1. CASE Clean(s) /\ Finish(s, "canceled")
      BY <1>1, <2>1, CleanFits, FinishFits DEF Shape
  <2>2. CASE FinishFault(s, "cleanup", "canceled") /\ staging' = staging
    <3>1. "cleanup" \in Kinds
        BY DEF Kinds
    <3> QED BY <1>1, <2>2, <3>1, FinishFaultFits DEF Shape, StagingFits
  <2> QED BY <1>3, <2>1, <2>2
<1>5. CallerStep(s)
    BY <1>2, <1>4, CallerIsAlone
<1>6. CallerKnows(s)' /\ StagingFollows(s)'
    BY <1>4 DEF CallerKnows, StagingFollows
<1>7. RowFollows(s)'
    BY <1>1, <1>2, <1>4 DEF ScanInv, RowFollows, EndedPlaces, control
<1>8. Truthful(s)' /\ Whole(s)'
    BY <1>4, NoMoreMerging DEF Merging
<1>9. EntriesFit' /\ RowsFit'
    BY <1>1, <1>2 DEF Shape, EntriesFit, RowsFit
<1> QED BY <1>1, <1>2, <1>4, <1>5, <1>6, <1>7, <1>8, <1>9, CallerFocus DEF Shape, OthersFit

LEMMA CleanFailedKeeps ==
    ASSUME SessionInv, NEW s \in Scans, CleanFailed(s)
    PROVE  SessionInv'
<1>1. Shape /\ ScanInv(s)
    BY DEF SessionInv
<1>2. /\ pc[s] = "clean failed" /\ Goto(s, "record failed")
      /\ UNCHANGED <<entries, row, library, diskVars, walk, pipe, control, probeVars, crashes>>
    BY DEF CleanFailed, callerOnly
<1>3. PlacesFit' /\ pc'[s] = "record failed" /\ \A t \in Scans \ {s} : pc'[t] = pc[t]
    BY <1>1, <1>2, GotoFits DEF Shape, Places
<1>4. \/ Clean(s) /\ log' = log
      \/ Fault(s, "cleanup") /\ staging' = staging
    BY DEF CleanFailed, WriteOf
<1>5. /\ StagingFits' /\ LogsFit' /\ log'[s].merged = log[s].merged
      /\ \/ staging'[s] = {} /\ log'[s].faults = log[s].faults
         \/ log'[s].faults = log[s].faults \cup {"cleanup"}
      /\ \A t \in Scans \ {s} : log'[t] = log[t] /\ staging'[t] = staging[t]
  <2>1. CASE Clean(s) /\ log' = log
      BY <1>1, <2>1, CleanFits DEF Shape, LogsFit
  <2>2. CASE Fault(s, "cleanup") /\ staging' = staging
    <3>1. "cleanup" \in Kinds
        BY DEF Kinds
    <3> QED BY <1>1, <2>2, <3>1, FaultFits DEF Shape, StagingFits
  <2> QED BY <1>4, <2>1, <2>2
<1>6. CallerStep(s)
    BY <1>2, <1>3, <1>5, CallerIsAlone
<1>7. CallerKnows(s)' /\ StagingFollows(s)'
    BY <1>1, <1>2, <1>3, <1>5 DEF ScanInv, CallerKnows, StagingFollows
<1>8. RowFollows(s)'
    BY <1>1, <1>2, <1>3, <1>5 DEF ScanInv, RowFollows, EndedPlaces
<1>9. Truthful(s)' /\ Whole(s)'
    BY <1>3, NoMoreMerging DEF Merging
<1>10. EntriesFit' /\ RowsFit'
    BY <1>1, <1>2 DEF Shape, EntriesFit, RowsFit
<1> QED BY <1>1, <1>2, <1>3, <1>5, <1>6, <1>7, <1>8, <1>9, <1>10, CallerFocus
        DEF Shape, OthersFit

LEMMA RecordFailedKeeps ==
    ASSUME SessionInv, NEW s \in Scans, RecordFailed(s)
    PROVE  SessionInv'
<1>1. Shape /\ ScanInv(s)
    BY DEF SessionInv
<1>2. /\ pc[s] = "record failed"
      /\ UNCHANGED <<entries, staging, library, diskVars, walk, pipe, control, probeVars, crashes>>
    BY DEF RecordFailed, callerOnly
<1>3. PrimaryCode(walk[s].err, pipe[s].failed) \in Codes
    BY DEF PrimaryCode, Codes
<1>4. /\ RowsFit' /\ LogsFit' /\ PlacesFit' /\ pc'[s] = "return"
      /\ log'[s].merged = log[s].merged
      /\ \/ /\ row'[s].status = "failed" /\ log'[s].faults = log[s].faults
            /\ row'[s].code = PrimaryCode(walk[s].err, pipe[s].failed)
         \/ row'[s] = row[s] /\ log'[s].faults = log[s].faults \cup {"status"}
      /\ \A t \in Scans \ {s} : log'[t] = log[t] /\ pc'[t] = pc[t] /\ row'[t] = row[t]
  <2>1. CASE Status(s, "failed", PrimaryCode(walk[s].err, pipe[s].failed)) /\ Finish(s, "failed")
      BY <1>1, <1>3, <2>1, StatusFits, FinishFits DEF Shape
  <2>2. CASE FinishFault(s, "status", "failed") /\ row' = row
    <3>1. "status" \in Kinds
        BY DEF Kinds
    <3> QED BY <1>1, <2>2, <3>1, FinishFaultFits DEF Shape, RowsFit
  <2> QED BY <2>1, <2>2 DEF RecordFailed
<1>5. CallerStep(s)
    BY <1>2, <1>4, CallerIsAlone
<1>6. CallerKnows(s)' /\ StagingFollows(s)'
    BY <1>1, <1>2, <1>4 DEF ScanInv, CallerKnows, StagingFollows
<1>7. RowFollows(s)'
  <2>1. /\ walk[s].err = "walk" \/ pipe[s].failed
        /\ ("walk" \in log[s].faults <=> walk[s].err = "walk")
        /\ (pipe[s].failed => "write" \in log[s].faults)
        /\ walk[s].err \in {NoErr, Canceled, "walk"}
        /\ "walk" \notin {Canceled, NoErr}
      BY <1>1, <1>2, Facts, ScanAssumption DEF ScanInv, CallerKnows
  <2>2. LET code == PrimaryCode(walk[s].err, pipe[s].failed) IN
        \/ code = "SCAN_WALK_FAILED" /\ "walk" \in log[s].faults
        \/ code = "STAGING_WRITE_FAILED" /\ "write" \in log[s].faults /\ "walk" \notin log[s].faults
      BY <2>1 DEF PrimaryCode
  <2> QED BY <1>1, <1>2, <1>4, <2>2 DEF ScanInv, RowFollows, EndedPlaces
<1>8. Truthful(s)' /\ Whole(s)'
    BY <1>4, NoMoreMerging DEF Merging
<1>9. EntriesFit' /\ StagingFits'
    BY <1>1, <1>2 DEF Shape, EntriesFit, StagingFits
<1> QED BY <1>1, <1>2, <1>4, <1>5, <1>6, <1>7, <1>8, <1>9, CallerFocus DEF Shape, OthersFit

LEMMA StartMergeKeeps ==
    ASSUME SessionInv, NEW s \in Scans, StartMerge(s)
    PROVE  SessionInv'
<1>1. Shape /\ ScanInv(s)
    BY DEF SessionInv
<1>2. /\ pc[s] = "start merge"
      /\ UNCHANGED <<entries, staging, library, diskVars, walk, pipe, control, probeVars, crashes>>
    BY DEF StartMerge, callerOnly
<1>3. \/ Status(s, "merging", "none") /\ Goto(s, "merge") /\ log' = log
      \/ FinishFault(s, "status", "failed") /\ row' = row
    BY DEF StartMerge
<1>4. /\ RowsFit' /\ LogsFit' /\ PlacesFit' /\ log'[s].merged = log[s].merged
      /\ \/ /\ row'[s].status = "merging" /\ row'[s].code = "none"
            /\ pc'[s] = "merge" /\ log'[s] = log[s]
         \/ /\ row'[s] = row[s] /\ pc'[s] = "return"
            /\ log'[s].faults = log[s].faults \cup {"status"}
      /\ \A t \in Scans \ {s} : log'[t] = log[t] /\ pc'[t] = pc[t] /\ row'[t] = row[t]
  <2>1. CASE Status(s, "merging", "none") /\ Goto(s, "merge") /\ log' = log
    <3>1. "none" \in Codes /\ "merge" \in Places
        BY DEF Codes, Places
    <3> QED BY <1>1, <2>1, <3>1, StatusFits, GotoFits DEF Shape, LogsFit
  <2>2. CASE FinishFault(s, "status", "failed") /\ row' = row
    <3>1. "status" \in Kinds
        BY DEF Kinds
    <3> QED BY <1>1, <2>2, <3>1, FinishFaultFits DEF Shape, RowsFit
  <2> QED BY <1>3, <2>1, <2>2
<1>5. CallerStep(s)
    BY <1>2, <1>4, CallerIsAlone
<1>6. CallerKnows(s)' /\ StagingFollows(s)'
    BY <1>1, <1>2, <1>4 DEF ScanInv, CallerKnows, StagingFollows
<1>7. RowFollows(s)'
    BY <1>1, <1>2, <1>4 DEF ScanInv, RowFollows, EndedPlaces
<1>8. Truthful(s)' /\ Whole(s)'
  <2>1. CASE pc'[s] = "merge"
    <3>1. log'[s] = log[s] /\ UNCHANGED <<disk, walk, pipe, staging>>
        BY <1>2, <1>4, <2>1 DEF diskVars
    <3> QED BY <1>1, <1>2, <2>1, <3>1, StillTrue DEF Merging
  <2>2. CASE pc'[s] = "return"
      BY <2>2, NoMoreMerging DEF Merging
  <2> QED BY <1>4, <2>1, <2>2
<1>9. EntriesFit' /\ StagingFits'
    BY <1>1, <1>2 DEF Shape, EntriesFit, StagingFits
<1> QED BY <1>1, <1>2, <1>4, <1>5, <1>6, <1>7, <1>8, <1>9, CallerFocus DEF Shape, OthersFit

LEMMA StagedIsTyped ==
    ASSUME Shape, NEW s \in Scans, NEW p \in StagedPaths(s)
    PROVE  /\ <<p, StagedVersion(s, p)>> \in staging[s]
           /\ p \in Paths /\ StagedVersion(s, p) \in Nat
<1>1. staging[s] \subseteq Paths \X Nat
    BY Facts DEF Entry
<1>2. \E e \in staging[s] : e[1] = p
    BY DEF StagedPaths
<1> DEFINE e0 == CHOOSE e \in staging[s] : e[1] = p
<1>3. e0 \in staging[s] /\ e0[1] = p
    BY <1>2
<1>4. StagedVersion(s, p) = e0[2]
    BY DEF StagedVersion
<1> HIDE DEF e0
<1>5. e0 = <<p, e0[2]>> /\ p \in Paths /\ e0[2] \in Nat
    BY <1>1, <1>3
<1> QED BY <1>3, <1>4, <1>5

LEMMA MergedFits ==
    ASSUME Shape, NEW s \in Scans, NEW stale
    PROVE  Merged(s, stale) \in [Paths -> [ver : Nat, rate : Nat]]
<1>1. \A p \in Paths : entries[p] \in [ver : Nat, rate : Nat]
    BY DEF Shape, EntriesFit
<1>2. NoRow \in [ver : Nat, rate : Nat]
    BY DEF NoRow
<1>3. \A p \in Paths : p \in StagedPaths(s) =>
         [ver |-> StagedVersion(s, p),
          rate |-> IF entries[p].ver = StagedVersion(s, p) THEN entries[p].rate ELSE 0]
            \in [ver : Nat, rate : Nat]
    BY <1>1, StagedIsTyped
<1>4. \A p \in Paths :
        (IF p \in StagedPaths(s)
         THEN [ver |-> StagedVersion(s, p),
               rate |-> IF entries[p].ver = StagedVersion(s, p) THEN entries[p].rate ELSE 0]
         ELSE IF p \in stale THEN NoRow
         ELSE entries[p]) \in [ver : Nat, rate : Nat]
    BY <1>1, <1>2, <1>3
<1> QED BY <1>4 DEF Merged

LEMMA MergeKeeps ==
    ASSUME SessionInv, NEW s \in Scans, Merge(s)
    PROVE  SessionInv'
<1>1. Shape /\ ScanInv(s)
    BY DEF SessionInv
<1>2. /\ pc[s] = "merge"
      /\ UNCHANGED <<row, library, diskVars, walk, pipe, control, probeVars, crashes>>
    BY DEF Merge, callerOnly
<1>3. log \in [Scans -> LogType] /\ log[s] \in LogType /\ log[s].result \in
        {"none", "completed", "failed", "canceled"} /\ log[s].merged \in BOOLEAN
    BY <1>1, Facts DEF Shape, LogsFit
<1>4. /\ PlacesFit' /\ LogsFit' /\ EntriesFit' /\ StagingFits'
      /\ \/ /\ pc'[s] = "complete" /\ staging'[s] = {} /\ log'[s].merged = TRUE
            /\ log'[s].faults \subseteq log[s].faults \cup {"stale"}
         \/ /\ pc'[s] = "merge failed" /\ "merge" \in log'[s].faults
      /\ \A t \in Scans \ {s} : log'[t] = log[t] /\ pc'[t] = pc[t] /\ staging'[t] = staging[t]
  <2>1. "complete" \in Places /\ "merge failed" \in Places
        /\ {} \in SUBSET Kinds /\ {"stale"} \in SUBSET Kinds /\ {"merge"} \in SUBSET Kinds
      BY DEF Places, Kinds
  <2>2. EntriesFit'
    <3>1. \/ entries' = entries \/ entries' = Merged(s, Stale(s)) \/ entries' = Merged(s, {})
        BY DEF Merge
    <3>2. /\ Merged(s, Stale(s)) \in [Paths -> [ver : Nat, rate : Nat]]
          /\ Merged(s, {}) \in [Paths -> [ver : Nat, rate : Nat]]
          /\ entries \in [Paths -> [ver : Nat, rate : Nat]]
        BY <1>1, MergedFits DEF Shape, EntriesFit
    <3>3. entries' \in [Paths -> [ver : Nat, rate : Nat]]
        BY <3>1, <3>2
    <3> QED BY <3>3 DEF EntriesFit
  <2>3. CASE Clean(s) /\ Goto(s, "complete") /\ log' = [log EXCEPT ![s].merged = TRUE]
    <3>1. log' = [log EXCEPT ![s] = [log[s] EXCEPT !.faults = log[s].faults \cup {},
                                       !.merged = TRUE, !.result = log[s].result]]
        BY <1>3, <2>3 DEF LogType
    <3>2. /\ LogsFit' /\ log'[s].faults = log[s].faults \cup {} /\ log'[s].merged = TRUE
          /\ \A t \in Scans \ {s} : log'[t] = log[t]
        BY <1>1, <1>3, <2>1, <3>1, LogGrows DEF Shape
    <3> QED BY <1>1, <2>1, <2>2, <2>3, <3>2, CleanFits, GotoFits DEF Shape
  <2>4. CASE Clean(s) /\ Goto(s, "complete")
             /\ log' = [log EXCEPT ![s].merged = TRUE, ![s].faults = @ \cup {"stale"}]
    <3>1. log' = [log EXCEPT ![s] = [log[s] EXCEPT !.faults = log[s].faults \cup {"stale"},
                                       !.merged = TRUE, !.result = log[s].result]]
        BY <1>3, <2>4 DEF LogType
    <3>2. /\ LogsFit' /\ log'[s].faults = log[s].faults \cup {"stale"} /\ log'[s].merged = TRUE
          /\ \A t \in Scans \ {s} : log'[t] = log[t]
        BY <1>1, <1>3, <2>1, <3>1, LogGrows DEF Shape
    <3> QED BY <1>1, <2>1, <2>2, <2>4, <3>2, CleanFits, GotoFits DEF Shape
  <2>5. CASE Clean(s) /\ Goto(s, "merge failed")
             /\ log' = [log EXCEPT ![s].merged = TRUE, ![s].faults = @ \cup {"merge"}]
    <3>1. log' = [log EXCEPT ![s] = [log[s] EXCEPT !.faults = log[s].faults \cup {"merge"},
                                       !.merged = TRUE, !.result = log[s].result]]
        BY <1>3, <2>5 DEF LogType
    <3>2. /\ LogsFit' /\ log'[s].faults = log[s].faults \cup {"merge"} /\ log'[s].merged = TRUE
          /\ \A t \in Scans \ {s} : log'[t] = log[t]
        BY <1>1, <1>3, <2>1, <3>1, LogGrows DEF Shape
    <3> QED BY <1>1, <2>1, <2>2, <2>5, <3>2, CleanFits, GotoFits DEF Shape
  <2>6. CASE staging' = staging /\ Goto(s, "merge failed")
             /\ log' = [log EXCEPT ![s].faults = @ \cup {"merge"}]
    <3>1. log' = [log EXCEPT ![s] = [log[s] EXCEPT !.faults = log[s].faults \cup {"merge"},
                                       !.merged = log[s].merged, !.result = log[s].result]]
        BY <1>3, <2>6 DEF LogType
    <3>2. /\ LogsFit' /\ log'[s].faults = log[s].faults \cup {"merge"}
          /\ \A t \in Scans \ {s} : log'[t] = log[t]
        BY <1>1, <1>3, <2>1, <3>1, LogGrows DEF Shape
    <3> QED BY <1>1, <2>1, <2>2, <2>6, <3>2, GotoFits DEF Shape, StagingFits
  <2> QED BY <2>3, <2>4, <2>5, <2>6 DEF Merge
<1>5. CallerStep(s)
    BY <1>2, <1>4, CallerIsAlone
<1>6. CallerKnows(s)' /\ StagingFollows(s)'
    BY <1>1, <1>2, <1>4 DEF ScanInv, CallerKnows, StagingFollows
<1>7. RowFollows(s)'
    BY <1>1, <1>2, <1>4 DEF ScanInv, RowFollows, EndedPlaces
<1>8. Truthful(s)' /\ Whole(s)'
    BY <1>4, NoMoreMerging DEF Merging
<1>9. RowsFit'
    BY <1>1, <1>2 DEF Shape, RowsFit
<1> QED BY <1>1, <1>2, <1>4, <1>5, <1>6, <1>7, <1>8, <1>9, CallerFocus DEF Shape, OthersFit

\* The last status of a scan that merged, or of one whose merge failed.
LEMMA LastStatusKeeps ==
    ASSUME SessionInv, NEW s \in Scans, MergeFailed(s) \/ Complete(s)
    PROVE  SessionInv'
<1>1. Shape /\ ScanInv(s)
    BY DEF SessionInv
<1>2. /\ pc[s] \in {"merge failed", "complete"}
      /\ UNCHANGED <<entries, staging, library, diskVars, walk, pipe, control, probeVars, crashes>>
    BY DEF MergeFailed, Complete, callerOnly
<1>3. /\ RowsFit' /\ LogsFit' /\ PlacesFit' /\ pc'[s] = "return"
      /\ log'[s].merged = log[s].merged
      /\ \/ /\ row'[s].status = "failed" /\ row'[s].code = "MERGE_FAILED"
            /\ pc[s] = "merge failed" /\ log'[s].faults = log[s].faults
         \/ /\ row'[s].status = "completed" /\ row'[s].code = "none"
            /\ pc[s] = "complete" /\ log'[s].faults = log[s].faults
         \/ row'[s] = row[s] /\ log'[s].faults = log[s].faults \cup {"status"}
      /\ \A t \in Scans \ {s} : log'[t] = log[t] /\ pc'[t] = pc[t] /\ row'[t] = row[t]
  <2>1. CASE Status(s, "failed", "MERGE_FAILED") /\ Finish(s, "failed") /\ pc[s] = "merge failed"
    <3>1. "MERGE_FAILED" \in Codes
        BY DEF Codes
    <3> QED BY <1>1, <2>1, <3>1, StatusFits, FinishFits DEF Shape
  <2>2. CASE Status(s, "completed", "none") /\ Finish(s, "completed") /\ pc[s] = "complete"
    <3>1. "none" \in Codes
        BY DEF Codes
    <3> QED BY <1>1, <2>2, <3>1, StatusFits, FinishFits DEF Shape
  <2>3. CASE FinishFault(s, "status", "failed") /\ row' = row
    <3>1. "status" \in Kinds
        BY DEF Kinds
    <3> QED BY <1>1, <2>3, <3>1, FinishFaultFits DEF Shape, RowsFit
  <2> QED BY <2>1, <2>2, <2>3 DEF MergeFailed, Complete
<1>4. CallerStep(s)
    BY <1>2, <1>3, CallerIsAlone
<1>5. CallerKnows(s)'
    BY <1>3 DEF CallerKnows
<1>6. StagingFollows(s)'
    BY <1>1, <1>2, <1>3 DEF ScanInv, CallerKnows, StagingFollows
<1>7. RowFollows(s)'
    BY <1>1, <1>2, <1>3 DEF ScanInv, CallerKnows, RowFollows, EndedPlaces
<1>8. Truthful(s)' /\ Whole(s)'
    BY <1>3, NoMoreMerging DEF Merging
<1>9. EntriesFit' /\ StagingFits'
    BY <1>1, <1>2 DEF Shape, EntriesFit, StagingFits
<1> QED BY <1>1, <1>2, <1>3, <1>4, <1>5, <1>6, <1>7, <1>8, <1>9, CallerFocus DEF Shape, OthersFit

LEMMA ReturnKeeps ==
    ASSUME SessionInv, NEW s \in Scans, Return(s)
    PROVE  SessionInv'
<1>1. Shape /\ ScanInv(s)
    BY DEF SessionInv
<1>2. /\ pc[s] = "return" /\ Goto(s, "returned")
      /\ UNCHANGED <<entries, staging, row, diskVars, walk, pipe, control, probeVars, crashes>>
    BY DEF Return
<1>3. PlacesFit' /\ pc'[s] = "returned" /\ \A t \in Scans \ {s} : pc'[t] = pc[t]
    BY <1>1, <1>2, GotoFits DEF Shape, Places
<1>4. \/ log' = log /\ (library' = library \/ library' = log[s].result)
      \/ Fault(s, "outcome") /\ library' = library
  <2>1. CASE Full(s)
      BY <2>1 DEF Return, WriteOf
  <2>2. CASE ~Full(s)
      BY <2>2 DEF Return
  <2> QED BY <2>1, <2>2
<1>5. /\ LogsFit' /\ log'[s].merged = log[s].merged
      /\ \/ log'[s].faults = log[s].faults
         \/ log'[s].faults = log[s].faults \cup {"outcome"}
      /\ \A t \in Scans \ {s} : log'[t] = log[t]
      /\ library' \in {"none", "completed", "failed", "canceled"}
  <2>1. library \in {"none", "completed", "failed", "canceled"}
        /\ log[s].result \in {"none", "completed", "failed", "canceled"}
      BY <1>1, Facts DEF Shape, OthersFit
  <2>2. CASE log' = log /\ (library' = library \/ library' = log[s].result)
      BY <1>1, <2>1, <2>2 DEF Shape, LogsFit
  <2>3. CASE Fault(s, "outcome") /\ library' = library
    <3>1. "outcome" \in Kinds
        BY DEF Kinds
    <3> QED BY <1>1, <2>1, <2>3, <3>1, FaultFits DEF Shape
  <2> QED BY <1>4, <2>2, <2>3
<1>6. CallerStep(s)
    BY <1>2, <1>3, <1>5, CallerIsAlone
<1>7. CallerKnows(s)' /\ StagingFollows(s)'
    BY <1>1, <1>2, <1>3, <1>5 DEF ScanInv, CallerKnows, StagingFollows
<1>8. RowFollows(s)'
    BY <1>1, <1>2, <1>3, <1>5 DEF ScanInv, RowFollows, EndedPlaces, control
<1>9. Truthful(s)' /\ Whole(s)'
    BY <1>3, NoMoreMerging DEF Merging
<1>10. EntriesFit' /\ StagingFits' /\ RowsFit'
    BY <1>1, <1>2 DEF Shape, EntriesFit, StagingFits, RowsFit
<1> QED BY <1>3, <1>5, <1>6, <1>7, <1>8, <1>9, <1>10, CallerFocus

-----------------------------------------------------------------------------
(* The beginning of a scan, and the steps that are nobody's statement.     *)

LEMMA BeginKeeps ==
    ASSUME SessionInv, NEW s \in Scans, Begin(s)
    PROVE  SessionInv'
<1>1. Shape /\ ScanInv(s)
    BY DEF SessionInv
<1>2. /\ pc[s] = "idle"
      /\ UNCHANGED <<diskVars, entries, staging, library, control, probeVars, crashes>>
    BY DEF Begin
<1>3. /\ s \notin asked /\ s \notin stop /\ log[s].faults = {} /\ staging[s] = {}
      /\ ~log[s].merged /\ row[s].status = "none"
    BY <1>1, <1>2 DEF ScanInv, CallerKnows, RowFollows
<1>4. /\ walk \in [Scans -> WalkType] /\ pipe \in [Scans -> PipeType]
      /\ log \in [Scans -> LogType] /\ log[s] \in LogType
    BY <1>1 DEF Shape, WalksFit, PipesFit, LogsFit
<1>5. StagingFits' /\ EntriesFit' /\ OthersFit'
    BY <1>1, <1>2 DEF Shape, StagingFits, EntriesFit, OthersFit, diskVars, control, probeVars
<1>6. CASE /\ Status(s, "running", "none") /\ Goto(s, "pipeline")
           /\ walk' = [walk EXCEPT ![s] =
                        [st |-> "walking", todo |-> {Scope[s]}, open |-> {}, err |-> NoErr]]
           /\ pipe' = [pipe EXCEPT ![s] =
                        [chan |-> <<>>, batch |-> <<>>, st |-> "draining", failed |-> FALSE]]
           /\ log' = [log EXCEPT ![s].absent = {f \in Files : disk[f] = 0}]
  <2> DEFINE away == {f \in Files : disk[f] = 0}
  <2>1. "none" \in Codes /\ "pipeline" \in Places
      BY DEF Codes, Places
  <2>2. /\ RowsFit' /\ row'[s].status = "running" /\ row'[s].code = "none"
        /\ \A t \in Scans \ {s} : row'[t] = row[t]
      BY <1>1, <1>6, <2>1, StatusFits DEF Shape
  <2>3. PlacesFit' /\ pc'[s] = "pipeline" /\ \A t \in Scans \ {s} : pc'[t] = pc[t]
      BY <1>1, <1>6, <2>1, GotoFits DEF Shape
  <2>4. /\ walk'[s] = [st |-> "walking", todo |-> {Scope[s]}, open |-> {}, err |-> NoErr]
        /\ walk'[s].st = "walking" /\ walk'[s].todo = {Scope[s]} /\ walk'[s].open = {}
        /\ walk'[s].err = NoErr /\ walk' = [walk EXCEPT ![s] = walk'[s]]
        /\ \A t \in Scans \ {s} : walk'[t] = walk[t]
      BY <1>4, <1>6
  <2>5. WalksFit'
    <3>1. walk'[s] \in WalkType
        BY <2>4, Tree DEF WalkType
    <3>2. IsFiniteSet(walk'[s].open) /\ Cardinality(walk'[s].open) = 0
        BY <2>4, FS_EmptySet
    <3>3. Width(s) \in Nat
        BY ScanAssumption DEF Width
    <3>4. Cardinality(walk'[s].open) <= Width(s)
        BY <3>2, <3>3
    <3> QED BY <1>1, <2>4, <3>1, <3>2, <3>4, WalksKept DEF Shape
  <2>6. /\ pipe'[s] = [chan |-> <<>>, batch |-> <<>>, st |-> "draining", failed |-> FALSE]
        /\ pipe'[s].chan = <<>> /\ pipe'[s].batch = <<>> /\ pipe'[s].st = "draining"
        /\ pipe'[s].failed = FALSE /\ pipe' = [pipe EXCEPT ![s] = pipe'[s]]
        /\ \A t \in Scans \ {s} : pipe'[t] = pipe[t]
      BY <1>4, <1>6
  <2>7. PipesFit'
    <3>1. <<>> \in Seq(Entry) /\ Len(<<>>) = 0
        OBVIOUS
    <3>2. pipe'[s] \in PipeType
        BY <2>6, <3>1 DEF PipeType
    <3>3. Len(pipe'[s].chan) <= QueueSize /\ Len(pipe'[s].batch) <= BatchSize
        BY <2>6, <3>1, ScanAssumption
    <3> QED BY <1>1, <2>6, <3>2, <3>3, PipesKept DEF Shape
  <2>8. /\ LogsFit' /\ log'[s].faults = {} /\ ~log'[s].merged /\ log'[s].absent = away
        /\ \A t \in Scans \ {s} : log'[t] = log[t]
    <3>1. away \in SUBSET Files /\ log' = [log EXCEPT ![s].absent = away]
        BY <1>6
    <3> HIDE DEF away
    <3>2. log'[s] = [log[s] EXCEPT !.absent = away] /\ log' = [log EXCEPT ![s] = log'[s]]
        BY <1>4, <3>1
    <3>3. /\ log'[s] \in LogType /\ log'[s].faults = log[s].faults
          /\ log'[s].merged = log[s].merged /\ log'[s].absent = away
        BY <1>4, <3>1, <3>2 DEF LogType
    <3> QED BY <1>1, <1>3, <1>4, <3>2, <3>3, LogsKept DEF Shape
  <2>9. Shape'
      BY <1>5, <2>2, <2>3, <2>5, <2>7, <2>8 DEF Shape
  <2>10. /\ s \notin asked' /\ s \notin stop' /\ disk' = disk /\ staging'[s] = {}
         /\ crashes' = crashes
      BY <1>2, <1>3 DEF control, diskVars
  <2>11. Goroutines(s)'
      BY <2>3, <2>4, <2>6, <2>8, <2>10, ScanAssumption DEF Goroutines
  <2>12. CallerKnows(s)' /\ StagingFollows(s)'
      BY <2>3, <2>8 DEF CallerKnows, StagingFollows
  <2>13. RowFollows(s)'
      BY <2>2, <2>3 DEF RowFollows
  <2>14. Carried(s)' = {}
    <3>1. Elements(pipe[s].chan)' = {} /\ Elements(pipe[s].batch)' = {}
        BY <2>6, NoElements DEF Elements
    <3> QED BY <2>4, <2>10, <3>1 DEF Carried
  <2>15. Truthful(s)'
      BY <2>4, <2>8, <2>10, <2>14 DEF Truthful
  <2>16. Whole(s)'
      BY <2>4, <2>14 DEF Whole, Seen
  <2>17. \A t \in Scans \ {s} : Unmoved(t)
      BY <1>2, <2>2, <2>3, <2>4, <2>6, <2>8 DEF Unmoved, control
  <2> QED BY <2>9, <2>10, <2>11, <2>12, <2>13, <2>15, <2>16, <2>17, Focus DEF ScanInv
<1>7. CASE /\ log' = [log EXCEPT ![s].result = "failed"] /\ Goto(s, "return")
           /\ UNCHANGED <<row, walk, pipe>>
  <2>1. Finish(s, "failed")
      BY <1>7 DEF Finish
  <2>2. /\ LogsFit' /\ PlacesFit' /\ pc'[s] = "return"
        /\ log'[s].faults = log[s].faults /\ log'[s].merged = log[s].merged
        /\ \A t \in Scans \ {s} : log'[t] = log[t] /\ pc'[t] = pc[t]
      BY <1>1, <2>1, FinishFits DEF Shape
  <2>3. RowsFit' /\ WalksFit' /\ PipesFit'
      BY <1>1, <1>7 DEF Shape, RowsFit, WalksFit, PipesFit
  <2>4. Shape'
      BY <1>5, <2>2, <2>3 DEF Shape
  <2>5. Goroutines(s)'
      BY <1>1, <1>2, <1>7, <2>2 DEF ScanInv, Goroutines
  <2>6. CallerKnows(s)' /\ StagingFollows(s)'
      BY <1>2, <1>3, <2>2 DEF CallerKnows, StagingFollows
  <2>7. RowFollows(s)'
      BY <1>1, <1>2, <1>3, <1>7, <2>2 DEF ScanInv, RowFollows
  <2>8. Truthful(s)' /\ Whole(s)'
      BY <2>2, NoMoreMerging DEF Merging
  <2>9. /\ \A t \in Scans \ {s} : Unmoved(t)
        /\ disk' = disk /\ crashes' = crashes
      BY <1>2, <1>7, <2>2 DEF Unmoved, control, diskVars
  <2> QED BY <2>4, <2>5, <2>6, <2>7, <2>8, <2>9, Focus DEF ScanInv
<1> QED BY <1>6, <1>7 DEF Begin

LEMMA AskCancelKeeps ==
    ASSUME SessionInv, NEW s \in Scans, AskCancel(s)
    PROVE  SessionInv'
<1>1. Shape /\ ScanInv(s)
    BY DEF SessionInv
<1>2. /\ pc[s] \notin {"idle", "return", "returned", "dead"}
      /\ asked' = asked \cup {s} /\ stop' = stop \cup {s}
      /\ UNCHANGED <<load, disk, edits, entries, staging, row, library, pc, walk, pipe, probe,
                     log, crashes>>
    BY DEF AskCancel, diskVars, probeVars
<1>3. WalksFit' /\ PipesFit' /\ LogsFit' /\ EntriesFit' /\ StagingFits' /\ RowsFit' /\ PlacesFit'
    BY <1>1, <1>2 DEF Shape, WalksFit, PipesFit, LogsFit, EntriesFit, StagingFits, RowsFit, PlacesFit
<1>4. OthersFit'
    BY <1>1, <1>2 DEF Shape, OthersFit
<1>5. Goroutines(s)'
    BY <1>1, <1>2 DEF ScanInv, Goroutines
<1>6. CallerKnows(s)'
    BY <1>1, <1>2 DEF ScanInv, CallerKnows
<1>7. RowFollows(s)' /\ StagingFollows(s)'
    BY <1>1, <1>2 DEF ScanInv, RowFollows, StagingFollows
<1>8. Truthful(s)' /\ Whole(s)'
    BY <1>1, <1>2, StillTrue
<1>9. \A t \in Scans \ {s} : Unmoved(t)
    BY <1>2 DEF Unmoved
<1> QED BY <1>2, <1>3, <1>4, <1>5, <1>6, <1>7, <1>8, <1>9, Focus DEF Shape, ScanInv

\* The planner's probe touches the inventory's rates only.
LEMMA ProbeKeeps ==
    ASSUME SessionInv, (\E f \in Files : ProbeFile(f)) \/ WriteRate
    PROVE  SessionInv'
<1>1. Shape
    BY DEF SessionInv
<1>2. UNCHANGED <<load, disk, edits, staging, row, library, pc, walk, pipe, asked, stop, log,
                  crashes>>
    BY DEF ProbeFile, WriteRate, scansOnly, diskVars, control
<1>3. /\ EntriesFit'
      /\ probe' = NoProbe \/ (probe'.file \in Files /\ probe'.ver \in Nat)
  <2>1. ASSUME NEW f \in Files, ProbeFile(f)
        PROVE  entries' = entries /\ probe'.file \in Files /\ probe'.ver \in Nat
      BY <1>1, <2>1 DEF ProbeFile, Shape, OthersFit
  <2>2. ASSUME WriteRate
        PROVE  EntriesFit' /\ probe' = NoProbe
    <3>1. probe.file \in Paths /\ probe.ver \in Nat
        BY <1>1, <2>2, Tree DEF WriteRate, Shape, OthersFit
    <3>2. entries \in [Paths -> [ver : Nat, rate : Nat]]
        BY <1>1 DEF Shape, EntriesFit
    <3>3. [entries[probe.file] EXCEPT !.rate = probe.ver] \in [ver : Nat, rate : Nat]
        BY <3>1, <3>2
    <3>4. [entries EXCEPT ![probe.file].rate = probe.ver]
            = [entries EXCEPT ![probe.file] = [entries[probe.file] EXCEPT !.rate = probe.ver]]
        BY <3>1, <3>2
    <3>5. [entries EXCEPT ![probe.file].rate = probe.ver] \in [Paths -> [ver : Nat, rate : Nat]]
        BY <3>2, <3>3, <3>4
    <3> QED BY <2>2, <3>2, <3>5 DEF WriteRate, EntriesFit
  <2> QED BY <1>1, <2>1, <2>2 DEF Shape, EntriesFit
<1>4. WalksFit' /\ PipesFit' /\ LogsFit' /\ StagingFits' /\ RowsFit' /\ PlacesFit'
    BY <1>1, <1>2 DEF Shape, WalksFit, PipesFit, LogsFit, StagingFits, RowsFit, PlacesFit
<1>5. OthersFit'
    BY <1>1, <1>2, <1>3 DEF Shape, OthersFit
<1>6. \A t \in Scans : Unmoved(t)
    BY <1>2 DEF Unmoved
<1> QED BY <1>2, <1>3, <1>4, <1>5, <1>6, Bystander DEF Shape, SessionInv

\* Another program's edit is recorded by every scan it may be seen by.
LEMMA EditKeeps ==
    ASSUME SessionInv, NEW f \in Files, Edit(f)
    PROVE  SessionInv'
<1>1. Shape /\ \A s \in Scans : ScanInv(s)
    BY DEF SessionInv
<1>2. /\ UNCHANGED <<load, entries, staging, row, library, pc, walk, pipe, asked, stop, probe,
                     crashes>>
      /\ edits' = edits + 1
    BY DEF Edit, control, probeVars
<1>3. PICK v \in {0, edits + 2} : disk' = [disk EXCEPT ![f] = v]
    BY DEF Edit
<1>4. /\ v \in Nat /\ disk \in [Files -> Nat] /\ disk' \in [Files -> Nat]
      /\ disk'[f] = v /\ \A g \in Files \ {f} : disk'[g] = disk[g]
    BY <1>1, <1>3 DEF Shape, OthersFit
<1>5. log \in [Scans -> LogType]
    BY <1>1 DEF Shape, LogsFit
<1>6. ASSUME NEW s \in Scans
      PROVE  /\ log'[s] \in LogType
             /\ log'[s].faults = log[s].faults /\ log'[s].merged = log[s].merged
             /\ pc[s] \notin {"idle", "returned", "dead"} =>
                  /\ log'[s].changed = log[s].changed \cup {f}
                  /\ log'[s].absent = IF v = 0 THEN log[s].absent \cup {f} ELSE log[s].absent
  <2> DEFINE changed2 == log[s].changed \cup {f}
             absent2 == IF v = 0 THEN log[s].absent \cup {f} ELSE log[s].absent
  <2>1. CASE pc[s] \in {"idle", "returned", "dead"}
      BY <1>5, <2>1 DEF Edit
  <2>2. CASE pc[s] \notin {"idle", "returned", "dead"}
    <3>1. changed2 \in SUBSET Files /\ absent2 \in SUBSET Files
        BY <1>5 DEF LogType
    <3>2. log'[s] = [log[s] EXCEPT !.changed = changed2, !.absent = absent2]
        BY <1>4, <2>2 DEF Edit
    <3>3. SUFFICES /\ log'[s] \in LogType
                   /\ log'[s].faults = log[s].faults /\ log'[s].merged = log[s].merged
                   /\ log'[s].changed = changed2 /\ log'[s].absent = absent2
        OBVIOUS
    <3> HIDE DEF changed2, absent2
    <3>4. log[s] \in LogType
        BY <1>5
    <3> QED BY <3>1, <3>2, <3>4 DEF LogType
  <2> QED BY <2>1, <2>2
<1>7. LogsFit'
  <2>1. log' = [s \in Scans |-> log'[s]]
      BY DEF Edit
  <2> QED BY <1>6, <2>1 DEF LogsFit
<1>8. WalksFit' /\ PipesFit' /\ EntriesFit' /\ StagingFits' /\ RowsFit' /\ PlacesFit'
    BY <1>1, <1>2 DEF Shape, WalksFit, PipesFit, EntriesFit, StagingFits, RowsFit, PlacesFit
<1>9. OthersFit'
    BY <1>1, <1>2, <1>4 DEF Shape, OthersFit
<1>10. ASSUME NEW s \in Scans
       PROVE  ScanInv(s)'
  <2>1. /\ ScanInv(s)
        /\ log'[s].faults = log[s].faults /\ log'[s].merged = log[s].merged
        /\ pc[s] \in Merging =>
             /\ log'[s].changed = log[s].changed \cup {f}
             /\ log'[s].absent = IF v = 0 THEN log[s].absent \cup {f} ELSE log[s].absent
      BY <1>1, <1>6 DEF Merging
  <2>2. Goroutines(s)'
      BY <1>2, <2>1 DEF ScanInv, Goroutines
  <2>3. CallerKnows(s)' /\ StagingFollows(s)'
      BY <1>2, <2>1 DEF ScanInv, CallerKnows, StagingFollows
  <2>4. RowFollows(s)'
      BY <1>2, <2>1 DEF ScanInv, RowFollows
  <2>5. Carried(s)' = Carried(s)
      BY <1>2 DEF Carried, Elements
  <2>6. Truthful(s)'
    <3> SUFFICES ASSUME pc[s] \in Merging
                 PROVE  Truthful(s)'
        BY <1>2 DEF Truthful
    <3>1. /\ \A g \in Files : disk'[g] = 0 => g \in log'[s].absent
          /\ \A g \in log'[s].absent : g \notin log'[s].changed => disk'[g] = 0
          /\ \A e \in Carried(s) : e[1] \in Files \ log'[s].changed => e[2] = disk'[e[1]]
      <4>1. log[s].absent \subseteq Files
          BY <1>1, Facts
      <4> QED BY <1>4, <2>1, <4>1 DEF ScanInv, Truthful
    <3> QED BY <1>2, <2>1, <2>5, <3>1 DEF ScanInv, Truthful, InScope, Above
  <2>7. Whole(s)'
    <3> SUFFICES ASSUME pc[s] \in Merging
                 PROVE  Whole(s)'
        BY <1>2 DEF Whole
    <3>1. \A q : (Seen(s, q)' <=> Seen(s, q)) /\ (Found(s, q) => Found(s, q)')
        BY <2>1, <2>5 DEF Seen, Found
    <3> QED BY <1>2, <2>1, <3>1 DEF ScanInv, Whole
  <2> QED BY <2>2, <2>3, <2>4, <2>6, <2>7 DEF ScanInv
<1> QED BY <1>7, <1>8, <1>9, <1>10 DEF Shape, SessionInv

\* A restart settles every row it finds unfinished.
LEMMA CrashKeeps ==
    ASSUME SessionInv, Crash
    PROVE  SessionInv'
<1>1. Shape /\ \A s \in Scans : ScanInv(s)
    BY DEF SessionInv
<1>2. /\ UNCHANGED <<load, disk, edits, entries, staging, library, asked, stop, log>>
      /\ crashes' = crashes + 1 /\ crashes' \in Nat /\ crashes' > 0 /\ probe' = NoProbe
    BY <1>1 DEF Crash, diskVars, control, Shape, OthersFit
<1>3. ASSUME NEW s \in Scans
      PROVE  /\ walk'[s].st = "closed" /\ walk'[s].open = {} /\ walk'[s].err = NoErr
             /\ walk'[s] \in WalkType
             /\ pipe'[s].st = "done" /\ ~pipe'[s].failed
             /\ pipe'[s].chan = <<>> /\ pipe'[s].batch = <<>> /\ pipe'[s] \in PipeType
  <2>1. <<>> \in Seq(Entry)
      OBVIOUS
  <2> QED BY <2>1 DEF Crash, IdleWalk, IdlePipe, WalkType, PipeType
<1>4. ASSUME NEW s \in Scans
      PROVE  /\ pc'[s] = IF pc[s] \in {"idle", "returned"} THEN pc[s] ELSE "dead"
             /\ pc'[s] \in Places
             /\ row'[s] = IF row[s].status \in {"queued", "running", "merging"}
                          THEN [status |-> "interrupted", code |-> "INTERRUPTED"]
                          ELSE row[s]
             /\ row'[s] \in RowType
  <2>1. pc[s] \in Places /\ row[s] \in RowType
      BY <1>1, Facts
  <2>2. [status |-> "interrupted", code |-> "INTERRUPTED"] \in RowType /\ "dead" \in Places
      BY DEF RowType, Codes, Places
  <2> QED BY <2>1, <2>2 DEF Crash
<1>5. WalksFit' /\ PipesFit' /\ RowsFit' /\ PlacesFit'
  <2>1. /\ walk' = [s \in Scans |-> walk'[s]] /\ pipe' = [s \in Scans |-> pipe'[s]]
        /\ row' = [s \in Scans |-> row'[s]] /\ pc' = [s \in Scans |-> pc'[s]]
      BY DEF Crash
  <2>2. IsFiniteSet({}) /\ Cardinality({}) = 0
      BY FS_EmptySet
  <2>3. \A s \in Scans : Width(s) \in Nat /\ 0 <= Width(s)
      BY ScanAssumption DEF Width
  <2>4. WalksFit'
      BY <1>3, <2>1, <2>2, <2>3 DEF WalksFit, Width, Full
  <2>5. PipesFit'
    <3>1. Len(<<>>) = 0 /\ 0 <= QueueSize /\ 0 <= BatchSize
        BY ScanAssumption
    <3> QED BY <1>3, <2>1, <3>1 DEF PipesFit
  <2> QED BY <1>4, <2>1, <2>4, <2>5 DEF RowsFit, PlacesFit
<1>6. LogsFit' /\ EntriesFit' /\ StagingFits' /\ OthersFit'
    BY <1>1, <1>2 DEF Shape, LogsFit, EntriesFit, StagingFits, OthersFit
<1>7. ASSUME NEW s \in Scans
      PROVE  ScanInv(s)'
  <2>1. ScanInv(s) /\ log'[s] = log[s] /\ staging'[s] = staging[s] /\ asked' = asked /\ stop' = stop
      BY <1>1, <1>2
  <2>2. pc'[s] \in {"idle", "returned", "dead"} /\ (pc'[s] # "dead" => pc'[s] = pc[s])
      BY <1>4
  <2>3. Goroutines(s)'
      BY <1>3, <2>2 DEF Goroutines
  <2>4. CallerKnows(s)' /\ StagingFollows(s)'
      BY <2>1, <2>2 DEF ScanInv, CallerKnows, StagingFollows
  <2>5. RowFollows(s)'
    <3>1. CASE row[s].status \in {"queued", "running", "merging"}
      <4>1. row'[s].status = "interrupted" /\ row'[s].code = "INTERRUPTED"
          BY <1>4, <3>1
      <4>2. pc'[s] \in {"returned", "dead"}
          BY <2>1, <2>2, <3>1 DEF ScanInv, RowFollows
      <4> QED BY <1>2, <4>1, <4>2 DEF RowFollows
    <3>2. CASE row[s].status \notin {"queued", "running", "merging"}
      <4>1. row'[s] = row[s]
          BY <1>4, <3>2
      <4> QED BY <1>2, <2>1, <2>2, <3>2, <4>1 DEF ScanInv, RowFollows, EndedPlaces
    <3> QED BY <3>1, <3>2
  <2>6. Truthful(s)' /\ Whole(s)'
      BY <2>2, NoMoreMerging DEF Merging
  <2> QED BY <2>3, <2>4, <2>5, <2>6 DEF ScanInv
<1> QED BY <1>5, <1>6, <1>7 DEF Shape, SessionInv

LEMMA InitHolds ==
    ASSUME Init
    PROVE  SessionInv
<1>1. \A s \in Scans : /\ staging[s] = {} /\ row[s] = [status |-> "none", code |-> "none"]
                       /\ pc[s] = "idle" /\ walk[s] = IdleWalk /\ pipe[s] = IdlePipe
                       /\ log[s] = [faults |-> {}, changed |-> {}, absent |-> {},
                                    merged |-> FALSE, result |-> "none"]
    BY DEF Init
<1>2. \A s \in Scans : /\ walk[s].st = "closed" /\ walk[s].open = {} /\ walk[s].err = NoErr
                       /\ walk[s] \in WalkType
    BY <1>1 DEF IdleWalk, WalkType
<1>3. \A s \in Scans : /\ pipe[s].st = "done" /\ ~pipe[s].failed /\ pipe[s].chan = <<>>
                       /\ pipe[s].batch = <<>> /\ pipe[s] \in PipeType
  <2>1. <<>> \in Seq(Entry)
      OBVIOUS
  <2>2. IdlePipe \in PipeType /\ IdlePipe.st = "done" /\ ~IdlePipe.failed
        /\ IdlePipe.chan = <<>> /\ IdlePipe.batch = <<>>
      BY <2>1 DEF IdlePipe, PipeType
  <2> QED BY <1>1, <2>2
<1>4. \A s \in Scans : log[s] \in LogType /\ log[s].faults = {} /\ ~log[s].merged
  <2>1. LET new == [faults |-> {}, changed |-> {}, absent |-> {}, merged |-> FALSE,
                    result |-> "none"]
        IN  new \in LogType /\ new.faults = {} /\ ~new.merged
      BY DEF LogType
  <2> QED BY <1>1, <2>1
<1>5. Shape
  <2>1. WalksFit
    <3>1. IsFiniteSet({}) /\ Cardinality({}) = 0
        BY FS_EmptySet
    <3>2. \A s \in Scans : Width(s) \in Nat /\ 0 <= Width(s)
        BY ScanAssumption DEF Width
    <3>3. walk = [s \in Scans |-> walk[s]]
        BY DEF Init
    <3> QED BY <1>2, <3>1, <3>2, <3>3 DEF WalksFit
  <2>2. PipesFit
    <3>1. Len(<<>>) = 0 /\ 0 <= QueueSize /\ 0 <= BatchSize
        BY ScanAssumption
    <3>2. pipe = [s \in Scans |-> pipe[s]]
        BY DEF Init
    <3> QED BY <1>3, <3>1, <3>2 DEF PipesFit
  <2>3. LogsFit
    <3>1. log = [s \in Scans |-> log[s]]
        BY DEF Init
    <3> QED BY <1>4, <3>1 DEF LogsFit
  <2>4. EntriesFit /\ StagingFits /\ PlacesFit
      BY DEF Init, EntriesFit, StagingFits, PlacesFit, Places
  <2>5. RowsFit
    <3>1. [status |-> "none", code |-> "none"] \in RowType
        BY DEF RowType, Codes
    <3> QED BY <3>1 DEF Init, RowsFit
  <2>6. OthersFit
      BY DEF Init, OthersFit
  <2> QED BY <2>1, <2>2, <2>3, <2>4, <2>5, <2>6 DEF Shape
<1>6. ASSUME NEW s \in Scans
      PROVE  ScanInv(s)
  <2>1. row[s].status = "none" /\ row[s].code = "none"
      BY <1>1
  <2>2. asked = {} /\ stop = {}
      BY DEF Init
  <2>3. Goroutines(s) /\ CallerKnows(s)
      BY <1>1, <1>2, <1>3, <1>4, <2>2 DEF Goroutines, CallerKnows
  <2>4. RowFollows(s) /\ StagingFollows(s)
      BY <1>1, <2>1 DEF RowFollows, StagingFollows
  <2>5. Truthful(s) /\ Whole(s)
      BY <1>1 DEF Truthful, Whole, Merging
  <2> QED BY <2>3, <2>4, <2>5 DEF ScanInv
<1> QED BY <1>5, <1>6 DEF SessionInv

LEMMA StutterKeeps ==
    ASSUME SessionInv, UNCHANGED vars
    PROVE  SessionInv'
<1>1. UNCHANGED <<load, disk, edits, entries, staging, row, library, pc, walk, pipe, asked,
                  stop, probe, log, crashes>>
    BY DEF vars
<1>2. Shape'
    BY <1>1 DEF SessionInv, Shape, WalksFit, PipesFit, LogsFit, EntriesFit, StagingFits,
                RowsFit, PlacesFit, OthersFit
<1>3. \A t \in Scans : Unmoved(t)
    BY <1>1 DEF Unmoved
<1> QED BY <1>1, <1>2, <1>3, Bystander DEF SessionInv

LEMMA NextKeeps ==
    ASSUME SessionInv, [Next]_vars
    PROVE  SessionInv'
<1>1. ASSUME NEW s \in Scans, Producer(s)
      PROVE  SessionInv'
    BY <1>1, OpenDirKeeps, InspectKeeps, EmitKeeps, ListingDoneKeeps, WalkCanceledKeeps,
       WorkerLeavesKeeps, WalkReturnsKeeps DEF Producer
<1>2. ASSUME NEW s \in Scans, Consumer(s)
      PROVE  SessionInv'
    BY <1>2, ReceiveKeeps, FlushKeeps DEF Consumer
<1>3. ASSUME NEW s \in Scans, Caller(s)
      PROVE  SessionInv'
    BY <1>3, JoinKeeps, RecordCanceledKeeps, CleanCanceledKeeps, CleanFailedKeeps,
       RecordFailedKeeps, StartMergeKeeps, MergeKeeps, LastStatusKeeps, ReturnKeeps DEF Caller
<1>4. ASSUME NEW s \in Scans, Begin(s) \/ AskCancel(s)
      PROVE  SessionInv'
    BY <1>4, BeginKeeps, AskCancelKeeps
<1> QED BY <1>1, <1>2, <1>3, <1>4, EditKeeps, ProbeKeeps, CrashKeeps, StutterKeeps
        DEF Next, ScanStep

-----------------------------------------------------------------------------
(* The theorems.                                                           *)

\* The invariant holds in every reachable state: the frontier of the walk, the
\* entries on their way and the causes of failures follow ScanRootCtx
\* (inventory/service.go:180-371).
THEOREM ScanInvariant == Spec => []SessionInv
<1>1. Init => SessionInv
    BY InitHolds
<1>2. SessionInv /\ [Next]_vars => SessionInv'
    BY NextKeeps
<1> QED BY <1>1, <1>2, PTL DEF Spec

\* The types hold for every tree, every set of scans and every capacity: neither
\* the channel nor a batch nor the set of open listings outgrows its bound.
THEOREM ScanTypeCorrect == Spec => []TypeOK
<1>1. SessionInv => TypeOK
    BY ShapeIsTyped DEF SessionInv
<1> QED BY <1>1, ScanInvariant, PTL

\* A failed scan is settled: its row names the true cause, and its staged rows are
\* gone unless a write that settles it failed too (service.go:315-371).
THEOREM FailuresSettle == Spec => []FailuresAreSettled
<1>1. ASSUME SessionInv
      PROVE  RowTellsWhy
  <2> SUFFICES ASSUME NEW s \in Scans
               PROVE  LET hit == log[s].faults IN
        /\ row[s].code = "SCAN_WALK_FAILED" => "walk" \in hit
        /\ row[s].code = "STAGING_WRITE_FAILED" => "write" \in hit /\ "walk" \notin hit
        /\ row[s].code = "MERGE_FAILED" => "merge" \in hit
        /\ row[s].status = "canceled" => s \in asked /\ ~log[s].merged
        /\ row[s].status = "completed" => log[s].merged /\ hit \subseteq {"stale", "outcome"}
        /\ row[s].status = "interrupted" => crashes > 0
        /\ pc[s] = "returned" /\ row[s].status \in {"running", "merging"} => "status" \in hit
      BY DEF RowTellsWhy
  <2> QED BY <1>1 DEF SessionInv, ScanInv, RowFollows
<1>2. ASSUME SessionInv
      PROVE  StagingIsCleared
    BY <1>2 DEF StagingIsCleared, SessionInv, ScanInv, StagingFollows
<1>3. SessionInv => FailuresAreSettled
    BY <1>1, <1>2 DEF FailuresAreSettled
<1> QED BY <1>3, ScanInvariant, PTL

\* A scan that comes to its merge found everything in its scope: what it did not
\* stage was absent.  The directories it neither started from nor staged would
\* otherwise hold every directory above the missing path, its scope included.
LEMMA WholeScopeFound ==
    ASSUME SessionInv, NEW s \in Scans, pc[s] = "merge"
    PROVE  /\ Carried(s) = staging[s]
           /\ \A p \in InScope(s) : p \in StagedPaths(s) \/ p \in log[s].absent
<1>1. ScanInv(s) /\ Shape
    BY DEF SessionInv
<1>2. walk[s].st = "closed" /\ walk[s].err = NoErr /\ ~pipe[s].failed /\ pipe[s].st = "done"
    BY <1>1 DEF ScanInv, CallerKnows, Goroutines
<1>3. walk[s].open = {} /\ walk[s].todo = {} /\ pipe[s].chan = <<>> /\ pipe[s].batch = <<>>
    BY <1>1, <1>2 DEF ScanInv, Goroutines, Whole, Merging
<1>4. Carried(s) = staging[s]
    BY <1>3, NoElements DEF Carried
<1>5. \A p : Seen(s, p) <=> p \in StagedPaths(s)
    BY <1>4 DEF Seen, StagedPaths
<1>6. \A d \in Dirs : d = Scope[s] \/ Seen(s, d) =>
         \A p \in Paths : ParentOf[p] = d => Found(s, p)
    BY <1>1, <1>2, <1>3 DEF ScanInv, Whole, Merging
<1>7. ASSUME NEW p \in InScope(s), ~Found(s, p)
      PROVE  FALSE
  <2> DEFINE Unread == {d \in Dirs : d # Scope[s] /\ ~Seen(s, d)}
  <2>1. p \in Paths /\ Scope[s] \in Above(p) /\ ParentOf[p] \in Dirs
      BY Tree DEF InScope
  <2>2. ParentOf[p] \in Unread
      BY <1>6, <1>7, <2>1
  <2>3. ClosedAbove(Unread)
    <3> SUFFICES ASSUME NEW d \in Unread, d # Root
                 PROVE  ParentOf[d] \in Unread
        BY DEF ClosedAbove
    <3>1. d \in Dirs /\ d \in Paths /\ ParentOf[d] \in Dirs /\ d \notin Files
        BY Tree
    <3>2. log[s].absent \subseteq Files
        BY <1>1, Facts
    <3>3. ~Found(s, d)
        BY <3>1, <3>2 DEF Found
    <3> QED BY <1>6, <3>1, <3>3
  <2>4. Unread \in SUBSET Dirs
      OBVIOUS
  <2>5. Scope[s] \in Unread
      BY <2>1, <2>2, <2>3, <2>4 DEF Above
  <2> QED BY <2>5
<1> QED BY <1>4, <1>5, <1>7 DEF Found

\* A scan that starts its merge in this step is at the merge, and no other writes.
LEMMA MergingStep ==
    ASSUME SessionInv, NEW s \in Scans, [Next]_vars, log'[s].merged, ~log[s].merged
    PROVE  Merge(s) /\ pc[s] = "merge"
<1>1. Shape /\ log \in [Scans -> LogType]
    BY DEF SessionInv, Shape, LogsFit
<1>2. ASSUME UNCHANGED vars
      PROVE  FALSE
    BY <1>2 DEF vars
<1>3. ASSUME NEW f \in Files, Edit(f) \/ ProbeFile(f)
      PROVE  FALSE
  <2>1. CASE Edit(f)
    <3>1. log[s] \in LogType
        BY <1>1
    <3>2. log'[s].merged = log[s].merged
        BY <2>1, <3>1 DEF Edit, LogType
    <3> QED BY <3>2
  <2>2. CASE ProbeFile(f)
      BY <2>2 DEF ProbeFile, scansOnly
  <2> QED BY <1>3, <2>1, <2>2
<1>4. ASSUME WriteRate \/ Crash
      PROVE  FALSE
    BY <1>4 DEF WriteRate, Crash, scansOnly
<1>5. ASSUME NEW t \in Scans, t # s, Begin(t) \/ AskCancel(t) \/ ScanStep(t)
      PROVE  FALSE
  <2>1. CASE Producer(t)
      BY <1>5, <2>1, ProducerIsPipeline DEF Pipeline, Unmoved
  <2>2. CASE Consumer(t)
      BY <1>5, <2>2, ConsumerIsPipeline DEF Pipeline, Unmoved
  <2>3. CASE Begin(t) \/ AskCancel(t)
      BY <1>1, <1>5, <2>3 DEF Begin, AskCancel
  <2>4. CASE Caller(t)
    <3>1. \/ log' = log
          \/ \E x : log' = [log EXCEPT ![t] = x]
        BY <2>4 DEF Caller, Join, RecordCanceled, CleanCanceled, CleanFailed, RecordFailed,
                    StartMerge, Merge, MergeFailed, Complete, Return, Finish, FinishFault,
                    WriteOf, Fault
    <3> QED BY <1>1, <1>5, <3>1
  <2> QED BY <1>5, <2>1, <2>2, <2>3, <2>4 DEF ScanStep
<1>6. ASSUME Begin(s) \/ AskCancel(s)
      PROVE  FALSE
  <2>1. log[s] \in LogType
      BY <1>1
  <2> QED BY <1>1, <1>6, <2>1 DEF Begin, AskCancel, LogType
<1>7. ASSUME Producer(s) \/ Consumer(s)
      PROVE  FALSE
  <2>1. log[s] \in LogType
      BY <1>1
  <2>2. \/ log' = log
        \/ \E k : log' = [log EXCEPT ![s].faults = @ \cup {k}]
    <3>1. CASE Producer(s)
        BY <3>1 DEF Producer, OpenDir, Inspect, Emit, ListingDone, WalkCanceled, WorkerLeaves,
                    WalkReturns, Fault
    <3>2. CASE Consumer(s)
        BY <3>2 DEF Consumer, Receive, FlushFull, FlushLast, WriteOf, Fault
    <3> QED BY <1>7, <3>1, <3>2
  <2>3. log'[s].merged = log[s].merged
      BY <1>1, <2>1, <2>2 DEF LogType
  <2> QED BY <2>3
<1>8. ASSUME Caller(s), ~Merge(s)
      PROVE  FALSE
  <2>1. log[s] \in LogType
      BY <1>1
  <2>2. \/ log' = log
        \/ \E k : log' = [log EXCEPT ![s].faults = @ \cup {k}]
        \/ \E r : log' = [log EXCEPT ![s].result = r]
        \/ \E r, k : log' = [log EXCEPT ![s].result = r, ![s].faults = @ \cup {k}]
      BY <1>8 DEF Caller, Join, RecordCanceled, CleanCanceled, CleanFailed, RecordFailed,
                  StartMerge, MergeFailed, Complete, Return, Finish, FinishFault, WriteOf, Fault
  <2>3. CASE log' = log \/ \E k : log' = [log EXCEPT ![s].faults = @ \cup {k}]
      BY <1>1, <2>1, <2>3 DEF LogType
  <2>4. CASE \E r : log' = [log EXCEPT ![s].result = r]
      BY <1>1, <2>1, <2>4 DEF LogType
  <2>5. ASSUME NEW r, NEW k, log' = [log EXCEPT ![s].result = r, ![s].faults = @ \cup {k}]
        PROVE  FALSE
    <3>1. log'[s] = [log[s] EXCEPT !.result = r, !.faults = log[s].faults \cup {k}]
        BY <1>1, <2>5
    <3> QED BY <2>1, <3>1 DEF LogType
  <2> QED BY <2>2, <2>3, <2>4, <2>5
<1> QED BY <1>2, <1>3, <1>4, <1>5, <1>6, <1>7, <1>8 DEF Next, ScanStep, Merge

\* The rows a merge leaves: those of its scope as the disk has them, the others
\* as they were.
LEMMA MergedTells ==
    ASSUME SessionInv, NEW s \in Scans, pc[s] = "merge", NEW stale \in SUBSET Stale(s),
           entries' = Merged(s, stale)
    PROVE  /\ \A p \in Paths \ InScope(s) : entries'[p] = entries[p]
           /\ \A f \in InScope(s) \cap Files :
                /\ f \notin log[s].changed /\ disk[f] # 0 => entries'[f].ver = disk[f]
                /\ f \notin log[s].changed /\ disk[f] = 0 /\ stale = Stale(s) =>
                      entries'[f].ver = 0
                /\ entries[f].ver # 0 /\ entries'[f].ver = 0 => f \in log[s].absent
<1>1. ScanInv(s) /\ Shape
    BY DEF SessionInv
<1>2. /\ \A e \in staging[s] : /\ e[1] \in InScope(s) /\ e[2] # 0
                               /\ (e[1] \in Files \ log[s].changed => e[2] = disk[e[1]])
      /\ \A f \in log[s].absent : f \notin log[s].changed => disk[f] = 0
      /\ \A p \in InScope(s) : p \in StagedPaths(s) \/ p \in log[s].absent
    BY <1>1, WholeScopeFound DEF ScanInv, Truthful, Merging
<1>3. \A p \in StagedPaths(s) :
         /\ p \in InScope(s) /\ StagedVersion(s, p) # 0
         /\ (p \in Files \ log[s].changed => StagedVersion(s, p) = disk[p])
  <2> TAKE p \in StagedPaths(s)
  <2> DEFINE e0 == <<p, StagedVersion(s, p)>>
  <2>1. e0 \in staging[s] /\ e0[1] = p /\ e0[2] = StagedVersion(s, p)
      BY <1>1, StagedIsTyped
  <2> HIDE DEF e0
  <2> QED BY <1>2, <2>1
<1>4. \A p \in Paths :
         /\ p \in StagedPaths(s) => entries'[p].ver = StagedVersion(s, p)
         /\ p \notin StagedPaths(s) /\ p \in stale => entries'[p].ver = 0
         /\ p \notin StagedPaths(s) /\ p \notin stale => entries'[p] = entries[p]
    BY DEF Merged, NoRow
<1>5. stale \subseteq InScope(s) /\ \A p \in InScope(s) : p \in Stale(s) <=> p \notin StagedPaths(s)
    BY DEF Stale
<1>6. \A f \in InScope(s) \cap Files : f \in Paths
    BY DEF InScope
<1> QED BY <1>2, <1>3, <1>4, <1>5, <1>6

\* A merge tells the inventory what is on the disk, for every interleaving of two
\* scans with edits, faults and probes (scan_merge.go:72-143).
THEOREM MergeTellsDisk == Spec => MergesWhatItSaw
<1> DEFINE Told(s) ==
         /\ \A p \in Paths \ InScope(s) : entries'[p] = entries[p]
         /\ \A f \in InScope(s) \cap Files :
              /\ f \notin log[s].changed /\ disk[f] # 0 => entries'[f].ver = disk[f]
              /\ f \notin log[s].changed /\ disk[f] = 0 =>
                    entries'[f].ver = 0 \/ "stale" \in log'[s].faults
              /\ entries[f].ver # 0 /\ entries'[f].ver = 0 => f \in log[s].absent
<1>1. ASSUME SessionInv, [Next]_vars, NEW s \in Scans, log'[s].merged, ~log[s].merged
      PROVE  Told(s)
  <2>1. Merge(s) /\ pc[s] = "merge"
      BY <1>1, MergingStep
  <2>2. log \in [Scans -> LogType] /\ log[s] \in LogType
      BY <1>1 DEF SessionInv, Shape, LogsFit
  <2>3. \/ entries' = Merged(s, Stale(s))
        \/ entries' = Merged(s, {})
             /\ log' = [log EXCEPT ![s].merged = TRUE, ![s].faults = @ \cup {"stale"}]
    <3>1. ~(log' = [log EXCEPT ![s].faults = @ \cup {"merge"}])
        BY <1>1, <2>2 DEF LogType
    <3> QED BY <2>1, <3>1 DEF Merge
  <2>4. CASE entries' = Merged(s, Stale(s))
      BY <1>1, <2>1, <2>4, MergedTells
  <2>5. CASE entries' = Merged(s, {})
             /\ log' = [log EXCEPT ![s].merged = TRUE, ![s].faults = @ \cup {"stale"}]
    <3>1. "stale" \in log'[s].faults
        BY <2>2, <2>5 DEF LogType
    <3> QED BY <1>1, <2>1, <2>5, <3>1, MergedTells
  <2> QED BY <2>3, <2>4, <2>5
<1>2. SessionInv /\ [Next]_vars =>
        [\A s \in Scans : log'[s].merged /\ ~log[s].merged => Told(s)]_vars
    BY <1>1
<1> QED BY <1>2, ScanInvariant, PTL DEF Spec, MergesWhatItSaw
=============================================================================
