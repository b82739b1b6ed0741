---------------------------- MODULE ScanSession ----------------------------
(***************************************************************************)
(* Scans of one library root: the pipeline of inventory/service.go (a walk *)
(* that emits entries into a bounded channel, a consumer that stages them  *)
(* in batches), the merge of the staged rows into the inventory            *)
(* (adapters/sqlite/scan_merge.go), and the planner's bit-rate probe, the  *)
(* other writer of the same rows.  A full scan and the refresh of a member *)
(* may run side by side (the admission gate lets scans share their slot),  *)
(* while another program changes the files.                                *)
(*                                                                         *)
(* A file's version stands for its size and modification time, the only    *)
(* facts a scan compares; version 0 is an absent file.  The directory tree *)
(* is fixed, and a directory that cannot be read is a fault.  The depth-   *)
(* first walk of a member is the walk of the root with one worker: only    *)
(* the order of the emitted entries differs.                               *)
(***************************************************************************)
EXTENDS Integers, Sequences, FiniteSets

CONSTANTS
    Scans,        \* the scans that may be started
    Scope,        \* Scope[s]: the directory scan s walks
    Root,         \* the library root
    Dirs, Files,  \* the directories and the files below them
    ParentOf,     \* ParentOf[p]: the directory that holds p
    RootWorkers,  \* directories the walk of the root reads at once
    QueueSize,    \* capacity of the channel of entries
    BatchSize,    \* entries written in one transaction
    Canceled, NoErr,  \* the walk's own answers
    Workloads     \* the scans that may start, the files, those on the disk, those
                  \* listed, and how much of each event may happen

ASSUME ScanAssumption ==
    /\ Root \in Dirs /\ Scope \in [Scans -> Dirs] /\ Dirs \cap Files = {}
    /\ ParentOf \in [(Dirs \cup Files) \ {Root} -> Dirs]
    /\ RootWorkers \in Nat \ {0} /\ QueueSize \in Nat \ {0} /\ BatchSize \in Nat \ {0}
    /\ Canceled # NoErr /\ "walk" \notin {Canceled, NoErr}
    /\ Workloads \subseteq [scans : SUBSET Scans, files : SUBSET Files,
                            present : SUBSET Files, listed : SUBSET Files,
                            max : [{"edit", "fault", "cancel", "crash", "probe"} -> Nat]]

Paths == (Dirs \cup Files) \ {Root}
Full(s) == Scope[s] = Root
Width(s) == IF Full(s) THEN RootWorkers ELSE 1

\* The directories above a path: the fewest that hold it, or one of their own.
\* A scan answers for the paths below its scope; the scope's own row is not among
\* them.
ClosedAbove(S) == \A d \in S \ {Root} : ParentOf[d] \in S
Above(p) ==
    {d \in Dirs : \A S \in SUBSET Dirs : ParentOf[p] \in S /\ ClosedAbove(S) => d \in S}
InScope(s) == {p \in Paths : Scope[s] \in Above(p)}

VARIABLES
    load,     \* the workload of this behavior
    disk,     \* disk[f]: the version of file f
    entries,  \* entries[p]: the inventory's row of p, a version and a bit rate
    staging,  \* staging[s]: the staged rows of scan s, each a path and a version
    row,      \* row[s]: the status and error code of the scan's own row
    library,  \* the last scan state the library shows
    pc,       \* pc[s]: where the scan's caller is
    walk,     \* walk[s]: the producer
    pipe,     \* pipe[s]: the channel and the consumer
    asked,    \* the scans whose caller gave up
    stop,     \* the scans whose derived context is canceled
    probe,    \* the planner's probe: the file, and the version it measured
    log,      \* history of each scan: faults that hit it, files that changed
              \* or were absent since it began, whether it merged
    edits, faults, crashes, probes

diskVars == <<load, disk, edits>>
control == <<asked, stop>>
probeVars == <<probe, probes>>
vars == <<load, disk, entries, staging, row, library, pc, walk, pipe, asked, stop,
          probe, log, edits, faults, crashes, probes>>

NoRow == [ver |-> 0, rate |-> 0]
NoProbe == [file |-> NoErr, ver |-> 0]
IdleWalk == [st |-> "closed", todo |-> {}, open |-> {}, err |-> NoErr]
IdlePipe == [chan |-> <<>>, batch |-> <<>>, st |-> "done", failed |-> FALSE]

DiskVersion(p) == IF p \in Dirs THEN 1 ELSE disk[p]

Init ==
    /\ load \in Workloads
    /\ disk = [f \in Files |-> IF f \in load.present THEN 1 ELSE 0]
    /\ entries = [p \in Paths |->
                    [ver |-> IF p \in Dirs \cup load.listed THEN 1 ELSE 0, rate |-> 0]]
    /\ staging = [s \in Scans |-> {}]
    /\ row = [s \in Scans |-> [status |-> "none", code |-> "none"]]
    /\ library = "none"
    /\ pc = [s \in Scans |-> "idle"]
    /\ walk = [s \in Scans |-> IdleWalk]
    /\ pipe = [s \in Scans |-> IdlePipe]
    /\ asked = {} /\ stop = {}
    /\ probe = NoProbe
    /\ log = [s \in Scans |-> [faults |-> {}, changed |-> {}, absent |-> {},
                               merged |-> FALSE, result |-> "none"]]
    /\ edits = 0 /\ faults = 0 /\ crashes = 0 /\ probes = 0

(***************************************************************************)
(* Faults, and the history the properties speak of.                        *)
(***************************************************************************)
Fault(s, kind) ==
    /\ faults < load.max["fault"]
    /\ faults' = faults + 1
    /\ log' = [log EXCEPT ![s].faults = @ \cup {kind}]

\* What happens when a write of scan s succeeds, or fails.
WriteOf(s, kind, done, failed) ==
    \/ done /\ UNCHANGED <<log, faults>>
    \/ failed /\ Fault(s, kind)

Status(s, status, code) == row' = [row EXCEPT ![s] = [status |-> status, code |-> code]]
Goto(s, place) == pc' = [pc EXCEPT ![s] = place]

(***************************************************************************)
(* The caller creates the scan's row and starts both goroutines.           *)
(***************************************************************************)
Begin(s) ==
    /\ pc[s] = "idle" /\ s \in load.scans
    /\ \/ /\ Status(s, "running", "none")
          /\ Goto(s, "pipeline")
          /\ walk' = [walk EXCEPT ![s] =
                        [st |-> "walking", todo |-> {Scope[s]}, open |-> {}, err |-> NoErr]]
          /\ pipe' = [pipe EXCEPT ![s] =
                        [chan |-> <<>>, batch |-> <<>>, st |-> "draining", failed |-> FALSE]]
          /\ log' = [log EXCEPT ![s].absent = {f \in Files : disk[f] = 0}]
          /\ UNCHANGED faults
       \/ /\ faults < load.max["fault"] /\ faults' = faults + 1
          /\ log' = [log EXCEPT ![s].result = "failed"]
          /\ Goto(s, "return")
          /\ UNCHANGED <<row, walk, pipe>>
    /\ UNCHANGED <<diskVars, entries, staging, library, control, probeVars, crashes>>

\* The caller's context ends: its client went away.
AskCancel(s) ==
    /\ pc[s] \notin {"idle", "return", "returned", "dead"}
    /\ s \notin asked /\ Cardinality(asked) < load.max["cancel"]
    /\ asked' = asked \cup {s}
    /\ stop' = stop \cup {s}
    /\ UNCHANGED <<diskVars, entries, staging, row, library, pc, walk, pipe, probeVars,
                   log, faults, crashes>>

(***************************************************************************)
(* The producer: a coordinator hands directories to workers; a worker      *)
(* lists its directory, and reads and emits its entries one by one.        *)
(***************************************************************************)
Children(d) == {p \in Paths : ParentOf[p] = d /\ DiskVersion(p) # 0}

walkOnly == <<diskVars, entries, staging, row, library, pc, control, probeVars, crashes>>

Replace(s, old, new) == walk' = [walk EXCEPT ![s].open = (@ \ old) \cup new]

\* The coordinator takes the first error; the other workers must leave too.
FailWalk(s, listing, err) ==
    walk' = [walk EXCEPT ![s].st = "failing", ![s].open = @ \ listing, ![s].err = err]

OpenDir(s) ==
    /\ walk[s].st = "walking" /\ Cardinality(walk[s].open) < Width(s)
    /\ \E d \in walk[s].todo :
         \/ /\ walk' = [walk EXCEPT
                  ![s].todo = @ \ {d},
                  ![s].open = @ \cup {[dir |-> d, left |-> Children(d), hold |-> {}]}]
            /\ UNCHANGED <<log, faults>>
         \/ FailWalk(s, {}, "walk") /\ Fault(s, "walk")
    /\ UNCHANGED <<pipe, walkOnly>>

\* Info: the entry's facts as they are now, or the error of a file that is gone.
Inspect(s) ==
    /\ walk[s].st = "walking" /\ s \notin stop
    /\ \E l \in walk[s].open : \E p \in l.left :
         /\ l.hold = {}
         /\ IF DiskVersion(p) = 0
            THEN /\ FailWalk(s, {l}, "walk")
                 /\ log' = [log EXCEPT ![s].faults = @ \cup {"walk"}]
            ELSE /\ Replace(s, {l}, {[l EXCEPT !.left = @ \ {p},
                                               !.hold = {<<p, DiskVersion(p)>>}]})
                 /\ UNCHANGED log
    /\ UNCHANGED <<faults, pipe, walkOnly>>

\* Mutant: the channel has no capacity.
EmitUnbounded(s) ==
    /\ walk[s].st \in {"walking", "failing"}
    /\ \E l \in walk[s].open : \E e \in l.hold :
         /\ Replace(s, {l}, {[l EXCEPT !.hold = {}]})
         /\ pipe' = [pipe EXCEPT ![s].chan = Append(@, e)]
    /\ UNCHANGED <<log, faults, walkOnly>>

\* emit: the entry goes into the channel when there is room for it.
Emit(s) ==
    /\ walk[s].st \in {"walking", "failing"} /\ Len(pipe[s].chan) < QueueSize
    /\ \E l \in walk[s].open : \E e \in l.hold :
         /\ Replace(s, {l}, {[l EXCEPT !.hold = {}]})
         /\ pipe' = [pipe EXCEPT ![s].chan = Append(@, e)]
    /\ UNCHANGED <<log, faults, walkOnly>>

\* A worker reports a finished listing; its directories are queued.
ListingDone(s) ==
    /\ walk[s].st = "walking"
    /\ \E l \in walk[s].open :
         /\ l.left = {} /\ l.hold = {}
         /\ walk' = [walk EXCEPT ![s].open = @ \ {l},
                                 ![s].todo = @ \cup (Children(l.dir) \cap Dirs)]
    /\ UNCHANGED <<log, faults, pipe, walkOnly>>

\* The walk sees the canceled context, in emit or between two steps.
WalkCanceled(s) ==
    /\ walk[s].st = "walking" /\ s \in stop
    /\ FailWalk(s, {}, Canceled)
    /\ UNCHANGED <<log, faults, pipe, walkOnly>>

\* After an error a worker leaves, unless it is blocked in emit.
WorkerLeaves(s) ==
    /\ walk[s].st = "failing"
    /\ \E l \in walk[s].open :
         /\ l.hold = {} \/ s \in stop
         /\ Replace(s, {l}, {})
    /\ UNCHANGED <<log, faults, pipe, walkOnly>>

\* The walk returns; only the producer closes the channel.
WalkReturns(s) ==
    /\ walk[s].open = {}
    /\ \/ /\ walk[s].st = "walking" /\ walk[s].todo = {}
          /\ walk' = [walk EXCEPT ![s].st = "closed",
                        ![s].err = IF Full(s) /\ s \in stop THEN Canceled ELSE NoErr]
       \/ /\ walk[s].st = "failing"
          /\ walk' = [walk EXCEPT ![s].st = "closed"]
    /\ stop' = IF walk'[s].err = NoErr THEN stop ELSE stop \cup {s}
    /\ UNCHANGED <<diskVars, entries, staging, row, library, pc, pipe, asked, probeVars, log,
                   faults, crashes>>

Producer(s) ==
    \/ OpenDir(s) \/ Inspect(s) \/ Emit(s) \/ ListingDone(s)
    \/ WalkCanceled(s) \/ WorkerLeaves(s) \/ WalkReturns(s)

(***************************************************************************)
(* The consumer: full batches are written as they fill, the last one when  *)
(* the channel is closed.                                                  *)
(***************************************************************************)
pipeOnly == <<diskVars, entries, row, library, pc, walk, asked, probeVars, crashes>>

Elements(seq) == {seq[i] : i \in 1 .. Len(seq)}

Receive(s) ==
    /\ pipe[s].st = "draining" /\ pipe[s].chan # <<>> /\ Len(pipe[s].batch) < BatchSize
    /\ pipe' = [pipe EXCEPT ![s].batch = Append(@, Head(pipe[s].chan)), ![s].chan = Tail(@)]
    /\ UNCHANGED <<staging, stop, log, faults, pipeOnly>>

\* WriteStagingBatch: one transaction, all of the batch or nothing.
Stage(s) == staging' = [staging EXCEPT ![s] = @ \cup Elements(pipe[s].batch)]

\* Mutant: the walk is not told that the consumer gave up.
FlushWithoutStop(s) ==
    /\ pipe[s].st = "draining" /\ Len(pipe[s].batch) = BatchSize
    /\ WriteOf(s, "write",
               Stage(s) /\ pipe' = [pipe EXCEPT ![s].batch = <<>>],
               /\ pipe' = [pipe EXCEPT ![s].st = "done", ![s].failed = TRUE]
               /\ UNCHANGED staging)
    /\ UNCHANGED <<stop, pipeOnly>>

\* A full batch that cannot be written stops the walk as well.
FlushFull(s) ==
    /\ pipe[s].st = "draining" /\ Len(pipe[s].batch) = BatchSize
    /\ WriteOf(s, "write",
               /\ Stage(s)
               /\ pipe' = [pipe EXCEPT ![s].batch = <<>>]
               /\ UNCHANGED stop,
               /\ pipe' = [pipe EXCEPT ![s].st = "done", ![s].failed = TRUE]
               /\ stop' = stop \cup {s}
               /\ UNCHANGED staging)
    /\ UNCHANGED pipeOnly

FlushLast(s) ==
    /\ pipe[s].st = "draining" /\ walk[s].st = "closed"
    /\ pipe[s].chan = <<>> /\ Len(pipe[s].batch) < BatchSize
    /\ WriteOf(s, "write",
               /\ Stage(s)
               /\ pipe' = [pipe EXCEPT ![s].batch = <<>>, ![s].st = "done"],
               /\ pipe[s].batch # <<>>
               /\ pipe' = [pipe EXCEPT ![s].st = "done", ![s].failed = TRUE]
               /\ UNCHANGED staging)
    /\ UNCHANGED <<stop, pipeOnly>>

Consumer(s) == Receive(s) \/ FlushFull(s) \/ FlushLast(s)

(***************************************************************************)
(* The caller, once both goroutines are done.                              *)
(***************************************************************************)
callerOnly == <<diskVars, library, walk, pipe, control, probeVars, crashes>>

\* Mutant: only the walk's error stops the merge.
JoinIgnoringWriter(s) ==
    /\ pc[s] = "pipeline" /\ walk[s].st = "closed" /\ pipe[s].st = "done"
    /\ Goto(s, IF s \in asked THEN "record canceled"
               ELSE IF walk[s].err # NoErr THEN "clean failed"
               ELSE "start merge")
    /\ UNCHANGED <<entries, staging, row, log, faults, callerOnly>>

Join(s) ==
    /\ pc[s] = "pipeline" /\ walk[s].st = "closed" /\ pipe[s].st = "done"
    /\ Goto(s, IF s \in asked THEN "record canceled"
               ELSE IF walk[s].err # NoErr \/ pipe[s].failed THEN "clean failed"
               ELSE "start merge")
    /\ UNCHANGED <<entries, staging, row, log, faults, callerOnly>>

\* The result the caller hears; the derived context ends with the call.
Finish(s, result) ==
    /\ Goto(s, "return")
    /\ log' = [log EXCEPT ![s].result = result]

FinishFault(s, kind, result) ==
    /\ faults < load.max["fault"] /\ faults' = faults + 1
    /\ Goto(s, "return")
    /\ log' = [log EXCEPT ![s].result = result, ![s].faults = @ \cup {kind}]

RecordCanceled(s) ==
    /\ pc[s] = "record canceled" /\ Goto(s, "clean canceled")
    /\ WriteOf(s, "status", Status(s, "canceled", "SCAN_CANCELLED"), UNCHANGED row)
    /\ UNCHANGED <<entries, staging, callerOnly>>

Clean(s) == staging' = [staging EXCEPT ![s] = {}]

CleanCanceled(s) ==
    /\ pc[s] = "clean canceled"
    /\ \/ Clean(s) /\ Finish(s, "canceled") /\ UNCHANGED faults
       \/ FinishFault(s, "cleanup", "canceled") /\ UNCHANGED staging
    /\ UNCHANGED <<entries, row, callerOnly>>

\* A scan that failed drops what it staged before its row is written.
CleanFailed(s) ==
    /\ pc[s] = "clean failed" /\ Goto(s, "record failed")
    /\ WriteOf(s, "cleanup", Clean(s), UNCHANGED staging)
    /\ UNCHANGED <<entries, row, callerOnly>>

\* Mutant: the echo of the consumer's stop is taken for an error of the walk.
WalkFirst(err, writeFailed) ==
    IF err # NoErr THEN "SCAN_WALK_FAILED" ELSE "STAGING_WRITE_FAILED"

\* An error of the walk is primary unless it is the echo of the consumer's stop.
PrimaryCode(err, writeFailed) ==
    IF err \notin {NoErr, Canceled} THEN "SCAN_WALK_FAILED"
    ELSE IF writeFailed THEN "STAGING_WRITE_FAILED"
    ELSE "SCAN_WALK_FAILED"

RecordFailed(s) ==
    /\ pc[s] = "record failed"
    /\ \/ /\ Status(s, "failed", PrimaryCode(walk[s].err, pipe[s].failed))
          /\ Finish(s, "failed") /\ UNCHANGED faults
       \/ FinishFault(s, "status", "failed") /\ UNCHANGED row
    /\ UNCHANGED <<entries, staging, callerOnly>>

StartMerge(s) ==
    /\ pc[s] = "start merge"
    /\ \/ Status(s, "merging", "none") /\ Goto(s, "merge") /\ UNCHANGED <<log, faults>>
       \/ FinishFault(s, "status", "failed") /\ UNCHANGED row
    /\ UNCHANGED <<entries, staging, callerOnly>>

(***************************************************************************)
(* The merge, one transaction: every staged row is inserted or refreshed,  *)
(* a changed one loses its bit rate, and the rows of the scope the scan    *)
(* did not stage are deleted.  That deletion's failure is swallowed and    *)
(* the rest is committed.                                                  *)
(***************************************************************************)
StagedPaths(s) == {e[1] : e \in staging[s]}
StagedVersion(s, p) == (CHOOSE e \in staging[s] : e[1] = p)[2]

\* The rows a scan may delete: all of the root's, or those under its scope.
Stale(s) == {p \in InScope(s) : p \notin StagedPaths(s)}

Merged(s, stale) ==
    [p \in Paths |->
        IF p \in StagedPaths(s)
        THEN [ver |-> StagedVersion(s, p),
              rate |-> IF entries[p].ver = StagedVersion(s, p) THEN entries[p].rate ELSE 0]
        ELSE IF p \in stale THEN NoRow
        ELSE entries[p]]

Merge(s) ==
    /\ pc[s] = "merge"
    /\ \/ /\ entries' = Merged(s, Stale(s)) /\ Clean(s) /\ Goto(s, "complete")
          /\ log' = [log EXCEPT ![s].merged = TRUE] /\ UNCHANGED faults
       \/ /\ faults < load.max["fault"] /\ faults' = faults + 1
          /\ \/ \* the deletion of stale rows fails
                /\ entries' = Merged(s, {}) /\ Clean(s) /\ Goto(s, "complete")
                /\ log' = [log EXCEPT ![s].merged = TRUE, ![s].faults = @ \cup {"stale"}]
             \/ \* the count after the commit fails
                /\ entries' = Merged(s, Stale(s)) /\ Clean(s) /\ Goto(s, "merge failed")
                /\ log' = [log EXCEPT ![s].merged = TRUE, ![s].faults = @ \cup {"merge"}]
             \/ \* the transaction rolls back
                /\ Goto(s, "merge failed")
                /\ log' = [log EXCEPT ![s].faults = @ \cup {"merge"}]
                /\ UNCHANGED <<entries, staging>>
    /\ UNCHANGED <<row, callerOnly>>

MergeFailed(s) ==
    /\ pc[s] = "merge failed"
    /\ \/ Status(s, "failed", "MERGE_FAILED") /\ Finish(s, "failed") /\ UNCHANGED faults
       \/ FinishFault(s, "status", "failed") /\ UNCHANGED row
    /\ UNCHANGED <<entries, staging, callerOnly>>

Complete(s) ==
    /\ pc[s] = "complete"
    /\ \/ Status(s, "completed", "none") /\ Finish(s, "completed") /\ UNCHANGED faults
       \/ FinishFault(s, "status", "failed") /\ UNCHANGED row
    /\ UNCHANGED <<entries, staging, callerOnly>>

\* The entry records the outcome of a full scan on the library row; a failed
\* record is swallowed.  A refresh answers its caller and records nothing.
Return(s) ==
    /\ pc[s] = "return" /\ Goto(s, "returned")
    /\ IF Full(s)
       THEN WriteOf(s, "outcome", library' = log[s].result, UNCHANGED library)
       ELSE UNCHANGED <<library, log, faults>>
    /\ UNCHANGED <<diskVars, entries, staging, row, walk, pipe, control, probeVars, crashes>>

Caller(s) ==
    \/ Join(s) \/ RecordCanceled(s) \/ CleanCanceled(s) \/ CleanFailed(s) \/ RecordFailed(s)
    \/ StartMerge(s) \/ Merge(s) \/ MergeFailed(s) \/ Complete(s) \/ Return(s)

(***************************************************************************)
(* The planner's probe of one file whose bit rate is unknown: it asks      *)
(* ffprobe for the file on disk, and writes the answer to the row by path. *)
(***************************************************************************)
scansOnly == <<staging, row, library, pc, walk, pipe, control, log, faults, crashes>>

\* ProbeFile: enrichMissing takes an entry without a rate and measures the file.
ProbeFile(f) ==
    /\ probe = NoProbe /\ probes < load.max["probe"]
    /\ entries[f].ver # 0 /\ entries[f].rate = 0 /\ disk[f] # 0
    /\ probe' = [file |-> f, ver |-> disk[f]]
    /\ probes' = probes + 1
    /\ UNCHANGED <<diskVars, entries, scansOnly>>

\* UpdateEntryBitrates: by path, whatever the row describes by now.
WriteRate ==
    /\ probe # NoProbe
    /\ probe' = NoProbe
    /\ entries' = IF entries[probe.file].ver = 0 THEN entries
                  ELSE [entries EXCEPT ![probe.file].rate = probe.ver]
    /\ UNCHANGED <<diskVars, probes, scansOnly>>

(***************************************************************************)
(* Another program changes a file; the process ends and starts again.      *)
(***************************************************************************)
Edit(f) ==
    /\ edits < load.max["edit"] /\ f \in load.files
    /\ edits' = edits + 1
    /\ disk' \in {[disk EXCEPT ![f] = v] : v \in {0, edits + 2} \ {disk[f]}}
    /\ log' = [s \in Scans |->
                 IF pc[s] \in {"idle", "returned", "dead"} THEN log[s]
                 ELSE [log[s] EXCEPT !.changed = @ \cup {f},
                                     !.absent = IF disk'[f] = 0 THEN @ \cup {f} ELSE @]]
    /\ UNCHANGED <<load, entries, staging, row, library, pc, walk, pipe, control, probeVars,
                   faults, crashes>>

\* A restart marks every unfinished row interrupted; staged rows stay.
Crash ==
    /\ crashes < load.max["crash"] /\ crashes' = crashes + 1
    /\ pc' = [s \in Scans |-> IF pc[s] \in {"idle", "returned"} THEN pc[s] ELSE "dead"]
    /\ row' = [s \in Scans |-> IF row[s].status \in {"queued", "running", "merging"}
                               THEN [status |-> "interrupted", code |-> "INTERRUPTED"]
                               ELSE row[s]]
    /\ walk' = [s \in Scans |-> IdleWalk]
    /\ pipe' = [s \in Scans |-> IdlePipe]
    /\ probe' = NoProbe
    /\ UNCHANGED <<diskVars, entries, staging, library, control, log, faults, probes>>

ScanStep(s) == Producer(s) \/ Consumer(s) \/ Caller(s)

Next ==
    \/ \E s \in Scans : Begin(s) \/ AskCancel(s) \/ ScanStep(s)
    \/ \E f \in Files : Edit(f) \/ ProbeFile(f)
    \/ WriteRate
    \/ Crash

Spec == Init /\ [][Next]_vars

\* A started scan's goroutines and its caller keep running.
FairSpec == Spec /\ \A s \in Scans : WF_vars(Producer(s)) /\ WF_vars(Consumer(s)) /\ WF_vars(Caller(s))

(***************************************************************************)
(* Properties.                                                             *)
(***************************************************************************)
Codes == {"none", "SCAN_CANCELLED", "SCAN_WALK_FAILED", "STAGING_WRITE_FAILED",
          "MERGE_FAILED", "INTERRUPTED"}
Places == {"idle", "pipeline", "record canceled", "clean canceled", "clean failed",
           "record failed", "start merge", "merge", "complete", "merge failed", "return",
           "returned", "dead"}

\* The types of the state; the channel and the batch never exceed their capacities.
TypeOK ==
    /\ load \in Workloads /\ disk \in [Files -> Nat]
    /\ entries \in [Paths -> [ver : Nat, rate : Nat]]
    /\ staging \in [Scans -> SUBSET (Paths \X Nat)]
    /\ row \in [Scans -> [status : {"none", "running", "merging", "completed", "failed",
                                    "canceled", "interrupted"}, code : Codes]]
    /\ library \in {"none", "completed", "failed", "canceled"}
    /\ pc \in [Scans -> Places]
    /\ \A s \in Scans :
         /\ walk[s].st \in {"walking", "failing", "closed"}
         /\ walk[s].todo \subseteq Dirs /\ walk[s].err \in {NoErr, Canceled, "walk"}
         /\ Cardinality(walk[s].open) <= Width(s)
         /\ Len(pipe[s].chan) <= QueueSize /\ Len(pipe[s].batch) <= BatchSize
    /\ asked \subseteq Scans /\ asked \subseteq stop

\* A merge tells the inventory what is on the disk: a file that did not change
\* since the scan began is listed exactly as it is, a row is deleted only when
\* its file was absent at some moment since then, and nothing outside the scope
\* changes (scan_merge.go:72-143).  Neither a partial walk, nor a lost batch,
\* nor a scan that began before another one merged can unlist a file that is there.
MergesWhatItSaw ==
    [][\A s \in Scans : log'[s].merged /\ ~log[s].merged =>
         /\ \A p \in Paths \ InScope(s) : entries'[p] = entries[p]
         /\ \A f \in InScope(s) \cap Files :
              /\ f \notin log[s].changed /\ disk[f] # 0 => entries'[f].ver = disk[f]
              /\ f \notin log[s].changed /\ disk[f] = 0 =>
                    entries'[f].ver = 0 \/ "stale" \in log'[s].faults
              /\ entries[f].ver # 0 /\ entries'[f].ver = 0 => f \in log[s].absent]_vars

\* What a scan's row says happened did happen: its error code names a fault that
\* hit it and never the echo of its own stop, only a caller's cancellation is
\* reported as one, a completed scan merged, and a row is left unfinished after
\* its scan returned only because its status could not be written
\* (service.go:44-58, 315-371; repo_scan_session.go:76-85).
RowTellsWhy ==
    \A s \in Scans :
        LET hit == log[s].faults IN
        /\ row[s].code = "SCAN_WALK_FAILED" => "walk" \in hit
        /\ row[s].code = "STAGING_WRITE_FAILED" => "write" \in hit /\ "walk" \notin hit
        /\ row[s].code = "MERGE_FAILED" => "merge" \in hit
        /\ row[s].status = "canceled" => s \in asked /\ ~log[s].merged
        /\ row[s].status = "completed" => log[s].merged /\ hit \subseteq {"stale", "outcome"}
        /\ row[s].status = "interrupted" => crashes > 0
        /\ pc[s] = "returned" /\ row[s].status \in {"running", "merging"} => "status" \in hit

\* Staged rows outlive their scan only if a write failed on the way out or the
\* process ended: nothing else ever deletes them (service.go:320-333, 354-371).
StagingIsCleared ==
    \A s \in Scans : pc[s] \in {"returned", "dead"} /\ staging[s] # {} =>
        \/ pc[s] = "dead"
        \/ log[s].faults \cap {"cleanup", "status", "merge"} # {}

\* A scan that failed is settled: its row names the true cause and its staged
\* rows are gone, unless a write that settles it failed too (ScanRootCtx, service.go:315-371).
FailuresAreSettled == RowTellsWhy /\ StagingIsCleared

\* A started scan ends, whatever fails and whoever cancels it: the walk is never
\* left blocked on a channel nobody drains, and the consumer never waits for a
\* walk that stopped (the pipeline's contract, service.go:230-237).
ScanEnds == \A s \in Scans : pc[s] = "pipeline" ~> pc[s] \in {"returned", "dead"}
=============================================================================
