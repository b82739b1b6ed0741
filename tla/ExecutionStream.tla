--------------------------- MODULE ExecutionStream ---------------------------
(***************************************************************************)
(* The event stream of one execution session: the subscription that polls  *)
(* the database (execution_subscribe.go), the connection, and the view the *)
(* store builds from the events (stores/workset-execution.ts).  The client *)
(* may lose its connection and attach again.                               *)
(*                                                                         *)
(* A result is the index of its component in the frozen worklist; what it  *)
(* says, the counters and the position are left out.  SessionPage has the  *)
(* page around the store: several sessions, cancel requests and caches.    *)
(***************************************************************************)
EXTENDS Naturals, Sequences, FiniteSetsExt

CONSTANTS NumComponents,
          MaxStreams,   \* bound: connections the client makes
          MaxFaults     \* bound: connections and reads that fail, deaths of the server

ASSUME StreamAssumption == NumComponents \in Nat /\ MaxStreams \in Nat /\ MaxFaults \in Nat

VARIABLES
    db,       \* what the worker wrote: status, result rows, cancel flag, teardown begun
    sub,      \* SubscribeExecution of each stream: step, status read and sent, cursor
    wire,     \* events emitted and not yet read
    reader,   \* the client's for-await loop over each stream
    client,    \* useWorksetExecutionStore: status, terminal, view
    faults,
    unseen    \* history: recorded before the cursor was taken, after the snapshot was

vars == <<db, sub, wire, reader, client, faults, unseen>>

-----------------------------------------------------------------------------
Component == 0 .. NumComponents - 1
Stream == 1 .. MaxStreams
Active == {"queued", "running"}
Terminal == {"succeeded", "failed", "canceled", "interrupted"}

View(status, known) == [status |-> status, known |-> known]
NoView == View("none", {})
Event(kind, data) == [kind |-> kind, data |-> data]

\* Mutant: an interrupted session is not over.
ForgetsInterrupted(status) == status \in Terminal \ {"interrupted"}
executionTerminal(status) == status \in Terminal

\* The cursor is one past the highest index of a listing.  Mutant: one too far.
TwoPastLast(cursor, rows) == Max({cursor} \cup {i + 2 : i \in rows})
PastLast(cursor, rows) == Max({cursor} \cup {i + 1 : i \in rows})

\* ListExecutionComponentResults from an index on, in ascending order.
Results(from) ==
    LET past == {i \in db.rows : i >= from}
    IN  {results \in [1 .. Cardinality(past) -> past] :
            /\ \A m, n \in DOMAIN results : m < n => results[m] < results[n]
            /\ \A i \in past : \E n \in DOMAIN results : results[n] = i}

Store(status, terminal, view) == [status |-> status, terminal |-> terminal, view |-> view]

Init ==
    /\ db = [status |-> "queued", rows |-> {}, cancel |-> FALSE, stopping |-> FALSE]
    /\ sub = [k \in Stream |-> [at |-> "none", seen |-> "none", last |-> "none", cursor |-> 0]]
    /\ wire = [k \in Stream |-> <<>>]
    /\ unseen = [k \in Stream |-> {}]
    /\ reader = [k \in Stream |-> "none"]
    /\ client = Store("idle", "none", NoView)
    /\ faults = 0

-----------------------------------------------------------------------------
(* The worker, as far as the stream sees it.                               *)

Write(row) == db' = row /\ UNCHANGED <<sub, wire, reader, client, faults, unseen>>

Claim == db.status = "queued" /\ Write([db EXCEPT !.status = "running"])

\* A commit records the next component; commits are strictly ascending.
Commit ==
    /\ db.status = "running" /\ ~db.stopping
    /\ db.rows # Component
    /\ Write([db EXCEPT !.rows = @ \cup {Cardinality(@)}])

\* A queued session is canceled at once, a running one at its next boundary.
CancelExecution ==
    /\ db.status \in Active /\ ~db.cancel
    /\ Write([db EXCEPT !.status = IF @ = "queued" THEN "canceled" ELSE @, !.cancel = TRUE])

\* The teardown of a stop reports the failing component, wherever it is.
ReportStop ==
    /\ db.status = "running" /\ ~db.stopping
    /\ \/ db.cancel /\ Write([db EXCEPT !.stopping = TRUE])
       \/ \E failing \in Component \ db.rows :
            Write([db EXCEPT !.rows = @ \cup {failing}, !.stopping = TRUE])

FinishExecution ==
    /\ db.status = "running"
    /\ \/ ~db.stopping /\ db.rows = Component /\ Write([db EXCEPT !.status = "succeeded"])
       \/ db.stopping /\ Write([db EXCEPT !.status = "failed"])
       \/ db.stopping /\ db.cancel /\ Write([db EXCEPT !.status = "canceled"])

Fault == faults < MaxFaults /\ faults' = faults + 1

\* The server dies and restarts: its connections break and the startup sweep
\* interrupts what it left active.
Crash ==
    /\ Fault
    /\ db' = IF db.status \in Active THEN [db EXCEPT !.status = "interrupted"] ELSE db
    /\ sub' = [k \in Stream |-> IF sub[k].at = "none" THEN sub[k] ELSE [sub[k] EXCEPT !.at = "closed"]]
    /\ UNCHANGED <<wire, unseen, reader, client>>

-----------------------------------------------------------------------------
(* The subscription.                                                       *)

Emit(k, events) == wire' = [wire EXCEPT ![k] = @ \o events]
Reach(k, at) == sub' = [sub EXCEPT ![k].at = at]
OnlyStream == UNCHANGED <<db, reader, client>>
emitExecutionTerminal(status) == <<Event(status, status)>>

LoadExecution(k) ==
    /\ sub[k].at = "load"
    /\ sub' = [sub EXCEPT ![k].at = "view", ![k].seen = db.status]
    /\ UNCHANGED <<wire, unseen, faults>>
    /\ OnlyStream

\* The snapshot lists the results after the row was read (executionViewOf); a
\* session that had ended then is told to have ended, and the stream is over.
EmitSnapshot(k) ==
    LET snapshot == <<Event("execution_snapshot", View(sub[k].seen, db.rows))>>
    IN  /\ sub[k].at = "view"
        /\ IF executionTerminal(sub[k].seen)
           THEN Emit(k, snapshot \o emitExecutionTerminal(sub[k].seen)) /\ Reach(k, "closed")
           ELSE Emit(k, snapshot) /\ Reach(k, "list")
        /\ unseen' = [unseen EXCEPT ![k] = db.rows]
        /\ UNCHANGED faults
        /\ OnlyStream

\* A second listing sets the cursor past the highest index recorded by now.
TakeCursor(k) ==
    /\ sub[k].at = "list"
    /\ sub' = [sub EXCEPT ![k].at = "tick", ![k].cursor = PastLast(@, db.rows), ![k].last = sub[k].seen]
    /\ unseen' = [unseen EXCEPT ![k] = db.rows \ @]
    /\ UNCHANGED <<wire, faults>>
    /\ OnlyStream

\* One tick: the progress row first, the results after it.
GetExecutionProgress(k) ==
    /\ sub[k].at = "tick"
    /\ sub' = [sub EXCEPT ![k].at = "results", ![k].seen = db.status]
    /\ UNCHANGED <<wire, unseen, faults>>
    /\ OnlyStream

\* What it sends: the results past the cursor, then the terminal event or the
\* progress that moved.
ComponentEvents(results) == [n \in DOMAIN results |-> Event("component", results[n])]

LastEvents(k) ==
    IF executionTerminal(sub[k].seen) THEN emitExecutionTerminal(sub[k].seen)
    ELSE IF sub[k].seen # sub[k].last THEN <<Event("progress", sub[k].seen)>>
    ELSE <<>>

\* Mutant: the terminal event goes out at once.
TerminalFirst(k, results) ==
    IF executionTerminal(sub[k].seen) THEN LastEvents(k) ELSE ComponentEvents(results) \o LastEvents(k)
TickEvents(k, results) == ComponentEvents(results) \o LastEvents(k)

EmitResults(k) ==
    /\ sub[k].at = "results"
    /\ \E results \in Results(sub[k].cursor) : Emit(k, TickEvents(k, results))
    /\ sub' = [sub EXCEPT ![k].at = IF executionTerminal(sub[k].seen) THEN "closed" ELSE "tick",
                          ![k].cursor = PastLast(@, db.rows),
                          ![k].last = sub[k].seen]
    /\ UNCHANGED <<unseen, faults>>
    /\ OnlyStream

\* A read that fails once the ticks began ends the stream without a word, and so
\* does a broken connection, which loses what was on its way ...
Disconnect(k) ==
    /\ Fault
    /\ \/ sub[k].at \in {"tick", "results"} /\ UNCHANGED wire
       \/ reader[k] = "open" /\ wire' = [wire EXCEPT ![k] = <<>>]
    /\ Reach(k, "closed")
    /\ UNCHANGED unseen
    /\ OnlyStream

\* ... while an earlier failure is told in an error event.
SubscribeFails(k) ==
    /\ sub[k].at \in {"load", "view", "list"}
    /\ Fault
    /\ Emit(k, <<Event("error", "error")>>)
    /\ Reach(k, "closed")
    /\ UNCHANGED unseen
    /\ OnlyStream

-----------------------------------------------------------------------------
(* The client's store.                                                     *)

\* attach: refused while a stream is followed.
Attach(k) ==
    /\ client.status # "streaming"
    /\ reader[k] = "none"
    /\ \A j \in 1 .. k - 1 : reader[j] = "done"
    /\ reader' = [reader EXCEPT ![k] = "open"]
    /\ Reach(k, "load")
    /\ client' = Store("streaming", "none", NoView)
    /\ UNCHANGED <<db, wire, unseen, faults>>

\* applyEvent.  Without a snapshot there is no view to merge into.
Merged(view, e) ==
    IF e.kind = "execution_snapshot" THEN e.data
    ELSE IF view = NoView \/ e.kind = "error" THEN view
    ELSE IF e.kind = "component" THEN [view EXCEPT !.known = @ \cup {e.data}]
    ELSE [view EXCEPT !.status = e.data]

applyEvent(e) ==
    IF e.kind \in Terminal \cup {"error"}
    THEN Store(e.kind, "event", Merged(client.view, e))
    ELSE [client EXCEPT !.view = Merged(client.view, e)]

\* The loop reads one event; a terminal one ends it.
ReadEvent(k) ==
    /\ reader[k] = "open"
    /\ wire[k] # <<>>
    /\ wire' = [wire EXCEPT ![k] = Tail(@)]
    /\ client' = applyEvent(Head(wire[k]))
    /\ reader' = [reader EXCEPT ![k] = IF client'.status = "streaming" THEN "open" ELSE "done"]
    /\ UNCHANGED <<db, sub, unseen, faults>>

\* A stream that ended without a terminal event leaves the outcome unknown.
StreamEnds(k) ==
    /\ reader[k] = "open"
    /\ wire[k] = <<>>
    /\ sub[k].at = "closed"
    /\ reader' = [reader EXCEPT ![k] = "done"]
    /\ client' = Store("error", "transport", client.view)
    /\ UNCHANGED <<db, sub, wire, unseen, faults>>

-----------------------------------------------------------------------------
Worker == Claim \/ Commit \/ ReportStop \/ FinishExecution
Subscription(k) ==
    \/ LoadExecution(k) \/ EmitSnapshot(k) \/ TakeCursor(k)
    \/ GetExecutionProgress(k) \/ EmitResults(k)
Reader(k) == ReadEvent(k) \/ StreamEnds(k)

Next ==
    \/ Worker \/ CancelExecution \/ Crash
    \/ \E k \in Stream :
         Subscription(k) \/ Disconnect(k) \/ SubscribeFails(k) \/ Attach(k) \/ Reader(k)

\* The worker goes on while the session runs, the ticker of a subscription keeps
\* ticking and the browser keeps reading.
Fairness ==
    /\ WF_vars(Worker)
    /\ \A k \in Stream : WF_vars(Subscription(k)) /\ WF_vars(Reader(k))

Spec == Init /\ [][Next]_vars
FairSpec == Spec /\ Fairness

-----------------------------------------------------------------------------
EventType ==
    [kind : {"execution_snapshot"}, data : [status : Active \cup Terminal, known : SUBSET Component]]
    \cup [kind : {"component"}, data : Component]
    \cup [kind : {"progress"} \cup Terminal, data : Active \cup Terminal]
    \cup [kind : {"error"}, data : {"error"}]

\* The values every variable keeps to.
TypeOK ==
    /\ db \in [status : Active \cup Terminal, rows : SUBSET Component,
               cancel : BOOLEAN, stopping : BOOLEAN]
    /\ sub \in [Stream -> [at : {"none", "load", "view", "list", "tick", "results", "closed"},
                           cursor : 0 .. NumComponents,
                           seen : {"none"} \cup Active \cup Terminal,
                           last : {"none"} \cup Active \cup Terminal]]
    /\ wire \in [Stream -> Seq(EventType)]
    /\ unseen \in [Stream -> SUBSET Component]
    /\ reader \in [Stream -> {"none", "open", "done"}]
    /\ client \in [status : {"idle", "streaming", "error"} \cup Terminal,
                  terminal : {"none", "event", "transport"},
                  view : [status : {"none"} \cup Active \cup Terminal, known : SUBSET Component]]
    /\ faults \in 0 .. MaxFaults

\* A store that was told how the session ended says what the database says, and its
\* view has every result but those recorded between the snapshot and the listing
\* that set the cursor.  execution_subscribe.go: the results go out before the
\* terminal event even when the run ended between two ticks.
TerminalTellsAll ==
    \A k \in Stream :
        (client.status \in Terminal /\ reader[k] = "done" /\ \A j \in k + 1 .. MaxStreams : reader[j] = "none")
        => /\ client.status = db.status
           /\ client.view.status = db.status
           /\ db.rows \subseteq client.view.known \cup unseen[k]

\* Where the results are on the wire.
Listed(k) == {n \in DOMAIN wire[k] : wire[k][n].kind = "component"}

\* At every moment the client is shown a state the session was in: results it has,
\* a status it reached, and no result twice or out of order on the wire.
\* execution_subscribe.go: cursor and progress comparison.
NothingSentTwice ==
    \A k \in Stream : \A n \in Listed(k) :
        /\ \A m \in Listed(k) : m < n => wire[k][m].data < wire[k][n].data
        /\ reader[k] = "open" => wire[k][n].data \notin client.view.known

\* What a client is told of a session is what happened to it, each thing once and
\* the end last (SubscribeExecution, applyEvent).
StreamTellsSession == TerminalTellsAll /\ NothingSentTwice

\* A stream that is followed ends: the session ends and its terminal event arrives,
\* or the connection breaks.
StreamIsOver == client.status = "streaming" ~> client.status # "streaming"

-----------------------------------------------------------------------------
(* What a comment promises and the code does not do: no run checks it.     *)

\* execution_subscribe.go:52-55, of the snapshot and the cursor: "resuming after the
\* last recorded one cannot skip a result".
CursorSkipsNothing ==
    \A k \in Stream : sub[k].at = "tick" => unseen[k] = {}
=============================================================================
