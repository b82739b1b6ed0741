----------------------------- MODULE SessionPage -----------------------------
(***************************************************************************)
(* The pages that follow an execution session: the singleton store that    *)
(* follows one stream (stores/workset-execution.ts), the composable that   *)
(* synchronises the caches when a stream is over (use-workset-execution.ts) *)
(* and the queries a page reads (queries/worksets.ts, cache-sync.ts).      *)
(*                                                                         *)
(* Every operation here has one session, so a session names its operation  *)
(* too; a queued and a running session are both live.  A stream is         *)
(* abstracted to what ExecutionStream shows of it: it tells a snapshot,    *)
(* then that the session ended once it has, or it breaks.                  *)
(***************************************************************************)
EXTENDS Naturals, FiniteSets

CONSTANTS Session, None,
          MaxConnections, \* bound: connections the client makes
          MaxBreaks       \* bound: connections that break

ASSUME PageAssumption == None \notin Session /\ MaxConnections \in Nat /\ MaxBreaks \in Nat

VARIABLES
    sessions,   \* what the server has of each session; "asked" is live with the cancel flag
    streams,    \* the connections: their session, what they told, the loop over them
    store,      \* useWorksetExecutionStore
    showing,    \* the operation whose page is mounted
    ops,        \* the operation queries: what they say of the session
    details,    \* the execution queries
    stale,      \* mounted queries that were invalidated and are being fetched
    canceling,  \* cancel requests whose answer is on its way, and what it says
    breaks

caches == <<ops, details, stale>>
pageVars == <<sessions, streams, store, showing, caches, canceling, breaks>>

-----------------------------------------------------------------------------
Connection == 1 .. MaxConnections
Live(s) == sessions[s] \in {"live", "asked"}
ViewOf(s) == IF sessions[s] = "asked" THEN "live" ELSE sessions[s]

NoStream == [session |-> None, told |-> "nothing", loop |-> "none"]
Idle == [status |-> "idle", terminal |-> "none", exec |-> None, view |-> "none",
         cancelRequested |-> FALSE, receivedEvent |-> FALSE, controller |-> 0]

PageInit ==
    /\ sessions \in [Session -> {"absent", "live"}]
    /\ streams = [k \in Connection |-> NoStream]
    /\ store = Idle
    /\ showing = None
    /\ ops = [s \in Session |-> "none"]
    /\ details = [s \in Session |-> "none"]
    /\ stale = {}
    /\ canceling = [s \in Session |-> "none"]
    /\ breaks = 0

-----------------------------------------------------------------------------
(* The server.                                                             *)

SessionEnds(s) ==
    /\ Live(s)
    /\ sessions' = [sessions EXCEPT ![s] = "ended"]
    /\ UNCHANGED <<streams, store, showing, caches, canceling, breaks>>

-----------------------------------------------------------------------------
(* The store.                                                              *)

\* attach: refused while any stream is followed, of whatever session.
\* cancelRequested is the one field it keeps.
attach(s) ==
    IF store.status = "streaming" \/ s = None
    THEN UNCHANGED <<store, streams>>
    ELSE \E k \in Connection :
           /\ streams[k] = NoStream
           /\ \A j \in 1 .. k - 1 : streams[j] # NoStream
           /\ streams' = [streams EXCEPT ![k] = [NoStream EXCEPT !.session = s, !.loop = "open"]]
           /\ store' = [Idle EXCEPT !.status = "streaming", !.exec = s, !.controller = k,
                                    !.cancelRequested = store.cancelRequested]

Loop(k, label) == streams' = [streams EXCEPT ![k].loop = label]

\* Mutant: a stream does not ask whether it is still the store's.
AlwaysMine(k) == TRUE
Mine(k) == store.controller = k

\* applyEvent of the snapshot, or of one that brings the view up to date.
ReadView(k) ==
    /\ streams[k].loop = "open" /\ Mine(k)
    /\ streams' = [streams EXCEPT ![k].told = "view"]
    /\ store' = [store EXCEPT !.view = ViewOf(streams[k].session), !.receivedEvent = TRUE]
    /\ UNCHANGED <<sessions, showing, caches, canceling, breaks>>

\* applyEvent of the terminal event.  It ends the loop, and the connection is then
\* canceled, which takes a while (sse.ts).
ReadTerminal(k) ==
    /\ streams[k].loop = "open" /\ Mine(k)
    /\ streams[k].told = "view"
    /\ sessions[streams[k].session] = "ended"
    /\ Loop(k, "closing")
    /\ store' = [store EXCEPT !.status = "ended", !.terminal = "event", !.view = "ended",
                              !.cancelRequested = FALSE]
    /\ UNCHANGED <<sessions, showing, caches, canceling, breaks>>

\* An error event of a subscription that failed: a terminal one, too.
ReadError(k) ==
    /\ streams[k].loop = "open" /\ Mine(k)
    /\ breaks < MaxBreaks
    /\ breaks' = breaks + 1
    /\ Loop(k, "closing")
    /\ store' = [store EXCEPT !.status = "error", !.terminal = "event", !.receivedEvent = TRUE]
    /\ UNCHANGED <<sessions, showing, caches, canceling>>

StreamBreaks(k) ==
    /\ streams[k].loop = "open"
    /\ breaks < MaxBreaks
    /\ breaks' = breaks + 1
    /\ Loop(k, "broken")
    /\ UNCHANGED <<sessions, store, showing, caches, canceling>>

\* The end of the loop: a stream that ended without a terminal event leaves the
\* outcome unknown, unless the store follows another one by now.
LoopEnds(k) ==
    /\ streams[k].loop \in {"closing", "broken"}
    /\ Loop(k, "settled")
    /\ store' = IF ~Mine(k) THEN store
                ELSE IF store.status = "streaming"
                THEN [store EXCEPT !.status = "error", !.terminal = "transport", !.controller = 0]
                ELSE [store EXCEPT !.controller = 0]
    /\ UNCHANGED <<sessions, showing, caches, canceling, breaks>>

-----------------------------------------------------------------------------
(* The caches.                                                             *)

Keys(S) == {"operation", "execution"} \X S
Cached(key) == IF key[1] = "operation" THEN ops[key[2]] # "none" ELSE details[key[2]] # "none"
Mounted(S) == {key \in Keys(S \cap {showing}) : Cached(key)}

\* Mutant: only mounted queries are invalidated.
RefreshMounted(S) ==
    /\ stale' = stale \cup Mounted(S)
    /\ UNCHANGED <<ops, details>>

\* refreshOrRemoveQueries: mounted queries are fetched again, the others dropped.
Refresh(S) ==
    /\ stale' = (stale \ Keys(S \ {showing})) \cup Mounted(S)
    /\ ops' = [s \in Session |-> IF s \in S \ {showing} THEN "none" ELSE ops[s]]
    /\ details' = [s \in Session |-> IF s \in S \ {showing} THEN "none" ELSE details[s]]

\* The promise of attach: the outcome is synchronised if the store is still on
\* this session, by how its stream ended.
Synchronise(k) ==
    LET s == streams[k].session
    IN  /\ streams[k].loop = "settled"
        /\ Loop(k, "done")
        /\ IF store.exec = s /\ store.terminal = "event" THEN Refresh({s})
           ELSE IF store.exec = s /\ store.receivedEvent THEN Refresh(Session)
           ELSE UNCHANGED caches
        /\ UNCHANGED <<sessions, store, showing, canceling, breaks>>

\* The page attaches whenever the active session it watches changes, unless that
\* very session is streaming.
Watched(operations, page) ==
    IF page # None /\ operations[page] = "active" THEN page ELSE None
Rewatch ==
    LET now == Watched(ops', showing')
    IN  attach(IF now # Watched(ops, showing) THEN now ELSE None)

\* Mutant: the session's own status is answered.
RawView(s) == sessions[s]
OperationView(s) ==
    IF sessions[s] = "absent" THEN "idle" ELSE IF Live(s) THEN "active" ELSE "ended"

FetchOperation(s) ==
    /\ \/ showing = s /\ ops[s] = "none"
       \/ <<"operation", s>> \in stale
    /\ ops' = [ops EXCEPT ![s] = OperationView(s)]
    /\ stale' = stale \ {<<"operation", s>>}
    /\ UNCHANGED showing
    /\ Rewatch
    /\ UNCHANGED <<sessions, details, canceling, breaks>>

FetchExecution(s) ==
    /\ \/ showing = s /\ ops[s] \in {"active", "ended"} /\ details[s] = "none"
       \/ <<"execution", s>> \in stale
    /\ details' = [details EXCEPT ![s] = ViewOf(s)]
    /\ stale' = stale \ {<<"execution", s>>}
    /\ UNCHANGED <<sessions, streams, store, showing, ops, canceling, breaks>>

-----------------------------------------------------------------------------
(* The user.                                                               *)

\* A query that is cached is not fetched again on mount.
Open(s) ==
    /\ showing # s
    /\ showing' = s
    /\ UNCHANGED ops
    /\ Rewatch
    /\ UNCHANGED <<sessions, details, stale, canceling, breaks>>

\* start: the session is created, its first view seeds the cache, the operation is
\* read again and the stream attached.
Start(s) ==
    /\ showing = s
    /\ ops[s] = "idle"
    /\ sessions[s] = "absent"
    /\ sessions' = [sessions EXCEPT ![s] = "live"]
    /\ details' = [details EXCEPT ![s] = "live"]
    /\ stale' = stale \cup {<<"operation", s>>}
    /\ attach(s)
    /\ UNCHANGED <<showing, ops, canceling, breaks>>

\* The getter canceling: the buttons say so and are disabled.
SaysCanceling == store.cancelRequested /\ store.status = "streaming"

\* cancel: a queued session ends at once, a running one at its next boundary.
Cancel(s) ==
    /\ showing = s
    /\ ops[s] = "active"
    /\ ~SaysCanceling
    /\ canceling[s] = "none"
    /\ store' = [store EXCEPT !.cancelRequested = @ \/ store.exec = s]
    /\ \E now \in IF Live(s) THEN {"asked", "ended"} ELSE {sessions[s]} :
         /\ sessions' = [sessions EXCEPT ![s] = now]
         /\ canceling' = [canceling EXCEPT ![s] = IF now = "asked" THEN "live" ELSE now]
    /\ UNCHANGED <<streams, showing, caches, breaks>>

\* The answer seeds the cache unless the request failed; either way the outcome is
\* synchronised.
CancelAnswers(s) ==
    /\ canceling[s] # "none"
    /\ canceling' = [canceling EXCEPT ![s] = "none"]
    /\ IF showing = s
       THEN /\ details' \in {details, [details EXCEPT ![s] = canceling[s]]}
            /\ stale' = stale \cup Keys({s})
            /\ UNCHANGED ops
       ELSE Refresh({s})
    /\ UNCHANGED <<sessions, streams, store, showing, breaks>>

-----------------------------------------------------------------------------
Reading(k) == ReadTerminal(k) \/ LoopEnds(k) \/ Synchronise(k)
Fetch(s) == FetchOperation(s) \/ FetchExecution(s)

PageNext ==
    \/ \E s \in Session : SessionEnds(s) \/ Fetch(s) \/ Open(s) \/ Start(s) \/ Cancel(s) \/ CancelAnswers(s)
    \/ \E k \in Connection : ReadView(k) \/ ReadError(k) \/ StreamBreaks(k) \/ Reading(k)

PageSpec == PageInit /\ [][PageNext]_pageVars

-----------------------------------------------------------------------------
Views == {"none", "absent", "live", "ended"}

\* The values every variable keeps to.
PageTypeOK ==
    /\ sessions \in [Session -> {"absent", "live", "asked", "ended"}]
    /\ streams \in [Connection -> [session : Session \cup {None}, told : {"nothing", "view"},
                               loop : {"none", "open", "broken", "closing", "settled", "done"}]]
    /\ store \in [status : {"idle", "streaming", "ended", "error"},
                  terminal : {"none", "event", "transport"}, exec : Session \cup {None},
                  view : Views, cancelRequested : BOOLEAN, receivedEvent : BOOLEAN,
                  controller : {0} \cup Connection]
    /\ showing \in Session \cup {None}
    /\ ops \in [Session -> {"none", "idle", "active", "ended"}]
    /\ details \in [Session -> Views]
    /\ stale \subseteq Keys(Session)
    /\ canceling \in [Session -> Views]
    /\ breaks \in 0 .. MaxBreaks

\* One stream at a time is followed, the store's: while the loop over it runs the
\* store says it is streaming that session, and no stream that ended before can tell
\* otherwise.  workset-execution.ts: the controller guards of attach.
LiveStreamIsFollowed ==
    \A k \in Connection : streams[k].loop = "open" =>
        /\ store.controller = k
        /\ store.status = "streaming"
        /\ store.exec = streams[k].session

\* Once the end of a session was synchronised, whatever its page reads from the
\* caches is that end, also when the user was elsewhere when it came.
\* cache-sync.ts: "inactive members are removed, so the next mount cold-fetches".
CachesAreCalibrated ==
    LET s == store.exec
    IN  (/\ store.status = "ended"
         /\ \A k \in Connection : streams[k].session = s => streams[k].loop = "done"
         /\ showing = s
         /\ Keys({s}) \cap stale = {}
         /\ canceling[s] = "none")
        => ops[s] \in {"none", "ended"} /\ details[s] \in {"none", "ended"}

-----------------------------------------------------------------------------
(* What the comments promise and the code does not do.                     *)

\* use-operation-context.ts:78-80: the page shows "the one currently running for this
\* operation, or the one that ran the revision in view".
PanelShowsItsOwn ==
    (showing # None /\ store.status = "streaming" /\ store.view # "none") => store.exec = showing

\* workset-execution.ts:70-73: cancelRequested is "a cancel request in flight or
\* waiting for the cooperative stop" of the session that is followed.
CancelingWasAsked ==
    SaysCanceling => sessions[store.exec] # "live"
=============================================================================
