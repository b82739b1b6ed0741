--------------------------- MODULE LibraryRecords ---------------------------
(***************************************************************************)
(* Libraries and their current processing records: internal/library,       *)
(* workset/workset.go and the rows behind them (adapters/sqlite            *)
(* repo_library.go, repo_workset.go), with the scans that fill a library's *)
(* listing and the sessions that keep a record busy.                       *)
(*                                                                         *)
(* A transaction or a single statement is one action; a request is the     *)
(* sequence of those its handler makes, and requests interleave.  One task *)
(* kind is registered, so a record belongs to a library alone.  A root is  *)
(* its canonical key.  Names, titles, skipped folders and what a refusal   *)
(* says are left out; so are errors of the database itself, and the        *)
(* holders of the admission slot that touch neither a library nor a record *)
(* (AdmissionGate).                                                        *)
(***************************************************************************)
EXTENDS Naturals, FiniteSets

CONSTANTS Call,         \* requests in flight at a time
          Library,      \* the identifiers libraries get, never given twice
          Root, Folder,
          Key,          \* Idempotency-Key headers
          None,
          MaxRecords,   \* bound: records created
          MaxVersion    \* bound: the version of a record

ASSUME RecordsAssumption ==
    /\ None \notin Library \cup Root \cup Key
    /\ MaxRecords \in Nat
    /\ MaxVersion \in Nat \ {0}

VARIABLES
    \* libraries, entries
    library,    \* whether a library was created and is still there
    root,       \* its root
    scanned,    \* its last_scan_status
    walked,     \* the root the scan of that status walked
    entries,    \* the folders with audio the listing knows under a root
    \* worksets and what belongs to them
    made,       \* the records created so far, 1 .. made
    worksets,   \* those there are
    row,        \* how each one was created
    held,       \* creation_idem_key
    aged,       \* the records older than the replay window
    version,
    active,     \* a queued or running session of the record
    plans,      \* the records whose plan is stored
    \* requests
    at,         \* the next step of a request, or its answer
    req,        \* what it asks
    got         \* what it has read so far

libraries == <<library, root, scanned, walked, entries>>
records == <<made, worksets, row, held, aged, version>>
sessions == <<active, plans>>
db == <<libraries, records, sessions>>
requests == <<at, req, got>>
vars == <<db, requests>>

-----------------------------------------------------------------------------
Record == 1 .. MaxRecords

Request ==
    [library : Library \cup {None},
     sent : Root \cup {None},       \* the root a patch carries
     key : Key \cup {None},
     want : SUBSET Folder,          \* the folders selected
     expected : 0 .. MaxRecords,    \* the record the caller saw; 0: none
     version : 0 .. MaxVersion]     \* If-Match
Blank == [library |-> None, sent |-> None, key |-> None, want |-> {}, expected |-> 0,
          version |-> 0]

Reading ==
    [root : Root \cup {None}, members : SUBSET Folder, record : 0 .. MaxRecords,
     again : BOOLEAN]               \* the insert met the key: only a replay is left
Nothing == [root |-> None, members |-> {}, record |-> 0, again |-> FALSE]

\* createRequestHash: what makes two creation requests the same request.
\* Mutant: the record the caller saw is not part of the request.
HashWithoutExpected(q) == [library |-> q.library, want |-> q.want, expected |-> 0]
createRequestHash(q) == [library |-> q.library, want |-> q.want, expected |-> q.expected]

Row ==
    [library : Library \cup {None}, root : Root \cup {None}, members : SUBSET Folder,
     want : SUBSET Folder, expected : 0 .. MaxRecords, key : Key \cup {None},
     hash : [library : Library \cup {None}, want : SUBSET Folder, expected : 0 .. MaxRecords]]
NoRow == [library |-> None, root |-> None, members |-> {}, want |-> {}, expected |-> 0,
          key |-> None, hash |-> createRequestHash(Blank)]

Steps == {"idle", "load", "list", "key", "expire", "current", "replay", "persist", "view",
          "row", "slot", "save", "update", "closing", "drop", "release",
          "find", "check", "admit", "walk", "scanned", "failed", "leave",
          "title", "retitle"}
Answers == {"created", "replayed", "renamed", "done", "refused"}

\* The admission slot: who does direct file management, and who scans.
ManualHeld == \E c \in Call : at[c] \in {"update", "drop", "release"}
Scanning == \E c \in Call : at[c] \in {"walk", "scanned", "failed", "leave"}

\* The record of a library: GetCurrentWorkset.
Current(l) == {r \in worksets : row[r].library = l}
IsActive(r) == active[r] # "none"

Init ==
    /\ library = [l \in Library |-> "unused"]
    /\ root = [l \in Library |-> None]
    /\ scanned = [l \in Library |-> ""]
    /\ walked = [l \in Library |-> None]
    /\ entries = [p \in Root |-> {}]
    /\ made = 0
    /\ worksets = {}
    /\ row = [r \in Record |-> NoRow]
    /\ held = [r \in Record |-> None]
    /\ aged = {}
    /\ version = [r \in Record |-> 1]
    /\ active = [r \in Record |-> "none"]
    /\ plans = {}
    /\ at = [c \in Call |-> "idle"]
    /\ req = [c \in Call |-> Blank]
    /\ got = [c \in Call |-> Nothing]

-----------------------------------------------------------------------------
(* Requests come, make their steps and are answered.                       *)

Ask(c, step, q) ==
    /\ at[c] = "idle"
    /\ at' = [at EXCEPT ![c] = step]
    /\ req' = [req EXCEPT ![c] = q]
    /\ UNCHANGED <<got, db>>

Known(l) == library[l] # "unused"
Seen == 0 .. made

AskCreate(c) ==
    \E l \in Library, k \in Key \cup {None}, want \in SUBSET Folder, e \in Seen :
        /\ Known(l) /\ want # {}
        /\ Ask(c, "load", [Blank EXCEPT !.library = l, !.key = k, !.want = want, !.expected = e])
AskPatch(c) ==
    \E l \in Library, p \in Root \cup {None} :
        Known(l) /\ Ask(c, "row", [Blank EXCEPT !.library = l, !.sent = p])
AskDelete(c) ==
    \E l \in Library : Known(l) /\ Ask(c, "closing", [Blank EXCEPT !.library = l])
AskScan(c) ==
    \E l \in Library : Known(l) /\ Ask(c, "find", [Blank EXCEPT !.library = l])
AskRename(c) ==
    \E r \in Seen \ {0} : \E v \in 1 .. version[r] :
        Ask(c, "title", [Blank EXCEPT !.expected = r, !.version = v])

Return(c) ==
    /\ at[c] \in Answers
    /\ at' = [at EXCEPT ![c] = "idle"]
    /\ req' = [req EXCEPT ![c] = Blank]
    /\ got' = [got EXCEPT ![c] = Nothing]
    /\ UNCHANGED db

Advance(c, step) ==
    /\ at' = [at EXCEPT ![c] = step]
    /\ UNCHANGED <<req, got>>
Learn(c, step, g) ==
    /\ at' = [at EXCEPT ![c] = step]
    /\ got' = [got EXCEPT ![c] = g]
    /\ UNCHANGED req

\* GetLibrary answers a request that goes on at the given step with the row it read.
ReadLibrary(c, step) ==
    LET l == req[c].library IN
    /\ IF library[l] = "there"
       THEN Learn(c, step, [got[c] EXCEPT !.root = root[l]])
       ELSE Advance(c, "refused")
    /\ UNCHANGED db

-----------------------------------------------------------------------------
(* CreateCurrentWorkset.                                                   *)

Load(c) == at[c] = "load" /\ ReadLibrary(c, "list")

\* resolveSelectedMembers: the listing of the root that was read.
List(c) ==
    LET members == req[c].want \cap entries[got[c].root] IN
    /\ at[c] = "list"
    /\ IF members = {}
       THEN Advance(c, "refused")
       ELSE Learn(c, IF req[c].key = None THEN "persist" ELSE "key",
                  [got[c] EXCEPT !.members = members])
    /\ UNCHANGED db

\* What follows a key that answers nothing.
NotReplayed(c) == IF got[c].again THEN "refused" ELSE "persist"
Owners(k) == {r \in worksets : k # None /\ held[r] = k}

\* Mutant: any request with the key replays.
KeyDecides(r, q) == TRUE
SameRequest(r, q) == row[r].hash = createRequestHash(q)

\* replayCreate up to its check of the current record.
LookUpKey(c) ==
    /\ at[c] = "key"
    /\ \/ /\ Owners(req[c].key) = {}
          /\ Advance(c, NotReplayed(c))
       \/ \E r \in Owners(req[c].key) :
             IF r \notin aged /\ ~SameRequest(r, req[c])
             THEN Advance(c, "refused")
             ELSE Learn(c, IF r \in aged THEN "expire" ELSE "current",
                        [got[c] EXCEPT !.record = r])
    /\ UNCHANGED db

\* ClearExpiredWorksetIdemKey.
Expire(c) ==
    /\ at[c] = "expire"
    /\ held' = [held EXCEPT ![got[c].record] = None]
    /\ Learn(c, NotReplayed(c), [got[c] EXCEPT !.record = 0])
    /\ UNCHANGED <<libraries, made, worksets, row, aged, version, sessions>>

CheckCurrent(c) ==
    /\ at[c] = "current"
    /\ Advance(c, IF got[c].record \in Current(req[c].library) THEN "replay" ELSE "refused")
    /\ UNCHANGED db

Replay(c) ==
    /\ at[c] = "replay"
    /\ Advance(c, IF got[c].record \in worksets THEN "replayed" ELSE "refused")
    /\ UNCHANGED db

-----------------------------------------------------------------------------
(* ReplaceCurrentWorkset: one transaction.                                 *)

Expected(q) == IF q.expected = 0 THEN {} ELSE {q.expected}

\* Mutant: whatever is current is replaced.
AnyRecord(c) == TRUE
StillCurrent(c) == Current(req[c].library) = Expected(req[c])

\* recordHasActiveSessionTx.
\* Mutant: executions are not asked for.
PlanningOnly(S) == \E r \in S : active[r] = "planning"
Busy(S) == \E r \in S : IsActive(r)

\* The partial unique index on the key; the record being replaced is gone already.
KeyTaken(c) == Owners(req[c].key) \ Current(req[c].library) # {}

\* deleteWorksetDataTx: plans hang on a record by a column only.
\* Mutant: the plans are left to a cascade that does not reach them.
PlansLeft(S) == plans
PlansWithout(S) == plans \ S

NewRow(c) ==
    [library |-> req[c].library, root |-> got[c].root, members |-> got[c].members,
     want |-> req[c].want, expected |-> req[c].expected, key |-> req[c].key,
     hash |-> createRequestHash(req[c])]

Persist(c) ==
    LET q == req[c]
        old == Current(q.library)
    IN
    /\ at[c] = "persist"
    /\ \/ /\ ~StillCurrent(c) \/ Busy(old)
          /\ Advance(c, "refused")
          /\ UNCHANGED db
       \/ /\ StillCurrent(c) /\ ~Busy(old) /\ KeyTaken(c)
          /\ Learn(c, "key", [got[c] EXCEPT !.again = TRUE])
          /\ UNCHANGED db
       \/ \* the foreign key: the library went meanwhile
          /\ StillCurrent(c) /\ ~Busy(old) /\ ~KeyTaken(c)
          /\ library[q.library] # "there"
          /\ Advance(c, "refused")
          /\ UNCHANGED db
       \/ /\ StillCurrent(c) /\ ~Busy(old) /\ ~KeyTaken(c)
          /\ library[q.library] = "there"
          /\ made < MaxRecords
          /\ made' = made + 1
          /\ worksets' = (worksets \ old) \cup {made + 1}
          /\ row' = [row EXCEPT ![made + 1] = NewRow(c)]
          /\ held' = [held EXCEPT ![made + 1] = q.key]
          /\ plans' = PlansWithout(old)
          /\ Learn(c, "view", [got[c] EXCEPT !.record = made + 1])
          /\ UNCHANGED <<libraries, aged, version, active>>

\* The record just made is read again for the answer.
View(c) ==
    /\ at[c] = "view"
    /\ Advance(c, IF got[c].record \in worksets THEN "created" ELSE "refused")
    /\ UNCHANGED db

-----------------------------------------------------------------------------
(* RenameWorkset.                                                          *)

LoadWorkset(c) ==
    /\ at[c] = "title"
    /\ Advance(c, IF req[c].expected \in worksets THEN "retitle" ELSE "refused")
    /\ UNCHANGED db

\* Mutant: If-Match is not asked for.
AnyVersion(q) == TRUE
VersionMatches(q) == version[q.expected] = q.version

\* The answer reads the record once more; whatever that finds, the title is written.
Retitle(c) ==
    LET q == req[c] IN
    /\ at[c] = "retitle"
    /\ \/ /\ ~(q.expected \in worksets /\ VersionMatches(q))
          /\ Advance(c, "refused")
          /\ UNCHANGED db
       \/ /\ q.expected \in worksets /\ VersionMatches(q)
          /\ version[q.expected] < MaxVersion
          /\ version' = [version EXCEPT ![q.expected] = @ + 1]
          /\ Advance(c, "renamed")
          /\ UNCHANGED <<libraries, made, worksets, row, held, aged, sessions>>

-----------------------------------------------------------------------------
(* Libraries: Create, Patch and Delete.                                    *)

IsRoot(p, l) == library[l] = "there" /\ root[l] = p

CreateLibrary(l, p) ==
    /\ library[l] = "unused"
    /\ \A m \in Library : ~IsRoot(p, m)
    /\ library' = [library EXCEPT ![l] = "there"]
    /\ root' = [root EXCEPT ![l] = p]
    /\ UNCHANGED <<scanned, walked, entries, records, sessions, requests>>

\* Patch reads the row before it takes the slot, and takes it only if the root it is
\* going to write is not the root it read.
ReadRow(c) ==
    LET l == req[c].library
        new == IF req[c].sent = None THEN root[l] ELSE req[c].sent
    IN
    /\ at[c] = "row"
    /\ IF library[l] = "there"
       THEN Learn(c, IF new = root[l] THEN "save" ELSE "slot", [got[c] EXCEPT !.root = new])
       ELSE Advance(c, "refused")
    /\ UNCHANGED db

\* Gate.BeginManual, which asks HasActiveSession.
SlotFree == ~ManualHeld /\ ~Scanning /\ \A r \in worksets : ~IsActive(r)

TakeSlot(c, step) ==
    /\ Advance(c, IF SlotFree THEN step ELSE "refused")
    /\ UNCHANGED db
PatchSlot(c) == at[c] = "slot" /\ TakeSlot(c, "update")
DeleteSlot(c) == at[c] = "closing" /\ TakeSlot(c, "drop")

\* Mutant: a record does not hold its library's root.
NobodyBound(l) == TRUE
Unbound(l) == Current(l) = {}

\* The transaction of UpdateLibrary.
\* Mutant: it goes by the row that was read before.
OnceThere(l) == TRUE
StillThere(l) == library[l] = "there"
Updates(l, p) ==
    /\ StillThere(l)
    /\ p # root[l] => Unbound(l)
    /\ \A m \in Library \ {l} : ~IsRoot(p, m)
Update(l, p) ==
    /\ root' = [root EXCEPT ![l] = p]
    /\ scanned' = [scanned EXCEPT ![l] = IF p = root[l] THEN @ ELSE ""]
    /\ walked' = [walked EXCEPT ![l] = IF p = root[l] THEN @ ELSE None]
    /\ entries' = [entries EXCEPT ![root[l]] = IF p = root[l] THEN @ ELSE {}]
    /\ UNCHANGED <<library, records, sessions>>

\* The answer to a patch is given once its slot, if it took one, is free again.
UpdateLibrary(c) ==
    LET l == req[c].library
        p == got[c].root
    IN
    /\ at[c] \in {"save", "update"}
    /\ \/ /\ Updates(l, p)
          /\ Update(l, p)
          /\ Advance(c, IF at[c] = "update" THEN "release" ELSE "done")
       \/ /\ ~Updates(l, p)
          /\ Advance(c, IF at[c] = "update" THEN "release" ELSE "refused")
          /\ UNCHANGED db

\* Mutant: the records are left without a library.
NoneOf(l) == {}
RecordsOf(l) == {r \in worksets : row[r].library = l}

\* The transaction of DeleteLibrary; the listing of its root stays.
DeleteLibrary(c) ==
    LET l == req[c].library
        owned == RecordsOf(l)
    IN
    /\ at[c] = "drop"
    /\ Advance(c, "release")
    /\ \/ /\ library[l] # "there" \/ Busy(owned)
          /\ UNCHANGED db
       \/ /\ library[l] = "there" /\ ~Busy(owned)
          /\ library' = [library EXCEPT ![l] = "deleted"]
          /\ root' = [root EXCEPT ![l] = None]
          /\ scanned' = [scanned EXCEPT ![l] = ""]
          /\ walked' = [walked EXCEPT ![l] = None]
          /\ worksets' = worksets \ owned
          /\ plans' = PlansWithout(owned)
          /\ UNCHANGED <<entries, made, row, held, aged, version, active>>

\* Patch and Delete return, and their deferred release runs.
Release(c) == at[c] = "release" /\ Advance(c, "done") /\ UNCHANGED db

-----------------------------------------------------------------------------
(* Scans of a library (postLibraryScan, inventory/entry.go).               *)

Find(c) == at[c] = "find" /\ ReadLibrary(c, "check")

\* HasActiveExecutionForRoot.
Executing(p) == \E r \in worksets : row[r].root = p /\ active[r] = "execution"

CheckExecutions(c) ==
    /\ at[c] = "check"
    /\ Advance(c, IF Executing(got[c].root) THEN "refused" ELSE "admit")
    /\ UNCHANGED db

\* Gate.BeginScan.
Admit(c) ==
    /\ at[c] = "admit"
    /\ Advance(c, IF ManualHeld THEN "refused" ELSE "walk")
    /\ UNCHANGED db

\* The merge replaces the listing of the root that was walked; a scan that fails or is
\* canceled leaves it.
Walk(c) ==
    /\ at[c] = "walk"
    /\ \/ \E known \in SUBSET Folder :
             /\ entries' = [entries EXCEPT ![got[c].root] = known]
             /\ Advance(c, "scanned")
       \/ UNCHANGED entries /\ Advance(c, "failed")
    /\ UNCHANGED <<library, root, scanned, walked, records, sessions>>

\* UpdateLibraryScanState names the library only.
recordOutcome(c) ==
    LET l == req[c].library IN
    /\ at[c] \in {"scanned", "failed"}
    /\ IF library[l] = "there"
       THEN /\ scanned' = [scanned EXCEPT ![l] =
                              IF at[c] = "scanned" THEN "completed" ELSE "failed"]
            /\ walked' = [walked EXCEPT ![l] = got[c].root]
       ELSE UNCHANGED <<scanned, walked>>
    /\ Advance(c, "leave")
    /\ UNCHANGED <<library, root, entries, records, sessions>>

LeaveScan(c) == at[c] = "leave" /\ Advance(c, "done") /\ UNCHANGED db

-----------------------------------------------------------------------------
(* The sessions of a record, and time.                                     *)

\* Gate.Enqueue; an execution runs the stored plan.
StartSession(r, kind) ==
    /\ r \in worksets
    /\ ~IsActive(r)
    /\ kind = "execution" => r \in plans
    /\ ~ManualHeld
    /\ active' = [active EXCEPT ![r] = kind]
    /\ UNCHANGED <<libraries, records, plans, requests>>

\* A planning session that completes stores the plan.
EndSession(r) ==
    /\ IsActive(r)
    /\ active' = [active EXCEPT ![r] = "none"]
    /\ plans' \in {plans} \cup {plans \cup {q} : q \in {r} \cap {x \in Record : active[x] = "planning"}}
    /\ UNCHANGED <<libraries, records, requests>>

\* The replay window of a record ends.
Age(r) ==
    /\ r \in worksets \ aged
    /\ aged' = aged \cup {r}
    /\ UNCHANGED <<libraries, made, worksets, row, held, version, sessions, requests>>

\* The process dies; startup interrupts the sessions it finds.
Restart ==
    /\ active' = [r \in Record |-> "none"]
    /\ at' = [c \in Call |-> "idle"]
    /\ req' = [c \in Call |-> Blank]
    /\ got' = [c \in Call |-> Nothing]
    /\ UNCHANGED <<libraries, records, plans>>

Asks(c) == AskCreate(c) \/ AskPatch(c) \/ AskDelete(c) \/ AskScan(c) \/ AskRename(c)
Creates(c) ==
    Load(c) \/ List(c) \/ LookUpKey(c) \/ Expire(c) \/ CheckCurrent(c) \/ Replay(c)
    \/ Persist(c) \/ View(c)
Renames(c) == LoadWorkset(c) \/ Retitle(c)
Changes(c) ==
    ReadRow(c) \/ PatchSlot(c) \/ UpdateLibrary(c) \/ DeleteSlot(c) \/ DeleteLibrary(c)
    \/ Release(c)
Scans(c) ==
    Find(c) \/ CheckExecutions(c) \/ Admit(c) \/ Walk(c) \/ recordOutcome(c) \/ LeaveScan(c)

Next ==
    \/ \E c \in Call : Asks(c) \/ Creates(c) \/ Renames(c) \/ Changes(c) \/ Scans(c) \/ Return(c)
    \/ \E l \in Library, p \in Root : CreateLibrary(l, p)
    \/ \E r \in Record : EndSession(r) \/ Age(r)
    \/ \E r \in Record, kind \in {"planning", "execution"} : StartSession(r, kind)
    \/ Restart

Spec == Init /\ [][Next]_vars

-----------------------------------------------------------------------------
TypeOK ==
    /\ library \in [Library -> {"unused", "there", "deleted"}]
    /\ root \in [Library -> Root \cup {None}]
    /\ \A l \in Library : root[l] = None <=> library[l] # "there"
    /\ scanned \in [Library -> {"", "completed", "failed"}]
    /\ walked \in [Library -> Root \cup {None}]
    /\ entries \in [Root -> SUBSET Folder]
    /\ made \in 0 .. MaxRecords
    /\ worksets \subseteq 1 .. made
    /\ row \in [Record -> Row]
    /\ held \in [Record -> Key \cup {None}]
    /\ aged \subseteq 1 .. made
    /\ version \in [Record -> 1 .. MaxVersion]
    /\ active \in [Record -> {"none", "planning", "execution"}]
    /\ plans \subseteq 1 .. made
    /\ at \in [Call -> Steps \cup Answers]
    /\ req \in [Call -> Request]
    /\ got \in [Call -> Reading]

\* A record that is there is the only one of a library that is there, and plans and
\* sessions belong to records that are there: replacing a record and deleting a library
\* (repo_library.go:192, repo_workset.go:132) leave nothing behind, whoever else is at it.
RecordsAreWhole ==
    /\ \A r \in worksets :
          /\ library[row[r].library] = "there"
          /\ Current(row[r].library) = {r}
    /\ plans \subseteq worksets
    /\ \A r \in Record : IsActive(r) => r \in worksets

\* The records of a library form a chain: no two of them replaced the same one or were
\* both its first.  Whatever clients saw, retried or lost the answer of, one creation
\* request creates one record (workset.go:107, repo_workset.go:153).
RecordsFormAChain ==
    \A r, s \in 1 .. made :
        row[r].library = row[s].library /\ row[r].expected = row[s].expected => r = s

\* Both together: the rows of a library tell one record and how it came to be.
RecordsAgree == RecordsAreWhole /\ RecordsFormAChain

\* A creation is answered with the record that very request asked for: by its library, its
\* folders and the record it expected, and by its key where an older answer is repeated.
AnswersOwnRecord ==
    \A c \in Call : at[c] \in {"created", "replayed"} =>
        LET r == row[got[c].record] IN
        /\ r.library = req[c].library
        /\ r.want = req[c].want
        /\ r.expected = req[c].expected
        /\ at[c] = "replayed" => r.key = req[c].key

\* Of the renames that were based on one version of a record one is accepted
\* (repo_workset.go:370).
NoTitleLost ==
    \A c, d \in Call :
        /\ at[c] = "renamed" /\ at[d] = "renamed"
        /\ req[c].expected = req[d].expected
        /\ req[c].version = req[d].version
        => c = d

\* What clients were answered is true: of the record a creation names, and of the title a
\* rename set (replayCreate, RenameWorkset).
AnswersAreTrue == AnswersOwnRecord /\ NoTitleLost

\* A record goes only when no session of it is queued or running, and only because its
\* successor was made by a request that expected it, or together with its library
\* (repo_workset.go:206, repo_library.go:192).
GoneOnlyIdle ==
    [][\A r \in worksets \ worksets' :
          /\ ~IsActive(r)
          /\ \/ library'[row[r].library] = "deleted"
             \/ \E s \in worksets' \ worksets :
                   row'[s].expected = r /\ row'[s].library = row[r].library]_vars

\* A library's root does not change under a record (ADR 0001:46, repo_library.go:148).
RootIsHeld ==
    [][\A r \in worksets \cap worksets' :
          root'[row[r].library] = root[row[r].library]]_vars

\* No step takes a record from under its sessions, or its root from under it.
RecordsAreProtected == GoneOnlyIdle /\ RootIsHeld

-----------------------------------------------------------------------------
(* What the documentation says and the code does not do.                   *)

\* docs/api.md:99: PATCH applies only the fields present.
PatchAppliesFieldsPresent ==
    [][\A c \in Call :
          at[c] \in {"save", "update"} /\ at'[c] # at[c] /\ req[c].sent = None
              => root' = root]_vars

\* docs/api.md:100: a root change clears the prior scan state; the library must be scanned
\* again.
ScanStateIsOfThisRoot ==
    \A l \in Library : scanned[l] = "completed" => walked[l] = root[l]

\* repo_library.go:106: a record keeps its root, and a library with a record its own.
RecordIsAtItsLibrarysRoot ==
    \A r \in worksets : row[r].root = root[row[r].library]
=============================================================================
