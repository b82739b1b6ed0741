----------------------------- MODULE DraftEditor -----------------------------
(***************************************************************************)
(* The draft of a conversion operation and its editors: the document under *)
(* the operation version (draft.go, repo_operation.go), and in each        *)
(* browser the cached draft, the single edit session                       *)
(* (stores/workset-editor.ts), the pages that open it and the saves.       *)
(*                                                                         *)
(* A document gives the common settings a value and every member a value   *)
(* or none of its own, Inherit; a value stands for the four units, the     *)
(* delete mode and participation together.  Documents are compared by      *)
(* content: canonical order and pruned records are left out.  So are what  *)
(* a refused save says and a read that fails: a read may take forever.     *)
(***************************************************************************)
EXTENDS Naturals, FiniteSets

CONSTANTS Client, Member, Value,
          Common,             \* the slot of the common settings
          Inherit,            \* a member without a setting of its own
          Keep,               \* an intent that leaves the setting alone
          None,
          MaxSaves,           \* bound: saves the clients send
          MaxPublications,    \* bound: generations that publish
          MaxFaults,          \* bound: saves that are refused or lose their answer
          Visits(_)           \* bound: the edit pages a client opens

ASSUME MarkersAreNoValues == Inherit \notin Value /\ Keep \notin Value \cup {Inherit}
ASSUME CommonIsNoMember == Common \notin Member
ASSUME BoundsAreNumbers == MaxSaves \in Nat /\ MaxPublications \in Nat /\ MaxFaults \in Nat

VARIABLES
    server,     \* the operation: its version and its document
    drafts,     \* the draft query of each client
    reads,      \* a GET of the draft on its way
    sessions,   \* useWorksetEditorStore
    pages,      \* the edit page a client is on
    saves,      \* the saves sent, in order
    published, faults

vars == <<server, drafts, reads, sessions, pages, saves, published, faults>>

-----------------------------------------------------------------------------
(* Documents and targets.                                                  *)

Slot == {Common} \cup Member
Document == {d \in [Slot -> Value \cup {Inherit}] : d[Common] # Inherit}
Target ==
    [kind : {"common"}, slots : {{Common}}]
    \cup [kind : {"member"}, slots : {{m} : m \in Member}]
    \cup [kind : {"batch"}, slots : (SUBSET Member) \ {{}}]

\* Mutant: the settings page offers inheritance, too.
AnySetting(target) == Value \cup {Inherit}
Settings(target) == IF target.kind = "common" THEN Value ELSE Value \cup {Inherit}
Save == 1 .. MaxSaves

ASSUME VisitsTargets == \A c \in Client : Visits(c) \subseteq Target

applyIntent(base, target, intent) ==
    IF intent = Keep THEN base ELSE [s \in Slot |-> IF s \in target.slots THEN intent ELSE base[s]]

\* ResolveEffective: the setting a member is converted with.
Effective(document, m) == IF document[m] = Inherit THEN document[Common] ELSE document[m]

\* The edit session.  borrowed is history: the version came with the answer to a save
\* although a later save or publication had set it.
Session(target, draft) ==
    [target |-> target, version |-> draft.version, document |-> draft.document,
     intent |-> Keep, applying |-> FALSE, borrowed |-> FALSE]
Pending(session) == applyIntent(session.document, session.target, session.intent)
sessionHasChanges(session) == Pending(session) # session.document

NoSave == [client |-> None, stage |-> "none"]
Idle == [at |-> "idle"]

\* The browsers load a page each; the draft is being read.
Init ==
    /\ \E v \in Value : server = [version |-> 0, document |-> [s \in Slot |-> IF s = Common THEN v ELSE Inherit]]
    /\ drafts = [c \in Client |-> None]
    /\ reads = [c \in Client |-> [at |-> "asked"]]
    /\ pages \in [Client -> Target \cup {None}]
    /\ sessions = [c \in Client |-> None]
    /\ saves = [k \in Save |-> NoSave]
    /\ published = 0
    /\ faults = 0

-----------------------------------------------------------------------------
(* Opening pages.                                                          *)

\* The session a page goes on with: its own, and any batch on the batch page.
Kept(session, page) ==
    /\ session # None
    /\ session.target.kind = page.kind
    /\ page.kind = "member" => session.target = page

Outcome(session, page) == [session |-> session, page |-> page]

\* Mutant: no page minds a refusal.
OpenedSilently(session, page, draft) ==
    IF page = None \/ draft = None \/ Kept(session, page) THEN {Outcome(session, page)}
    ELSE IF session # None /\ sessionHasChanges(session) THEN {Outcome(session, page)}
    ELSE {Outcome(Session(page, draft), page)}

\* The watch of an edit page, and open: a session without changes is replaced.  One
\* with changes is a decision on the member and batch pages, discard it or go back
\* to the list; the settings page does not ask and stays with it.
Opened(session, page, draft) ==
    IF page = None \/ draft = None \/ Kept(session, page) THEN {Outcome(session, page)}
    ELSE IF session = None \/ ~sessionHasChanges(session) THEN {Outcome(Session(page, draft), page)}
    ELSE IF page.kind = "common" THEN {Outcome(session, page)}
    ELSE {Outcome(Session(page, draft), page), Outcome(session, None)}

Follow(c, session, page, draft) ==
    \E outcome \in Opened(session, page, draft) :
        /\ sessions' = [sessions EXCEPT ![c] = outcome.session]
        /\ pages' = [pages EXCEPT ![c] = outcome.page]

Open(c, page) ==
    /\ pages[c] # page
    /\ Follow(c, sessions[c], page, drafts[c])
    /\ UNCHANGED <<server, drafts, reads, saves, published, faults>>

\* Leaving keeps the session, whatever was confirmed.
Leave(c) ==
    /\ pages[c] # None
    /\ pages' = [pages EXCEPT ![c] = None]
    /\ UNCHANGED <<server, drafts, reads, sessions, saves, published, faults>>

\* Cancel on an edit page or discard on the list, which shows no common session.
\* Only the member page refuses while a save is on its way.
Discard(c) ==
    /\ sessions[c] # None
    /\ IF pages[c] = None THEN sessions[c].target.kind # "common"
       ELSE pages[c].kind = "member" => ~sessions[c].applying
    /\ sessions' = [sessions EXCEPT ![c] = None]
    /\ pages' = [pages EXCEPT ![c] = None]
    /\ UNCHANGED <<server, drafts, reads, saves, published, faults>>

\* Edits go to the session, whatever the page shows.  The forms are read-only while a
\* save is on its way, but for the restore buttons of the settings page.
Edit(c, setting) ==
    /\ pages[c] # None
    /\ sessions[c] # None
    /\ setting \in Settings(pages[c])
    /\ sessions[c].applying => pages[c].kind = "common"
    /\ sessions' = [sessions EXCEPT ![c].intent = setting]
    /\ UNCHANGED <<server, drafts, reads, pages, saves, published, faults>>

-----------------------------------------------------------------------------
(* Reading the draft.                                                      *)

\* A read that is on its way is canceled and started again.
Ask(c) == reads' = [reads EXCEPT ![c] = [at |-> "asked"]]

\* GetDraft reads the operation first, the document after it.
ReadVersion(c) ==
    /\ reads[c].at = "asked"
    /\ reads' = [reads EXCEPT ![c] = [at |-> "version", version |-> server.version]]
    /\ UNCHANGED <<server, drafts, sessions, pages, saves, published, faults>>

\* Mutant: the version is taken over under unapplied edits.
RebaseDirty(session, draft) ==
    [session EXCEPT !.version = draft.version, !.borrowed = FALSE,
                    !.document = IF session.intent = Keep THEN draft.document ELSE @]

\* syncWithServer: a draft whose document moved is not adopted over an intent.
syncWithServer(session, draft) ==
    IF draft.document # session.document /\ session.intent # Keep
    THEN session
    ELSE [session EXCEPT !.version = draft.version, !.document = draft.document, !.borrowed = FALSE]

\* The answer arrives as the document is read; one that is the cached draft wakes no
\* watch.
ReadDocument(c) ==
    LET draft == [version |-> reads[c].version, document |-> server.document]
    IN  /\ reads[c].at = "version"
        /\ drafts' = [drafts EXCEPT ![c] = draft]
        /\ reads' = [reads EXCEPT ![c] = Idle]
        /\ IF draft = drafts[c] THEN UNCHANGED <<sessions, pages>>
           ELSE Follow(c, IF sessions[c] = None THEN None ELSE syncWithServer(sessions[c], draft), pages[c], draft)
        /\ UNCHANGED <<server, saves, published, faults>>

-----------------------------------------------------------------------------
(* Saving it.                                                              *)

\* Apply: the settings page, the others' pages and the bar of the list offer it.
Apply(c) ==
    /\ sessions[c] # None
    /\ sessionHasChanges(sessions[c])
    /\ ~sessions[c].applying
    /\ pages[c] = None => sessions[c].target.kind # "common"
    /\ \E k \in Save :
         /\ saves[k] = NoSave
         /\ \A j \in 1 .. k - 1 : saves[j] # NoSave
         /\ saves' = [saves EXCEPT ![k] =
              [client |-> c, stage |-> "sent", document |-> Pending(sessions[c]),
               version |-> sessions[c].version, target |-> sessions[c].target,
               from |-> pages[c], borrowed |-> sessions[c].borrowed]]
    /\ sessions' = [sessions EXCEPT ![c].applying = TRUE]
    /\ UNCHANGED <<server, drafts, reads, pages, published, faults>>

\* Mutant: the version is not compared.
Unguarded(k) == TRUE
VersionMatches(k) == saves[k].version = server.version

Refuse(k, stage) == saves' = [saves EXCEPT ![k] = [client |-> @.client, stage |-> stage]]

\* SaveOperationDraft: the guarded version and the document in one transaction.
SaveDraft(k) ==
    /\ saves[k].stage = "sent"
    /\ IF VersionMatches(k)
       THEN /\ server' = [version |-> server.version + 1, document |-> saves[k].document]
            /\ saves' = [saves EXCEPT ![k].stage = "saved"]
       ELSE UNCHANGED server /\ Refuse(k, "conflict")
    /\ UNCHANGED <<drafts, reads, sessions, pages, published, faults>>

\* The answer is the operation as it is read afterwards.
AnswerSave(k) ==
    /\ saves[k].stage = "saved"
    /\ saves' = [saves EXCEPT ![k] =
         [stage |-> "answer", client |-> @.client, document |-> @.document, from |-> @.from,
          version |-> server.version, borrowed |-> server.version # @.version + 1]]
    /\ UNCHANGED <<server, drafts, reads, sessions, pages, published, faults>>

\* A save that a running session or a failing database refuses, or that lost its answer.
SaveFails(k) ==
    /\ saves[k].stage \in {"sent", "saved"}
    /\ faults < MaxFaults
    /\ faults' = faults + 1
    /\ Refuse(k, "failed")
    /\ UNCHANGED <<server, drafts, reads, sessions, pages, published>>

Settled(k) == saves' = [saves EXCEPT ![k] = [client |-> None, stage |-> "settled"]]

\* markApplied: the session of this moment takes over what was saved, and the draft is
\* read again.  A member or batch page that applied goes back to its list.
markApplied(session, save) ==
    [session EXCEPT !.intent = Keep, !.applying = FALSE, !.document = save.document,
                    !.version = save.version, !.borrowed = save.borrowed]
Applied(k) ==
    LET save == saves[k]  c == save.client
    IN  /\ save.stage = "answer"
        /\ IF sessions[c] = None THEN UNCHANGED sessions
           ELSE sessions' = [sessions EXCEPT ![c] = markApplied(@, save)]
        /\ pages' = IF save.from = None THEN pages
                    ELSE [pages EXCEPT ![c] = IF save.from.kind = "common" THEN @ ELSE None]
        /\ Ask(c)
        /\ Settled(k)
        /\ UNCHANGED <<server, drafts, published, faults>>

\* markStale and failSave keep the edits; a conflict reads the draft again.
NotApplied(k) ==
    LET c == saves[k].client
    IN  /\ saves[k].stage \in {"conflict", "failed"}
        /\ IF sessions[c] = None THEN UNCHANGED sessions
           ELSE sessions' = [sessions EXCEPT ![c].applying = FALSE]
        /\ IF saves[k].stage = "conflict" THEN Ask(c) ELSE UNCHANGED reads
        /\ Settled(k)
        /\ UNCHANGED <<server, drafts, pages, published, faults>>

-----------------------------------------------------------------------------
\* A generation that publishes moves the version and leaves the document; the
\* client that follows it reads the draft again.
Publish ==
    /\ published < MaxPublications
    /\ published' = published + 1
    /\ server' = [server EXCEPT !.version = @ + 1]
    /\ \E c \in Client : Ask(c)
    /\ UNCHANGED <<drafts, sessions, pages, saves, faults>>

Next ==
    \/ Publish
    \/ \E c \in Client :
         \/ Leave(c) \/ Discard(c) \/ Apply(c)
         \/ ReadVersion(c) \/ ReadDocument(c)
         \/ \E page \in Visits(c) : Open(c, page)
         \/ \E setting \in Value \cup {Inherit} : Edit(c, setting)
    \/ \E k \in Save : SaveDraft(k) \/ AnswerSave(k) \/ SaveFails(k) \/ Applied(k) \/ NotApplied(k)

Spec == Init /\ [][Next]_vars

-----------------------------------------------------------------------------
Draft == [version : Nat, document : Document]
Read == [at : {"idle", "asked"}] \cup [at : {"version"}, version : Nat]
EditSession ==
    [target : Target, version : Nat, document : Document, applying : BOOLEAN, borrowed : BOOLEAN,
     intent : Value \cup {Inherit, Keep}]
Sent ==
    [client : Client, stage : {"sent", "saved"}, document : Document, version : Nat,
     target : Target, from : Target \cup {None}, borrowed : BOOLEAN]
Answered ==
    [client : Client, stage : {"answer"}, document : Document, version : Nat,
     from : Target \cup {None}, borrowed : BOOLEAN]
Refused == [client : Client, stage : {"conflict", "failed"}]
Over == [client : {None}, stage : {"none", "settled"}]

ASSUME NoneIsNothing == None \notin Draft \cup Target \cup EditSession

\* The values every variable keeps to.
TypeOK ==
    /\ server \in Draft
    /\ drafts \in [Client -> Draft \cup {None}]
    /\ reads \in [Client -> Read]
    /\ sessions \in [Client -> EditSession \cup {None}]
    /\ pages \in [Client -> Target \cup {None}]
    /\ saves \in [Save -> Sent \cup Answered \cup Refused \cup Over]
    /\ published \in 0 .. MaxPublications
    /\ faults \in 0 .. MaxFaults

\* A client that holds the version the server has holds the document that goes with it,
\* whatever was read, saved, published and lost in between: the If-Match of its next save
\* is about what it edits.  The exception is a borrowed version.  draft.go: the version is
\* read first; workset-editor.ts: syncWithServer.
BaseTellsDocument ==
    \A c \in Client :
        /\ drafts[c] # None /\ drafts[c].version = server.version => drafts[c].document = server.document
        /\ sessions[c] # None /\ ~sessions[c].borrowed =>
             (sessions[c].version = server.version => sessions[c].document = server.document)

\* A save that is accepted changes what its editor edited, and no other member or setting:
\* what others saved meanwhile is kept or the save is refused.  draft-intents.ts: "editing
\* one unit leaves every other value and every other member's inheritance relationship
\* byte-identical"; the exception is a borrowed version.
TouchesOnly(slots, before, after) ==
    /\ \A s \in Slot \ slots : after[s] = before[s]
    /\ \A m \in Member \ slots :
         Effective(after, m) # Effective(before, m) => before[m] = Inherit /\ Common \in slots
Accepts(k) == saves[k].stage = "sent" /\ saves'[k].stage = "saved"
SaveTouchesItsTarget ==
    [][\A k \in Save : Accepts(k) /\ ~saves[k].borrowed =>
         TouchesOnly(saves[k].target.slots, server.document, server'.document)]_vars

\* The page of a member edits that member, whatever edits were open when it was entered
\* and whatever save was answered since.  MemberEditPage.vue: "the switch is a decision".
MemberPageEditsItsMember ==
    \A c \in Client :
        (/\ pages[c] # None /\ drafts[c] # None /\ sessions[c] # None
         /\ pages[c].kind = "member") => sessions[c].target = pages[c]

\* What an editor edits is what it was opened for and, at its version, what is there
\* (workset-editor.ts: open, syncWithServer, markApplied).
EditorsKnowTheirDraft == BaseTellsDocument /\ MemberPageEditsItsMember

-----------------------------------------------------------------------------
(* What the comments promise and the code does not do.                     *)

\* workset-editor.ts:124-125: "a dirty session keeps its edits, and the save reports the
\* conflict".  A save answered with the version of a later one does not.
SavesReportConflicts ==
    [][\A k \in Save : Accepts(k) =>
         TouchesOnly(saves[k].target.slots, server.document, server'.document)]_vars

\* workset-editor.ts:58-60: "the caller must ask the user to discard or continue rather
\* than silently switching the edit target".  The settings page ignores the refusal, and
\* the batch page goes on with a batch of other members.
PageEditsItsTarget ==
    \A c \in Client :
        (pages[c] # None /\ drafts[c] # None /\ sessions[c] # None) => sessions[c].target = pages[c]
=============================================================================
