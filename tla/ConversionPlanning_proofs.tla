---------------------- MODULE ConversionPlanning_proofs ----------------------
(***************************************************************************)
(* How a conversion is declared and planned: the draft that its browsers   *)
(* edit, and the plan that is computed from the settings of a draft and    *)
(* the files of a root.                                                    *)
(*                                                                         *)
(* The draft: for any browsers, members, values and bounds, DraftInv says  *)
(* what every copy of the document knows of the operation's (Told).        *)
(*                                                                         *)
(* The plan: for any policies, inventories and display names.  Each table  *)
(* brings a stem to its shape (StemPlan); stems add up to a component      *)
(* (PlannedFor); and while the components run, the inventory stays the     *)
(* planned root with those that ran replaced by what they projected        *)
(* (Follows).  Components share no file and no stem (AreasApart) and a row *)
(* depends on its own files alone (RowSame): so the rows that have not run *)
(* stay, and what a run leaves is settled (SettledRow).                    *)
(***************************************************************************)
EXTENDS DraftEditor, Reconcile, FiniteSetTheorems, WellFoundedInduction, TLAPS

-----------------------------------------------------------------------------
(* The invariant of drafts.                                                *)

\* What is known of an operation was true of it when it was learnt: its version is
\* one the operation has reached, and at the same version the document is the same.
DraftTells(draft, op) ==
    draft # None =>
        /\ draft.version <= op.version
        /\ draft.version = op.version => draft.document = op.document

SessionTells(session, op) ==
    session # None =>
        /\ session.version <= op.version
        /\ ~session.borrowed /\ session.version = op.version => session.document = op.document

\* A save that is on its way differs from the operation in its target only, and one
\* that was accepted is the operation's document until the next version.
SaveTells(save, op) ==
    /\ save.stage = "sent" =>
         /\ save.version <= op.version
         /\ ~save.borrowed /\ save.version = op.version =>
              \A s \in Slot \ save.target.slots : save.document[s] = op.document[s]
    /\ save.stage = "saved" =>
         /\ save.version < op.version
         /\ save.version + 1 = op.version => save.document = op.document
    /\ save.stage = "answer" =>
         /\ save.version <= op.version
         /\ ~save.borrowed /\ save.version = op.version => save.document = op.document

ReadTells(read, op) == read.at = "version" => read.version <= op.version

Told ==
    /\ \A c \in Client :
         /\ ReadTells(reads[c], server)
         /\ DraftTells(drafts[c], server)
         /\ SessionTells(sessions[c], server)
    /\ \A k \in Save : SaveTells(saves[k], server)

\* A session is opened from a draft; the pages that offer Inherit never show the
\* session of the common settings, so those are never made to inherit.
PageFits(session, page) ==
    session # None =>
        /\ session.target.kind = "common" => session.intent # Inherit
        /\ page # None /\ page.kind # "common" => session.target.kind = page.kind
        /\ page # None /\ page.kind = "member" => session.target = page

SessionsFit ==
    \A c \in Client :
        /\ drafts[c] = None => sessions[c] = None
        /\ PageFits(sessions[c], pages[c])

DraftInv == TypeOK /\ Told /\ SessionsFit

-----------------------------------------------------------------------------
(* Documents, saves and versions.                                          *)

LEMMA TargetsAreSlots ==
    ASSUME NEW t \in Target
    PROVE  /\ t.kind \in {"common", "member", "batch"}
           /\ Common \in t.slots => t.kind = "common"
  BY CommonIsNoMember DEF Target

\* Applying an intent yields a document that differs in the target's slots only.
LEMMA Applying ==
    ASSUME NEW base \in Document, NEW t \in Target, NEW intent \in Value \cup {Inherit, Keep},
           t.kind = "common" => intent # Inherit
    PROVE  /\ applyIntent(base, t, intent) \in Document
           /\ \A s \in Slot \ t.slots : applyIntent(base, t, intent)[s] = base[s]
<1>1. CASE intent = Keep
  BY <1>1 DEF applyIntent
<1>2. CASE intent # Keep
  <2> DEFINE new == [s \in Slot |-> IF s \in t.slots THEN intent ELSE base[s]]
  <2>1. applyIntent(base, t, intent) = new
    BY <1>2 DEF applyIntent
  <2>2. base \in [Slot -> Value \cup {Inherit}] /\ base[Common] # Inherit
    BY DEF Document
  <2>3. new \in [Slot -> Value \cup {Inherit}]
    BY <1>2, <2>2
  <2>4. new[Common] # Inherit
    BY <2>2, TargetsAreSlots DEF Slot
  <2> QED BY <2>1, <2>3, <2>4 DEF Document
<1> QED BY <1>1, <1>2

LEMMA SaveKinds ==
    ASSUME NEW save \in Sent \cup Answered \cup Refused \cup Over
    PROVE  /\ save.stage \in {"sent", "saved"} => save \in Sent
           /\ save.stage = "answer" => save \in Answered
           /\ save.stage \in {"conflict", "failed"} => save \in Refused
  BY DEF Sent, Answered, Refused, Over

\* What is told of an operation stays told when its version moves on.
LEMMA OnceTold ==
    ASSUME NEW op \in Draft, NEW next \in Draft, next.version = op.version + 1
    PROVE  /\ \A read \in Read : ReadTells(read, op) => ReadTells(read, next)
           /\ \A draft \in Draft \cup {None} : DraftTells(draft, op) => DraftTells(draft, next)
           /\ \A session \in EditSession \cup {None} :
                SessionTells(session, op) => SessionTells(session, next)
           /\ \A save \in Sent \cup Answered \cup Refused \cup Over :
                SaveTells(save, op) => SaveTells(save, next)
<1>1. op.version \in Nat /\ next.version \in Nat
  BY DEF Draft
<1>2. ASSUME NEW read \in Read, ReadTells(read, op)
      PROVE  ReadTells(read, next)
  BY <1>1, <1>2 DEF ReadTells, Read
<1>3. ASSUME NEW draft \in Draft \cup {None}, DraftTells(draft, op)
      PROVE  DraftTells(draft, next)
  BY <1>1, <1>3 DEF DraftTells, Draft
<1>4. ASSUME NEW session \in EditSession \cup {None}, SessionTells(session, op)
      PROVE  SessionTells(session, next)
  BY <1>1, <1>4 DEF SessionTells, EditSession
<1>5. ASSUME NEW save \in Sent \cup Answered \cup Refused \cup Over, SaveTells(save, op)
      PROVE  SaveTells(save, next)
  <2>1. save.stage \in {"sent", "saved", "answer"} => save.version \in Nat
    BY SaveKinds DEF Sent, Answered
  <2> QED BY <1>1, <1>5, <2>1 DEF SaveTells
<1> QED BY <1>2, <1>3, <1>4, <1>5

-----------------------------------------------------------------------------
(* Pages and sessions.                                                     *)

\* Whatever a page does with the session it finds, session and page fit, and the
\* session is the one it found or says what the draft says.
LEMMA Opening ==
    ASSUME NEW session \in EditSession \cup {None}, NEW page \in Target \cup {None},
           NEW draft \in Draft \cup {None},
           draft = None => session = None,
           session # None /\ session.target.kind = "common" => session.intent # Inherit,
           NEW outcome \in Opened(session, page, draft)
    PROVE  /\ outcome.session \in EditSession \cup {None}
           /\ outcome.page \in Target \cup {None}
           /\ PageFits(outcome.session, outcome.page)
           /\ draft = None => outcome.session = None
           /\ \A op : SessionTells(session, op) /\ DraftTells(draft, op)
                        => SessionTells(outcome.session, op)
<1> DEFINE Fresh == Session(page, draft)
<1>1. page # None /\ draft # None =>
        /\ Fresh \in EditSession
        /\ PageFits(Fresh, page)
        /\ \A op : DraftTells(draft, op) => SessionTells(Fresh, op)
  BY MarkersAreNoValues DEF Session, EditSession, Draft, PageFits, DraftTells, SessionTells
<1>2. PageFits(session, None)
  BY DEF PageFits
<1>3. page = None \/ draft = None \/ Kept(session, page) => PageFits(session, page)
  BY DEF PageFits, Kept
<1>4. page # None /\ page.kind = "common" => PageFits(session, page)
  BY DEF PageFits
<1>5. CASE outcome = Outcome(session, page) /\ PageFits(session, page)
  BY <1>5 DEF Outcome
<1>6. CASE page # None /\ draft # None /\ outcome = Outcome(Fresh, page)
  BY <1>1, <1>6 DEF Outcome
<1>7. CASE outcome = Outcome(session, None)
  BY <1>2, <1>7 DEF Outcome
<1>8. CASE page = None \/ draft = None \/ Kept(session, page)
  BY <1>3, <1>5, <1>8 DEF Opened
<1>9. CASE page # None /\ draft # None /\ page.kind = "common"
  BY <1>4, <1>5, <1>6, <1>8, <1>9 DEF Opened
<1>10. CASE page # None /\ draft # None /\ page.kind # "common"
  BY <1>6, <1>7, <1>8, <1>10 DEF Opened
<1> QED BY <1>8, <1>9, <1>10

-----------------------------------------------------------------------------
(* The steps.                                                              *)

LEMMA Types ==
    ASSUME TypeOK, NEW c \in Client
    PROVE  /\ server \in Draft
           /\ drafts[c] \in Draft \cup {None} /\ reads[c] \in Read
           /\ sessions[c] \in EditSession \cup {None} /\ pages[c] \in Target \cup {None}
           /\ sessions[c] # None => sessions[c].target \in Target
  BY DEF TypeOK, EditSession

LEMMA DraftInit == Init => DraftInv
<1> SUFFICES ASSUME Init PROVE DraftInv
  OBVIOUS
<1>1. PICK v \in Value :
        server = [version |-> 0, document |-> [s \in Slot |-> IF s = Common THEN v ELSE Inherit]]
  BY DEF Init
<1>2. server \in Draft
  BY <1>1, MarkersAreNoValues DEF Draft, Document, Slot
<1>3. TypeOK
  BY <1>2, BoundsAreNumbers DEF Init, TypeOK, Read, Over, NoSave
<1>4. Told
  BY DEF Init, Told, ReadTells, DraftTells, SessionTells, SaveTells, NoSave
<1>5. SessionsFit
  BY DEF Init, SessionsFit, PageFits
<1> QED BY <1>3, <1>4, <1>5 DEF DraftInv

\* A page that follows its draft leaves the invariant's part of its client intact.
LEMMA Following ==
    ASSUME TypeOK, NEW c \in Client, NEW session \in EditSession \cup {None},
           NEW page \in Target \cup {None}, NEW draft \in Draft \cup {None},
           draft = None => session = None,
           session # None /\ session.target.kind = "common" => session.intent # Inherit,
           SessionTells(session, server), DraftTells(draft, server),
           Follow(c, session, page, draft)
    PROVE  /\ sessions' \in [Client -> EditSession \cup {None}]
           /\ pages' \in [Client -> Target \cup {None}]
           /\ PageFits(sessions'[c], pages'[c])
           /\ draft = None => sessions'[c] = None
           /\ SessionTells(sessions'[c], server)
           /\ \A d \in Client \ {c} : sessions'[d] = sessions[d] /\ pages'[d] = pages[d]
<1>1. PICK outcome \in Opened(session, page, draft) :
        /\ sessions' = [sessions EXCEPT ![c] = outcome.session]
        /\ pages' = [pages EXCEPT ![c] = outcome.page]
  BY DEF Follow
<1>2. /\ outcome.session \in EditSession \cup {None}
      /\ outcome.page \in Target \cup {None}
      /\ PageFits(outcome.session, outcome.page)
      /\ draft = None => outcome.session = None
      /\ SessionTells(outcome.session, server)
  BY Opening
<1>3. /\ sessions'[c] = outcome.session /\ pages'[c] = outcome.page
      /\ \A d \in Client \ {c} : sessions'[d] = sessions[d] /\ pages'[d] = pages[d]
  BY <1>1 DEF TypeOK
<1> QED BY <1>1, <1>2, <1>3 DEF TypeOK

\* Pages that are opened, left and discarded, and edits.
LEMMA PageSteps ==
    ASSUME DraftInv, NEW c \in Client,
           \/ \E page \in Visits(c) : Open(c, page)
           \/ Leave(c) \/ Discard(c)
           \/ \E setting \in Value \cup {Inherit} : Edit(c, setting)
    PROVE  DraftInv'
<1> USE DEF DraftInv
<1>1. ASSUME NEW page \in Visits(c), Open(c, page)
      PROVE  DraftInv'
  <2>1. page \in Target
    BY VisitsTargets
  <2>2. /\ SessionTells(sessions[c], server) /\ DraftTells(drafts[c], server)
        /\ drafts[c] = None => sessions[c] = None
        /\ sessions[c] # None /\ sessions[c].target.kind = "common" => sessions[c].intent # Inherit
    BY DEF Told, SessionsFit, PageFits
  <2>3. Follow(c, sessions[c], page, drafts[c])
    BY <1>1 DEF Open
  <2>4. /\ sessions' \in [Client -> EditSession \cup {None}]
        /\ pages' \in [Client -> Target \cup {None}]
        /\ PageFits(sessions'[c], pages'[c])
        /\ drafts[c] = None => sessions'[c] = None
        /\ SessionTells(sessions'[c], server)
        /\ \A d \in Client \ {c} : sessions'[d] = sessions[d] /\ pages'[d] = pages[d]
    BY <2>1, <2>2, <2>3, Types, Following
  <2>5. UNCHANGED <<server, drafts, reads, saves, published, faults>>
    BY <1>1 DEF Open
  <2>6. TypeOK'
    BY <2>4, <2>5 DEF TypeOK
  <2>7. Told'
    BY <2>4, <2>5 DEF Told
  <2>8. SessionsFit'
    BY <2>4, <2>5 DEF SessionsFit
  <2> QED BY <2>6, <2>7, <2>8
<1>2. CASE Leave(c)
  <2>1. TypeOK'
    BY <1>2 DEF Leave, TypeOK
  <2>2. Told'
    BY <1>2 DEF Leave, Told
  <2>3. \A d \in Client : sessions'[d] = sessions[d] /\ pages'[d] \in {pages[d], None}
    BY <1>2 DEF Leave, TypeOK
  <2>4. SessionsFit'
    BY <1>2, <2>3 DEF Leave, SessionsFit, PageFits
  <2> QED BY <2>1, <2>2, <2>4
<1>3. CASE Discard(c)
  <2>1. TypeOK'
    BY <1>3 DEF Discard, TypeOK
  <2>2. \A d \in Client : \/ sessions'[d] = sessions[d] /\ pages'[d] = pages[d]
                          \/ sessions'[d] = None
    BY <1>3 DEF Discard, TypeOK
  <2>3. Told'
    BY <1>3, <2>2 DEF Discard, Told, SessionTells
  <2>4. SessionsFit'
    BY <1>3, <2>2 DEF Discard, SessionsFit, PageFits
  <2> QED BY <2>1, <2>3, <2>4
<1>4. ASSUME NEW setting \in Value \cup {Inherit}, Edit(c, setting)
      PROVE  DraftInv'
  <2> DEFINE edited == [sessions[c] EXCEPT !.intent = setting]
  <2>1. sessions[c] \in EditSession /\ pages[c] \in Target /\ setting \in Settings(pages[c])
    BY <1>4 DEF Edit, TypeOK
  <2>2. edited \in EditSession /\ SessionTells(edited, server)
    BY <1>4, <2>1 DEF Edit, EditSession, Told, SessionTells
  <2>3. PageFits(edited, pages[c])
    <3>1. sessions[c].target.kind = "common" => pages[c].kind = "common"
      BY <1>4, <2>1, TargetsAreSlots DEF Edit, SessionsFit, PageFits
    <3>2. sessions[c].target.kind = "common" => setting # Inherit
      BY <2>1, <3>1, MarkersAreNoValues DEF Settings
    <3>3. edited.target = sessions[c].target /\ edited.intent = setting
      BY <2>1 DEF EditSession
    <3>4. PageFits(sessions[c], pages[c]) /\ sessions[c] # None
      BY <1>4 DEF Edit, SessionsFit
    <3> QED BY <3>2, <3>3, <3>4 DEF PageFits
  <2>4. /\ sessions' = [sessions EXCEPT ![c] = edited]
        /\ UNCHANGED <<server, drafts, reads, pages, saves, published, faults>>
    BY <1>4 DEF Edit
  <2>5. \A d \in Client : sessions'[d] = IF d = c THEN edited ELSE sessions[d]
    BY <2>4 DEF TypeOK
  <2>6. TypeOK'
    BY <2>2, <2>4 DEF TypeOK
  <2>7. Told'
    BY <2>2, <2>4, <2>5 DEF Told
  <2>8. drafts[c] # None
    BY <1>4 DEF Edit, SessionsFit
  <2>9. SessionsFit'
    BY <2>3, <2>4, <2>5, <2>8 DEF SessionsFit
  <2> QED BY <2>6, <2>7, <2>9
<1> QED BY <1>1, <1>2, <1>3, <1>4

\* A draft that is read in two steps, and the session that adopts it.
LEMMA ReadSteps ==
    ASSUME DraftInv, NEW c \in Client, ReadVersion(c) \/ ReadDocument(c)
    PROVE  DraftInv'
<1> USE DEF DraftInv
<1>1. CASE ReadVersion(c)
  <2> DEFINE read == [at |-> "version", version |-> server.version]
  <2>1. read \in Read /\ ReadTells(read, server)
    BY Types DEF Read, Draft, ReadTells
  <2>2. TypeOK'
    BY <1>1, <2>1 DEF ReadVersion, TypeOK
  <2>3. \A d \in Client : reads'[d] \in {reads[d], read}
    BY <1>1 DEF ReadVersion, TypeOK
  <2>4. Told'
    BY <1>1, <2>1, <2>3 DEF ReadVersion, Told
  <2>5. SessionsFit'
    BY <1>1 DEF ReadVersion, SessionsFit
  <2> QED BY <2>2, <2>4, <2>5
<1>2. CASE ReadDocument(c)
  <2> DEFINE draft == [version |-> reads[c].version, document |-> server.document]
             known == IF sessions[c] = None THEN None ELSE syncWithServer(sessions[c], draft)
  <2>1. reads[c].version \in Nat /\ reads[c].version <= server.version
    BY <1>2, Types DEF ReadDocument, Read, Told, ReadTells
  <2>2. draft \in Draft /\ DraftTells(draft, server)
    BY <2>1, Types DEF Draft, DraftTells
  <2>3. draft # None
    BY <2>2, NoneIsNothing
  <2>4. /\ known \in EditSession \cup {None}
        /\ SessionTells(known, server)
        /\ known # None /\ known.target.kind = "common" => known.intent # Inherit
    <3>1. CASE known = None
      BY <3>1 DEF SessionTells
    <3>2. CASE known = sessions[c]
      BY <3>2, Types DEF Told, SessionsFit, PageFits
    <3>3. CASE /\ sessions[c] # None
               /\ known = [sessions[c] EXCEPT !.version = draft.version,
                             !.document = draft.document, !.borrowed = FALSE]
      <4>1. sessions[c] \in EditSession
        BY <3>3, Types
      <4>2. known \in EditSession
        BY <2>2, <3>3, <4>1 DEF EditSession, Draft
      <4>3. /\ known.version = draft.version /\ known.document = draft.document
            /\ known.target = sessions[c].target /\ known.intent = sessions[c].intent
        BY <3>3, <4>1 DEF EditSession
      <4>4. SessionTells(known, server)
        BY <2>2, <2>3, <4>3 DEF SessionTells, DraftTells
      <4> QED BY <3>3, <4>2, <4>3, <4>4 DEF SessionsFit, PageFits
    <3> QED BY <3>1, <3>2, <3>3 DEF syncWithServer
  <2>5. /\ drafts' = [drafts EXCEPT ![c] = draft] /\ reads' = [reads EXCEPT ![c] = Idle]
        /\ UNCHANGED <<server, saves, published, faults>>
        /\ \/ draft = drafts[c] /\ UNCHANGED <<sessions, pages>>
           \/ Follow(c, known, pages[c], draft)
    BY <1>2 DEF ReadDocument
  <2>6. /\ sessions' \in [Client -> EditSession \cup {None}]
        /\ pages' \in [Client -> Target \cup {None}]
        /\ PageFits(sessions'[c], pages'[c])
        /\ SessionTells(sessions'[c], server)
        /\ \A d \in Client \ {c} : sessions'[d] = sessions[d] /\ pages'[d] = pages[d]
    <3>1. CASE UNCHANGED <<sessions, pages>>
      BY <3>1 DEF TypeOK, Told, SessionsFit
    <3>2. CASE Follow(c, known, pages[c], draft)
      BY <2>2, <2>3, <2>4, <3>2, Types, Following
    <3> QED BY <2>5, <3>1, <3>2
  <2> HIDE DEF draft, known
  <2>7. /\ \A d \in Client : drafts'[d] = IF d = c THEN draft ELSE drafts[d]
        /\ \A d \in Client : reads'[d] = IF d = c THEN Idle ELSE reads[d]
    BY <2>5 DEF TypeOK
  <2>8. TypeOK'
    BY <2>2, <2>5, <2>6 DEF TypeOK, Read, Idle
  <2>9. Told'
    BY <2>2, <2>5, <2>6, <2>7 DEF Told, ReadTells, Idle
  <2>10. SessionsFit'
    <3> SUFFICES ASSUME NEW d \in Client
                 PROVE  /\ drafts'[d] = None => sessions'[d] = None
                        /\ PageFits(sessions'[d], pages'[d])
      BY DEF SessionsFit
    <3>1. CASE d = c
      BY <2>3, <2>6, <2>7, <3>1
    <3>2. CASE d # c
      BY <2>6, <2>7, <3>2 DEF SessionsFit
    <3> QED BY <3>1, <3>2
  <2> QED BY <2>8, <2>9, <2>10
<1> QED BY <1>1, <1>2

\* A save is sent with the session's document, its intent applied to the target.
LEMMA ApplyStep ==
    ASSUME DraftInv, NEW c \in Client, Apply(c)
    PROVE  DraftInv'
<1> USE DEF DraftInv
<1> DEFINE session == sessions[c]
           save == [client |-> c, stage |-> "sent", document |-> Pending(session),
                    version |-> session.version, target |-> session.target,
                    from |-> pages[c], borrowed |-> session.borrowed]
           applying == [session EXCEPT !.applying = TRUE]
<1>1. session \in EditSession /\ session # None
  BY Types DEF Apply
<1>2. PICK k \in Save : saves' = [saves EXCEPT ![k] = save]
  BY DEF Apply
<1>3. /\ sessions' = [sessions EXCEPT ![c] = applying]
      /\ UNCHANGED <<server, drafts, reads, pages, published, faults>>
  BY DEF Apply
<1>4. /\ Pending(session) \in Document
      /\ \A s \in Slot \ session.target.slots : Pending(session)[s] = session.document[s]
  <2>1. session.target.kind = "common" => session.intent # Inherit
    BY <1>1 DEF SessionsFit, PageFits
  <2> QED BY <1>1, <2>1, Applying DEF Pending, EditSession
<1>5. save \in Sent
  BY <1>1, <1>4, Types DEF Sent, EditSession
<1>6. SaveTells(save, server)
  BY <1>1, <1>4 DEF SaveTells, Told, SessionTells
<1>7. /\ applying \in EditSession /\ SessionTells(applying, server)
      /\ PageFits(applying, pages[c])
  BY <1>1 DEF EditSession, Told, SessionTells, SessionsFit, PageFits
<1>8. /\ \A d \in Client : sessions'[d] = IF d = c THEN applying ELSE sessions[d]
      /\ \A j \in Save : saves'[j] = IF j = k THEN save ELSE saves[j]
  BY <1>2, <1>3 DEF TypeOK
<1>9. TypeOK'
  BY <1>2, <1>3, <1>5, <1>7 DEF TypeOK
<1>10. Told'
  BY <1>3, <1>6, <1>7, <1>8 DEF Told
<1>11. SessionsFit'
  BY <1>1, <1>3, <1>7, <1>8 DEF SessionsFit
<1> QED BY <1>9, <1>10, <1>11

LEMMA SaveTypes ==
    ASSUME TypeOK, NEW k \in Save
    PROVE  /\ saves[k] \in Sent \cup Answered \cup Refused \cup Over
           /\ saves[k].stage \in {"sent", "saved"} => saves[k] \in Sent
           /\ saves[k].stage = "answer" => saves[k] \in Answered
           /\ saves[k].stage \in {"conflict", "failed"} => saves[k] \in Refused
<1>1. saves[k] \in Sent \cup Answered \cup Refused \cup Over
  BY DEF TypeOK
<1> QED BY <1>1, SaveKinds

\* A save that is refused, or is over, tells nothing any more.
LEMMA Refusing ==
    ASSUME TypeOK, Told, NEW k \in Save, NEW save \in Refused \cup Over,
           saves' = [saves EXCEPT ![k] = save], server' = server
    PROVE  /\ saves' \in [Save -> Sent \cup Answered \cup Refused \cup Over]
           /\ \A j \in Save : SaveTells(saves'[j], server')
<1>1. SaveTells(save, server)
  BY DEF SaveTells, Refused, Over
<1>2. saves \in [Save -> Sent \cup Answered \cup Refused \cup Over]
  BY DEF TypeOK
<1>3. \A j \in Save : saves'[j] = IF j = k THEN save ELSE saves[j]
  BY <1>2
<1> QED BY <1>1, <1>2, <1>3 DEF Told

\* The transaction of a save, its answer, and one that does not get that far.
LEMMA SaveSteps ==
    ASSUME DraftInv, NEW k \in Save, SaveDraft(k) \/ AnswerSave(k) \/ SaveFails(k)
    PROVE  DraftInv'
<1> USE DEF DraftInv
<1> DEFINE save == saves[k]
           refused(stage) == [client |-> save.client, stage |-> stage]
<1>1. /\ save.stage \in {"sent", "saved"}
      /\ save \in Sent
      /\ UNCHANGED <<drafts, reads, sessions, pages, published>>
  BY SaveTypes DEF SaveDraft, AnswerSave, SaveFails
<1>2. SessionsFit'
  BY <1>1 DEF SessionsFit
<1>3. ASSUME NEW stage \in {"conflict", "failed"}, Refuse(k, stage), UNCHANGED server,
             faults' \in 0 .. MaxFaults
      PROVE  DraftInv'
  <2>1. saves' = [saves EXCEPT ![k] = refused(stage)]
    BY <1>3 DEF Refuse
  <2>2. refused(stage) \in Refused
    BY <1>1 DEF Sent, Refused
  <2>3. /\ saves' \in [Save -> Sent \cup Answered \cup Refused \cup Over]
        /\ \A j \in Save : SaveTells(saves'[j], server')
    BY <1>3, <2>1, <2>2, Refusing
  <2>4. TypeOK'
    BY <1>1, <1>3, <2>3 DEF TypeOK
  <2>5. Told'
    BY <1>1, <1>3, <2>3 DEF Told
  <2> QED BY <1>2, <2>4, <2>5
<1>4. CASE SaveDraft(k) /\ VersionMatches(k)
  <2> DEFINE saved == [save EXCEPT !.stage = "saved"]
  <2>1. /\ server' = [version |-> server.version + 1, document |-> save.document]
        /\ saves' = [saves EXCEPT ![k] = saved]
        /\ save.version = server.version
        /\ faults' = faults
    BY <1>4 DEF SaveDraft, VersionMatches
  <2>2. server' \in Draft /\ server'.version = server.version + 1 /\ server \in Draft
    BY <1>1, <2>1 DEF TypeOK, Draft, Sent
  <2>3. saved \in Sent /\ saved.version = save.version /\ saved.document = save.document
        /\ saved.stage = "saved"
    BY <1>1 DEF Sent
  <2>4. SaveTells(saved, server')
    BY <1>1, <2>1, <2>2, <2>3 DEF SaveTells, Draft
  <2>5. \A j \in Save : saves'[j] = IF j = k THEN saved ELSE saves[j]
    BY <2>1 DEF TypeOK
  <2>6. TypeOK'
    BY <1>1, <2>1, <2>2, <2>3 DEF TypeOK
  <2>7. \A j \in Save : SaveTells(saves'[j], server')
    BY <2>2, <2>4, <2>5, SaveTypes, OnceTold DEF Told
  <2>8. \A c \in Client : /\ ReadTells(reads[c], server')
                           /\ DraftTells(drafts[c], server')
                           /\ SessionTells(sessions[c], server')
    BY <2>2, Types, OnceTold DEF Told
  <2>9. Told'
    BY <1>1, <2>7, <2>8 DEF Told
  <2> QED BY <1>2, <2>6, <2>9
<1>5. CASE SaveDraft(k) /\ ~VersionMatches(k)
  BY <1>3, <1>5 DEF SaveDraft, TypeOK
<1>6. CASE AnswerSave(k)
  <2> DEFINE answer == [stage |-> "answer", client |-> save.client, document |-> save.document,
                        from |-> save.from, version |-> server.version,
                        borrowed |-> server.version # save.version + 1]
  <2>1. /\ saves' = [saves EXCEPT ![k] = answer] /\ save.stage = "saved"
        /\ UNCHANGED <<server, faults>>
    BY <1>6 DEF AnswerSave
  <2>2. server \in Draft
    BY DEF TypeOK
  <2>3. answer \in Answered
    BY <1>1, <2>2 DEF Sent, Answered, Draft
  <2>4. SaveTells(answer, server)
    <3>1. /\ answer.stage = "answer" /\ answer.version = server.version
          /\ answer.document = save.document
          /\ ~answer.borrowed => server.version = save.version + 1
      OBVIOUS
    <3>2. save.version + 1 = server.version => save.document = server.document
      BY <2>1 DEF Told, SaveTells
    <3>3. server.version <= server.version
      BY <2>2 DEF Draft
    <3> QED BY <3>1, <3>2, <3>3 DEF SaveTells
  <2>5. \A j \in Save : saves'[j] = IF j = k THEN answer ELSE saves[j]
    BY <2>1 DEF TypeOK
  <2>6. TypeOK'
    BY <1>1, <2>1, <2>3 DEF TypeOK
  <2>7. Told'
    BY <1>1, <2>1, <2>4, <2>5 DEF Told
  <2> QED BY <1>2, <2>6, <2>7
<1>7. CASE SaveFails(k)
  <2>1. faults' \in 0 .. MaxFaults
    BY <1>7, BoundsAreNumbers DEF SaveFails, TypeOK
  <2> QED BY <1>3, <1>7, <2>1 DEF SaveFails
<1> QED BY <1>4, <1>5, <1>6, <1>7

\* What a client does with the answer.
LEMMA AnswerSteps ==
    ASSUME DraftInv, NEW k \in Save, Applied(k) \/ NotApplied(k)
    PROVE  DraftInv'
<1> USE DEF DraftInv
<1> DEFINE save == saves[k]
           c == save.client
           over == [client |-> None, stage |-> "settled"]
<1>1. /\ saves' = [saves EXCEPT ![k] = over]
      /\ UNCHANGED <<server, drafts, published, faults>>
  BY DEF Applied, NotApplied, Settled
<1>2. over \in Over
  BY DEF Over
<1>3. /\ saves' \in [Save -> Sent \cup Answered \cup Refused \cup Over]
      /\ \A j \in Save : SaveTells(saves'[j], server')
  BY <1>1, <1>2, Refusing
<1>4. c \in Client
  BY SaveTypes DEF Applied, NotApplied, Answered, Refused
<1>5. /\ reads' \in [Client -> Read]
      /\ \A d \in Client : ReadTells(reads'[d], server)
  <2>1. reads' = reads \/ reads' = [reads EXCEPT ![c] = [at |-> "asked"]]
    BY DEF Applied, NotApplied, Ask
  <2>2. [at |-> "asked"] \in Read
    BY DEF Read
  <2>3. \A d \in Client : reads'[d] \in {reads[d], [at |-> "asked"]}
    BY <2>1 DEF TypeOK
  <2> QED BY <2>1, <2>2, <2>3 DEF TypeOK, Told, ReadTells
<1>6. ASSUME NEW session \in EditSession, SessionTells(session, server),
             sessions[c] # None, session.target = sessions[c].target,
             session.intent \in {sessions[c].intent, Keep},
             sessions' = [sessions EXCEPT ![c] = session],
             pages' \in [Client -> Target \cup {None}],
             \A d \in Client : pages'[d] \in {pages[d], None}
      PROVE  DraftInv'
  <2>1. \A d \in Client : sessions'[d] = IF d = c THEN session ELSE sessions[d]
    BY <1>6 DEF TypeOK
  <2>2. TypeOK'
    BY <1>1, <1>3, <1>5, <1>6 DEF TypeOK
  <2>3. Told'
    BY <1>1, <1>3, <1>5, <1>6, <2>1 DEF Told
  <2>4. SessionsFit'
    BY <1>1, <1>6, <2>1, MarkersAreNoValues DEF SessionsFit, PageFits
  <2> QED BY <2>2, <2>3, <2>4
<1>7. ASSUME sessions' = sessions, pages' \in [Client -> Target \cup {None}],
             \A d \in Client : pages'[d] \in {pages[d], None}
      PROVE  DraftInv'
  <2>1. TypeOK'
    BY <1>1, <1>3, <1>5, <1>7 DEF TypeOK
  <2>2. Told'
    BY <1>1, <1>3, <1>5, <1>7 DEF Told
  <2>3. SessionsFit'
    BY <1>1, <1>7 DEF SessionsFit, PageFits
  <2> QED BY <2>1, <2>2, <2>3
<1>8. CASE Applied(k)
  <2> DEFINE session == markApplied(sessions[c], save)
  <2>1. save \in Answered /\ SaveTells(save, server) /\ save.stage = "answer"
    BY <1>8, SaveTypes DEF Applied, Told
  <2>2. /\ pages' \in [Client -> Target \cup {None}]
        /\ \A d \in Client : pages'[d] \in {pages[d], None}
    BY <1>8 DEF Applied, TypeOK
  <2>3. CASE sessions[c] = None
    BY <1>7, <1>8, <2>2, <2>3 DEF Applied
  <2>4. CASE sessions[c] # None
    <3>1. sessions[c] \in EditSession
      BY <1>4, <2>4, Types
    <3>2. /\ session \in EditSession /\ session.target = sessions[c].target
          /\ session.intent = Keep /\ session.version = save.version
          /\ session.document = save.document /\ session.borrowed = save.borrowed
      BY <2>1, <3>1 DEF markApplied, EditSession, Answered
    <3>3. SessionTells(session, server)
      BY <2>1, <3>2 DEF SaveTells, SessionTells
    <3>4. sessions' = [sessions EXCEPT ![c] = session]
      BY <1>8, <2>4 DEF Applied
    <3> QED BY <1>6, <2>2, <2>4, <3>2, <3>3, <3>4
  <2> QED BY <2>3, <2>4
<1>9. CASE NotApplied(k)
  <2> DEFINE session == [sessions[c] EXCEPT !.applying = FALSE]
  <2>1. /\ pages' \in [Client -> Target \cup {None}]
        /\ \A d \in Client : pages'[d] \in {pages[d], None}
    BY <1>9 DEF NotApplied, TypeOK
  <2>2. CASE sessions[c] = None
    BY <1>7, <1>9, <2>1, <2>2 DEF NotApplied
  <2>3. CASE sessions[c] # None
    <3>1. sessions[c] \in EditSession
      BY <1>4, <2>3, Types
    <3>2. /\ session \in EditSession /\ session.target = sessions[c].target
          /\ session.intent = sessions[c].intent /\ session.version = sessions[c].version
          /\ session.document = sessions[c].document /\ session.borrowed = sessions[c].borrowed
      BY <3>1 DEF EditSession
    <3>3. SessionTells(session, server)
      BY <1>4, <2>3, <3>2 DEF Told, SessionTells
    <3>4. sessions' = [sessions EXCEPT ![c] = session]
      BY <1>9, <2>3 DEF NotApplied
    <3> QED BY <1>6, <2>1, <2>3, <3>2, <3>3, <3>4
  <2> QED BY <2>2, <2>3
<1> QED BY <1>8, <1>9

\* A publication moves the version under everybody.
LEMMA PublishStep == DraftInv /\ Publish => DraftInv'
<1> SUFFICES ASSUME DraftInv, Publish PROVE DraftInv'
  OBVIOUS
<1> USE DEF DraftInv
<1>1. /\ server' = [server EXCEPT !.version = @ + 1] /\ published' = published + 1
      /\ published < MaxPublications
      /\ UNCHANGED <<drafts, sessions, pages, saves, faults>>
  BY DEF Publish
<1>2. PICK c \in Client : reads' = [reads EXCEPT ![c] = [at |-> "asked"]]
  BY DEF Publish, Ask
<1>3. server \in Draft /\ server' \in Draft /\ server'.version = server.version + 1
  BY <1>1 DEF TypeOK, Draft
<1>4. [at |-> "asked"] \in Read /\ ReadTells([at |-> "asked"], server')
  BY DEF Read, ReadTells
<1>5. \A d \in Client : reads'[d] = IF d = c THEN [at |-> "asked"] ELSE reads[d]
  BY <1>2 DEF TypeOK
<1>6. TypeOK'
  BY <1>1, <1>2, <1>3, <1>4, BoundsAreNumbers DEF TypeOK
<1>7. \A d \in Client : /\ ReadTells(reads'[d], server')
                         /\ DraftTells(drafts[d], server')
                         /\ SessionTells(sessions[d], server')
  BY <1>3, <1>4, <1>5, Types, OnceTold DEF Told
<1>8. \A k \in Save : SaveTells(saves[k], server')
  BY <1>3, SaveTypes, OnceTold DEF Told
<1>9. Told'
  BY <1>1, <1>7, <1>8 DEF Told
<1>10. SessionsFit'
  BY <1>1 DEF SessionsFit
<1> QED BY <1>6, <1>9, <1>10

LEMMA DraftNext == DraftInv /\ [Next]_vars => DraftInv'
<1> SUFFICES ASSUME DraftInv, [Next]_vars PROVE DraftInv'
  OBVIOUS
<1>1. CASE Publish
  BY <1>1, PublishStep
<1>2. ASSUME NEW c \in Client,
             \/ Leave(c) \/ Discard(c)
             \/ \E page \in Visits(c) : Open(c, page)
             \/ \E setting \in Value \cup {Inherit} : Edit(c, setting)
      PROVE  DraftInv'
  BY <1>2, PageSteps
<1>3. ASSUME NEW c \in Client, Apply(c)
      PROVE  DraftInv'
  BY <1>3, ApplyStep
<1>4. ASSUME NEW c \in Client, ReadVersion(c) \/ ReadDocument(c)
      PROVE  DraftInv'
  BY <1>4, ReadSteps
<1>5. ASSUME NEW k \in Save, SaveDraft(k) \/ AnswerSave(k) \/ SaveFails(k)
      PROVE  DraftInv'
  BY <1>5, SaveSteps
<1>6. ASSUME NEW k \in Save, Applied(k) \/ NotApplied(k)
      PROVE  DraftInv'
  BY <1>6, AnswerSteps
<1>7. CASE UNCHANGED vars
  BY <1>7 DEF vars, DraftInv, TypeOK, Told, SessionsFit
<1> QED BY <1>1, <1>2, <1>3, <1>4, <1>5, <1>6, <1>7 DEF Next

LEMMA DraftInvariant == Spec => []DraftInv
  BY DraftInit, DraftNext, PTL DEF Spec

-----------------------------------------------------------------------------
(* What follows.                                                           *)

\* Every draft, session and save of the editors keeps its type; no document ever
\* lets the common settings inherit (draft-intents.ts, draftdoc.go).
THEOREM DraftTypeCorrect == Spec => []TypeOK
<1>1. DraftInv => TypeOK
  BY DEF DraftInv
<1> QED BY <1>1, DraftInvariant, PTL

\* A client that holds the operation's version holds its document, whatever was
\* read, saved, published and lost (GetDraft, syncWithServer, markApplied).
THEOREM BasesTellDocument == Spec => []BaseTellsDocument
<1>1. DraftInv => BaseTellsDocument
  BY DEF DraftInv, Told, DraftTells, SessionTells, BaseTellsDocument
<1> QED BY <1>1, DraftInvariant, PTL

\* The page of a member edits that member (MemberEditPage.vue).
THEOREM MemberPagesEditTheirs == Spec => []MemberPageEditsItsMember
<1>1. DraftInv => MemberPageEditsItsMember
  BY DEF DraftInv, SessionsFit, PageFits, MemberPageEditsItsMember
<1> QED BY <1>1, DraftInvariant, PTL

\* Both together: what an editor edits is what it was opened for and what is there.
THEOREM EditorsAlwaysKnow == Spec => []EditorsKnowTheirDraft
<1> QED BY BasesTellDocument, MemberPagesEditTheirs, PTL DEF EditorsKnowTheirDraft

\* Only the transaction of a save makes it saved.
LEMMA OnlySaveDraftSaves ==
    ASSUME TypeOK, [Next]_vars, NEW k \in Save, Accepts(k)
    PROVE  SaveDraft(k) /\ VersionMatches(k)
<1>1. saves[k].stage = "sent" /\ saves'[k].stage = "saved"
  BY DEF Accepts
<1>2. saves \in [Save -> Sent \cup Answered \cup Refused \cup Over]
  BY DEF TypeOK
<1>3. ASSUME NEW j \in Save, NEW save, save.stage # "saved",
             saves' = [saves EXCEPT ![j] = save]
      PROVE  FALSE
  BY <1>1, <1>2, <1>3
<1>4. CASE saves' = saves
  BY <1>1, <1>4
<1>5. ASSUME NEW j \in Save, SaveDraft(j)
      PROVE  SaveDraft(k) /\ VersionMatches(k)
  <2>1. CASE ~VersionMatches(j)
    BY <1>3, <1>5, <2>1 DEF SaveDraft, Refuse
  <2>2. CASE VersionMatches(j)
    <3>1. j = k
      BY <1>1, <1>2, <1>5, <2>2 DEF SaveDraft
    <3> QED BY <1>5, <2>2, <3>1
  <2> QED BY <2>1, <2>2
<1>6. ASSUME NEW j \in Save, AnswerSave(j) \/ SaveFails(j) \/ Applied(j) \/ NotApplied(j)
      PROVE  FALSE
  BY <1>3, <1>6 DEF AnswerSave, SaveFails, Refuse, Applied, NotApplied, Settled
<1>7. ASSUME NEW c \in Client, Apply(c)
      PROVE  FALSE
  BY <1>3, <1>7 DEF Apply
<1> QED
  BY <1>4, <1>5, <1>6, <1>7
  DEF Next, vars, Publish, Leave, Discard, ReadVersion, ReadDocument, Open, Edit

\* An accepted save changes what its editor edited and nothing else, whatever the
\* other editors saved meanwhile (applyIntent, SaveOperationDraft).
THEOREM SavesTouchTheirTarget == Spec => SaveTouchesItsTarget
<1>1. ASSUME DraftInv, [Next]_vars
      PROVE  [\A k \in Save : Accepts(k) /\ ~saves[k].borrowed =>
                TouchesOnly(saves[k].target.slots, server.document, server'.document)]_vars
  <2> SUFFICES ASSUME NEW k \in Save, Accepts(k), ~saves[k].borrowed
               PROVE  TouchesOnly(saves[k].target.slots, server.document, server'.document)
    OBVIOUS
  <2> DEFINE slots == saves[k].target.slots
  <2>1. SaveDraft(k) /\ VersionMatches(k)
    BY <1>1, OnlySaveDraftSaves DEF DraftInv
  <2>2. /\ saves[k].stage = "sent" /\ saves[k].version = server.version
        /\ server'.document = saves[k].document
    BY <2>1 DEF SaveDraft, VersionMatches
  <2>3. \A s \in Slot \ slots : server'.document[s] = server.document[s]
    BY <1>1, <2>2 DEF DraftInv, Told, SaveTells
  <2>4. ASSUME NEW m \in Member \ slots,
               Effective(server'.document, m) # Effective(server.document, m)
        PROVE  server.document[m] = Inherit /\ Common \in slots
    <3>1. server'.document[m] = server.document[m]
      BY <2>3 DEF Slot
    <3>2. /\ server.document[m] = Inherit
          /\ server'.document[Common] # server.document[Common]
      BY <2>4, <3>1 DEF Effective
    <3> QED BY <2>3, <3>2 DEF Slot
  <2> QED BY <2>3, <2>4 DEF TouchesOnly
<1> QED BY <1>1, DraftInvariant, PTL DEF Spec, SaveTouchesItsTarget

-----------------------------------------------------------------------------
(* Sets with one member, and first members.                                *)

\* A set of natural numbers has a least member.
LEMMA LeastIs ==
    ASSUME NEW S \in SUBSET Nat, S # {}
    PROVE  \E n \in S : \A k \in S : n <= k
<1>1. PICK n \in S : \A k \in S : ~(<<k, n>> \in OpToRel(<, Nat))
    BY NatLessThanWellFounded, WFMin
<1>2. \A k \in S : ~(k < n)
    BY <1>1 DEF OpToRel
<1>3. \A k \in S : n <= k
    BY <1>2
<1> QED BY <1>3

\* A set that has no two members holds one at most (len(sources) > 1).
LEMMA OneMember ==
    ASSUME NEW S, IsFiniteSet(S), ~(Cardinality(S) > 1), NEW x \in S, NEW y \in S
    PROVE  x = y
<1>1. IsFiniteSet({x, y}) /\ {x, y} \subseteq S
    BY FS_EmptySet, FS_AddElement, FS_Subset
<1>2. Cardinality({x, y}) <= Cardinality(S)
    BY <1>1, FS_Subset
<1>3. ASSUME x # y PROVE Cardinality({x, y}) = 2
    <2>1. Cardinality({x}) = 1 /\ IsFiniteSet({x})
        BY FS_Singleton
    <2>2. Cardinality({x} \cup {y}) = 2
        BY <1>3, <2>1, FS_AddElement
    <2>3. {x} \cup {y} = {x, y}
        OBVIOUS
    <2> QED BY <2>2, <2>3
<1>4. Cardinality(S) \in Nat
    BY FS_CardinalityType
<1> QED BY <1>2, <1>3, <1>4

\* A finite family has finitely many values, and as many as members when it tells them apart.
LEMMA ValuesAre ==
    ASSUME NEW S, IsFiniteSet(S), NEW f, DOMAIN f = S, f = [x \in S |-> f[x]]
    PROVE  LET T == {f[x] : x \in S}
           IN  /\ IsFiniteSet(T)
               /\ (\A x, y \in S : f[x] = f[y] => x = y) => Cardinality(T) = Cardinality(S)
<1> DEFINE T == {f[x] : x \in S}
<1>1. f \in Surjection(S, T)
    BY DEF Surjection
<1>2. (\A x, y \in S : f[x] = f[y] => x = y) => f \in Injection(S, T)
    BY DEF Injection, IsInjective
<1> HIDE DEF T
<1>3. IsFiniteSet(T) /\ (Cardinality(T) = Cardinality(S) <=> f \in Injection(S, T))
    BY <1>1, FS_Surjection
<1> QED BY <1>2, <1>3 DEF T

\* A member of a set that has one.
LEMMA OnlyIs ==
    ASSUME NEW S, S # {}
    PROVE  Only(S) \in S
BY DEF Only

\* A component is blocked for a reason that one of its stems has.
LEMMA FirstReasonIs ==
    ASSUME NEW reasons, DOMAIN reasons \subseteq Nat
    PROVE  /\ FirstReason(reasons) = "ok" <=> \A k \in DOMAIN reasons : reasons[k] = "ok"
<1> DEFINE bad == {k \in DOMAIN reasons : reasons[k] # "ok"}
<1>1. CASE bad = {}
    BY <1>1 DEF FirstReason
<1>2. CASE bad # {}
    <2>1. \E n \in bad : \A k \in bad : n <= k
        BY <1>2, LeastIs
    <2> DEFINE least == CHOOSE n \in bad : \A k \in bad : n <= k
    <2>2. least \in bad
        <3> HIDE DEF bad
        <3> QED BY <2>1
    <2>3. FirstReason(reasons) = reasons[least]
        BY <1>2 DEF FirstReason
    <2> HIDE DEF least
    <2> QED BY <2>2, <2>3
<1> QED BY <1>1, <1>2

\* The first file in the order a stem lists them in is one of them.
LEMMA FirstIs ==
    ASSUME NEW S \in SUBSET Path, S # {}
    PROVE  First(S) \in S
<1> DEFINE Dirs == {p.dir : p \in S}
<1>1. Dirs \in SUBSET Nat /\ Dirs # {}
    BY DEF Path
<1>2. PICK d \in Dirs : \A e \in Dirs : d <= e
    <2> HIDE DEF Dirs
    <2> QED BY <1>1, LeastIs
<1> DEFINE There == {p.name : p \in {q \in S : q.dir = d}}
<1>3. There \in SUBSET Nat /\ There # {}
    BY <1>2, PlannerAssumption DEF Path
<1>4. PICK n \in There : \A m \in There : n <= m
    <2> HIDE DEF There
    <2> QED BY <1>3, LeastIs
<1>5. PICK p \in S : p.dir = d /\ p.name = n
    BY <1>4
<1>6. \A q \in S : Before(p, q)
    <2> SUFFICES ASSUME NEW q \in S PROVE Before(p, q)
        OBVIOUS
    <2>1. d <= q.dir /\ d \in Nat /\ q.dir \in Nat
        BY <1>1, <1>2
    <2>2. q.dir = d => n <= q.name
        BY <1>4
    <2> QED BY <1>5, <2>1, <2>2 DEF Before
<1> QED BY <1>6 DEF First

-----------------------------------------------------------------------------
(* Files and their doubles.                                                *)

\* Files that differ in their extension only.
Twin(p, q) == p.dir = q.dir /\ p.name = q.name

\* The path beside a file, at the canonical extension of a codec (sameStemPath).
LEMMA BesideIs ==
    ASSUME NEW p \in Path, NEW codec \in LosslessCodecs \cup {"mp3", "aac", "opus"}
    PROVE  LET t == sameStemPath(p, codec)
           IN  t \in Path /\ Twin(t, p) /\ t.ext = ExtForCodec(codec) /\ Codec(t) = codec
BY DEF sameStemPath, Path, Twin, ExtForCodec, Codec, codecByExt, LosslessCodecs

\* Files that differ in their extension only are linked when no tag tells them apart.
LEMMA TwinsAreLinked ==
    ASSUME StemsWhole, NEW p \in Path, NEW q \in Path, Twin(p, q)
    PROVE  /\ Matched(p) = Matched(q) /\ Linked(p, q)
           /\ \A r : (Linked(p, r) <=> Linked(q, r)) /\ (Linked(r, p) <=> Linked(r, q))
BY DEF StemsWhole, Twin, Matched, Linked
-----------------------------------------------------------------------------
(* Components.                                                             *)

\* Links go both ways.
LEMMA LinkedBothWays ==
    ASSUME NEW p, NEW q, Linked(p, q)
    PROVE  Linked(q, p)
BY DEF Linked

\* A component holds its file, and nothing outside it is linked to any of its files.
LEMMA ComponentHolds ==
    ASSUME NEW S, NEW p \in S
    PROVE  LET C == Component(S, p)
           IN  /\ C \subseteq S /\ p \in C /\ Closed(C, S)
               /\ \A B \in SUBSET S : p \in B /\ Closed(B, S) => C \subseteq B
               /\ \A q \in C : Matched(q) = Matched(p)
<1> DEFINE C == Component(S, p)
<1>1. C \subseteq S /\ p \in C /\ \A B \in SUBSET S : p \in B /\ Closed(B, S) => C \subseteq B
    BY DEF Component
<1>2. Closed(C, S)
    <2> SUFFICES ASSUME NEW r \in C, NEW q \in S, Linked(q, r), NEW B \in SUBSET S, p \in B, Closed(B, S)
                 PROVE  q \in B
        BY DEF Closed, Component
    <2>1. r \in B
        BY DEF Component
    <2> QED BY <2>1 DEF Closed
<1>3. ASSUME NEW q \in C PROVE Matched(q) = Matched(p)
    <2> DEFINE B == {r \in S : Matched(r) = Matched(p)}
    <2>1. B \in SUBSET S /\ p \in B
        OBVIOUS
    <2>2. Closed(B, S)
        BY DEF Closed, Linked
    <2>3. q \in B
        BY <1>1, <1>3, <2>1, <2>2
    <2> QED BY <2>3
<1> QED BY <1>1, <1>2, <1>3

\* Components that share a file are the same (BuildComponents).
LEMMA ComponentsApart ==
    ASSUME NEW S, NEW p \in S, NEW q \in Component(S, p)
    PROVE  Component(S, q) = Component(S, p)
<1> DEFINE C == Component(S, p)
           D == Component(S, q)
<1>1. /\ C \subseteq S /\ p \in C /\ Closed(C, S) /\ q \in S
      /\ \A B \in SUBSET S : p \in B /\ Closed(B, S) => C \subseteq B
    BY ComponentHolds
<1>2. /\ D \subseteq S /\ q \in D /\ Closed(D, S)
      /\ \A B \in SUBSET S : q \in B /\ Closed(B, S) => D \subseteq B
    BY <1>1, ComponentHolds
<1> HIDE DEF C, D
<1>3. D \subseteq C
    BY <1>1, <1>2 DEF C
<1>4. p \in D
    <2> SUFFICES ASSUME p \notin D PROVE FALSE
        OBVIOUS
    <2>1. Closed(S \ D, S)
        <3> SUFFICES ASSUME NEW r \in S \ D, NEW x \in D, Linked(x, r) PROVE FALSE
            BY DEF Closed
        <3>1. Linked(r, x)
            BY LinkedBothWays
        <3> QED BY <1>2, <3>1 DEF Closed
    <2>2. C \subseteq S \ D
        BY <1>1, <2>1
    <2> QED BY <1>2, <2>2 DEF C
<1>5. C \subseteq D
    BY <1>1, <1>2, <1>4
<1> QED BY <1>3, <1>5 DEF C, D

-----------------------------------------------------------------------------
(* The plan of one stem.                                                   *)

\* An output of a stem: a double of one of its files, of a declared codec.
OutputOf(t, G, profile) ==
    /\ t \in Path /\ \E q \in G : Twin(t, q)
    /\ \/ profile.lossless # NoSpec /\ Codec(t) = profile.lossless /\ t \notin G
       \/ profile.encoded # NoSpec /\ Codec(t) = profile.encoded.codec

\* What the planner leaves: S holds what is declared, every file of it that is not
\* one of the targets T satisfies the profile by the facts of inv.
ShapedBy(inv, S, profile, T) ==
    /\ profile.lossless # NoSpec => OfCodec(S, profile.lossless) # {}
    /\ Lossless(S) = declaredLossless(S, profile)
    /\ profile.encoded # NoSpec => EncodedTarget(S, profile) # {}
    /\ \A p \in S \ Lossless(S) :
         /\ profile.encoded # NoSpec /\ Codec(p) = profile.encoded.codec
         /\ p \notin T => satisfiedEncoded(p, inv[p], profile.encoded)

\* A target has the extension of its codec; the strict table also rebuilds a variant
\* in place.
Spelled(t, G) == t.ext = ExtForCodec(Codec(t)) \/ (scene.mode = "strict" /\ t \in G)

\* The encodes of a group of files: from its lossless files, each to a place of its
\* own that no file outside the group holds.
EncodesOf(inv, G, profile, E) ==
    /\ IsFiniteSet(E)
    /\ \A op \in E : /\ op = Encode(op.src, op.dst) /\ op.src \in Lossless(G)
                     /\ OutputOf(op.dst, G, profile)
                     /\ op.dst \in DOMAIN inv => op.dst \in G \/ Codec(op.dst) \in LosslessCodecs
                     /\ Spelled(op.dst, G)
    /\ \A o1, o2 \in E : o1.dst = o2.dst => o1 = o2

\* The encodes E, the removals R and the kept files K of a stem add up to its shape.
StemPlan(inv, G, profile, E, R, K) ==
    /\ EncodesOf(inv, G, profile, E)
    /\ R \subseteq G /\ K \subseteq G /\ G \subseteq R \cup K \cup Targets(E)
    /\ R \cap (K \cup Targets(E)) = {}
    /\ ShapedBy(inv, K \cup Targets(E), profile, Targets(E))

\* What a profile declares.
LEMMA ProfileIs ==
    ASSUME NEW profile \in Profile
    PROVE  /\ profile.lossless = NoSpec \/ profile.lossless \in LosslessCodecs
           /\ profile.encoded # NoSpec =>
                /\ profile.encoded \in EncodedSpec /\ profile.encoded.kbps \in Nat
                /\ profile.encoded.codec \in {"mp3", "aac", "opus"}
                /\ profile.encoded.codec \notin LosslessCodecs
BY DEF Profile, EncodedSpec, LosslessCodecs

\* The sources of a stem are lossless files of it, and there are some if it has any.
LEMMA SourcesAre ==
    ASSUME NEW G, NEW profile \in Profile
    PROVE  /\ qualifiedSources(G, profile) \subseteq Lossless(G)
           /\ Lossless(G) # {} => qualifiedSources(G, profile) # {}
           /\ declaredLossless(G, profile) \subseteq Lossless(G)
           /\ declaredLossless(G, profile) # {} =>
                qualifiedSources(G, profile) = declaredLossless(G, profile)
           /\ Lossless(G) \subseteq G
BY ProfileIs DEF qualifiedSources, declaredLossless, Lossless, OfCodec, LosslessCodecs

\* The targets of encodes.
LEMMA TargetsIs ==
    ASSUME NEW E, \A op \in E : op = Encode(op.src, op.dst)
    PROVE  Targets(E) = {op.dst : op \in E}
<1>1. \A op \in E : op.kind = "ENCODE"
    BY DEF Encode
<1> QED BY <1>1 DEF Targets

\* An encode to a place beside a file of the stem.
LEMMA EncodeBeside ==
    ASSUME NEW inv, IsInventory(inv), NEW G, G \subseteq DOMAIN inv, NEW profile \in Profile,
           NEW src \in Lossless(G), NEW q \in G, NEW codec,
           \/ profile.lossless # NoSpec /\ codec = profile.lossless /\ OfCodec(G, codec) = {}
           \/ profile.encoded # NoSpec /\ codec = profile.encoded.codec
    PROVE  LET op == Encode(src, sameStemPath(q, codec))
           IN  /\ op = Encode(op.src, op.dst) /\ op.src = src
               /\ OutputOf(op.dst, G, profile)
               /\ op.dst.ext = ExtForCodec(Codec(op.dst)) /\ Codec(op.dst) = codec
<1> DEFINE t == sameStemPath(q, codec)
<1>1. q \in Path
    BY DEF IsInventory
<1>2. codec \in LosslessCodecs \cup {"mp3", "aac", "opus"}
    BY ProfileIs
<1>3. t \in Path /\ Twin(t, q) /\ t.ext = ExtForCodec(codec) /\ Codec(t) = codec
    BY <1>1, <1>2, BesideIs
<1> HIDE DEF t
<1>4. OfCodec(G, codec) = {} => t \notin G
    BY <1>3 DEF OfCodec
<1>5. OutputOf(t, G, profile)
    BY <1>3, <1>4 DEF OutputOf
<1> QED BY <1>3, <1>5 DEF Encode, t

\* A stem that lacks nothing has nothing to build.
LEMMA NoEncodes ==
    ASSUME NEW inv, NEW G, NEW profile
    PROVE  EncodesOf(inv, G, profile, {}) /\ Targets({}) = {}
BY FS_EmptySet DEF EncodesOf, Targets

-----------------------------------------------------------------------------
(* The strict table, stem by stem.                                         *)

\* The encodes, the removals and the kept files of a stem under the strict table.
StrictEncodes(G, profile, rebuild) ==
    {Encode(p, sameStemPath(p, profile.lossless)) : p \in losslessEncodeSrc(G, profile)}
    \cup
    (IF rebuild THEN {Encode(Only(qualifiedSources(G, profile)), encodedTargetPath(G, profile))}
     ELSE {})
StrictRemoves(inv, G, profile, rebuild) ==
    losslessObsolete(G, profile) \cup encodedObsolete(inv, G, profile, rebuild)
StrictKept(inv, G, profile, rebuild) ==
    declaredLossless(G, profile) \cup (IF rebuild THEN {} ELSE declaredEncoded(inv, G, profile))

\* Where the encoded lane of a stem is rebuilt.
LEMMA RebuiltAt ==
    ASSUME NEW inv, IsInventory(inv), NEW C, C \subseteq DOMAIN inv, NEW k, NEW profile \in Profile,
           profile.encoded # NoSpec,
           RebuildReason(inv, C, StemGroup(C, k), profile) = "ok"
    PROVE  LET G == StemGroup(C, k)
               src == Only(qualifiedSources(G, profile))
               t == encodedTargetPath(G, profile)
           IN  /\ src \in Lossless(G) /\ Codec(t) = profile.encoded.codec
               /\ OutputOf(t, G, profile)
               /\ t \in DOMAIN inv => t \in G
               /\ t \in G \/ t.ext = ExtForCodec(Codec(t))
               /\ EncodedTarget(G, profile) \subseteq {t}
<1> DEFINE G == StemGroup(C, k)
           sources == qualifiedSources(G, profile)
           variants == EncodedTarget(G, profile)
           src == Only(sources)
           t == encodedTargetPath(G, profile)
<1>1. /\ sources # {} /\ ~(Cardinality(variants) > 1)
      /\ encodedTargetPath(G, profile) \notin DOMAIN inv \ C
    BY DEF RebuildReason
<1>2. src \in sources /\ src \in Lossless(G) /\ src \in G
    BY <1>1, OnlyIs, SourcesAre
<1>3. G \subseteq C /\ IsFiniteSet(G) /\ G \subseteq Path /\ \A p \in G : Key(p.name) = k
    BY FS_Subset DEF StemGroup, IsInventory
<1>4. variants \subseteq G /\ IsFiniteSet(variants) /\ \A p \in variants : Codec(p) = profile.encoded.codec
    BY <1>3, FS_Subset DEF EncodedTarget, OfCodec
<1>5. CASE variants # {}
    <2>1. t \in variants /\ t = Only(variants)
        BY <1>5, OnlyIs DEF encodedTargetPath
    <2>2. variants \subseteq {t}
        <3> HIDE DEF variants, t
        <3> QED BY <1>1, <1>4, <2>1, OneMember
    <2>3. OutputOf(t, G, profile)
        BY <1>3, <1>4, <2>1 DEF OutputOf, Twin
    <2> QED BY <1>2, <1>4, <2>1, <2>2, <2>3
<1>6. CASE variants = {}
    <2>1. t = sameStemPath(src, profile.encoded.codec)
        BY <1>6 DEF encodedTargetPath
    <2>2. OutputOf(t, G, profile) /\ t.ext = ExtForCodec(Codec(t)) /\ Codec(t) = profile.encoded.codec
        BY <1>2, <1>3, <2>1, EncodeBeside DEF Encode
    <2>3. Key(t.name) = k
        <3>1. Twin(t, src)
            BY <1>2, <1>3, <2>1, BesideIs, ProfileIs
        <3> QED BY <1>2, <1>3, <3>1 DEF Twin
    <2>4. t \in C => t \in G
        BY <2>3 DEF StemGroup
    <2> QED BY <1>1, <1>2, <1>6, <2>2, <2>4
<1> QED BY <1>5, <1>6

\* Where the lossless lane of a stem is built.
LEMMA LosslessAt ==
    ASSUME NEW inv, IsInventory(inv), NEW G, G \subseteq DOMAIN inv, NEW profile \in Profile,
           profile.lossless # NoSpec => Lossless(G) # {}
    PROVE  \/ /\ losslessEncodeSrc(G, profile) = {}
              /\ profile.lossless # NoSpec => declaredLossless(G, profile) # {}
           \/ /\ profile.lossless # NoSpec /\ declaredLossless(G, profile) = {}
              /\ OfCodec(G, profile.lossless) = {}
              /\ \E p \in Lossless(G) : losslessEncodeSrc(G, profile) = {p}
<1> SUFFICES ASSUME profile.lossless # NoSpec, declaredLossless(G, profile) = {}
             PROVE  /\ OfCodec(G, profile.lossless) = {}
                    /\ \E p \in Lossless(G) : losslessEncodeSrc(G, profile) = {p}
    BY DEF losslessEncodeSrc
<1>1. OfCodec(G, profile.lossless) = {}
    BY DEF declaredLossless
<1>2. qualifiedSources(G, profile) # {} /\ qualifiedSources(G, profile) \subseteq Lossless(G)
    BY SourcesAre
<1>3. First(qualifiedSources(G, profile)) \in qualifiedSources(G, profile)
    <2>1. qualifiedSources(G, profile) \in SUBSET Path
        BY <1>2, SourcesAre DEF IsInventory
    <2> QED BY <1>2, <2>1, FirstIs
<1> QED BY <1>1, <1>2, <1>3 DEF losslessEncodeSrc

\* What the strict table asks of a stem before it plans it.
StrictOK(inv, C, k, profile, rebuild) ==
    LET G == StemGroup(C, k)
    IN  /\ profile.lossless # NoSpec => Lossless(G) # {}
        /\ rebuild => profile.encoded # NoSpec /\ RebuildReason(inv, C, G, profile) = "ok"
        /\ ~rebuild => ~encodedNeedsRebuild(inv, G, profile)

\* The strict table plans one encode for each output, to a place nobody holds.
LEMMA StrictEncodesAre ==
    ASSUME NEW inv, IsInventory(inv), NEW C, C \subseteq DOMAIN inv, NEW k, NEW profile \in Profile,
           NEW rebuild \in BOOLEAN, StrictOK(inv, C, k, profile, rebuild), scene.mode = "strict"
    PROVE  LET G == StemGroup(C, k)
               E == StrictEncodes(G, profile, rebuild)
           IN  /\ EncodesOf(inv, G, profile, E)
               /\ \A t \in Targets(E) :
                    \/ Codec(t) \in LosslessCodecs /\ Codec(t) = profile.lossless /\ t \notin G
                       /\ profile.lossless # NoSpec
                    \/ rebuild /\ t = encodedTargetPath(G, profile)
               /\ profile.lossless # NoSpec /\ declaredLossless(G, profile) = {} =>
                    \E t \in Targets(E) : Codec(t) = profile.lossless
               /\ rebuild => encodedTargetPath(G, profile) \in Targets(E)
<1> DEFINE G == StemGroup(C, k)
           E == StrictEncodes(G, profile, rebuild)
           L == {Encode(p, sameStemPath(p, profile.lossless)) : p \in losslessEncodeSrc(G, profile)}
           R == IF rebuild THEN {Encode(Only(qualifiedSources(G, profile)), encodedTargetPath(G, profile))}
                ELSE {}
           Fine(op) == /\ op = Encode(op.src, op.dst) /\ op.src \in Lossless(G)
                       /\ OutputOf(op.dst, G, profile)
                       /\ op.dst \in DOMAIN inv => op.dst \in G \/ Codec(op.dst) \in LosslessCodecs
                       /\ Spelled(op.dst, G)
<1>1. E = L \cup R
    BY DEF StrictEncodes
<1>2. G \subseteq DOMAIN inv /\ Lossless(G) \subseteq G
    BY DEF StemGroup, Lossless
<1>3. \/ /\ L = {} /\ (profile.lossless # NoSpec => declaredLossless(G, profile) # {})
      \/ /\ profile.lossless # NoSpec /\ declaredLossless(G, profile) = {}
         /\ \E op : /\ L = {op} /\ Fine(op) /\ Codec(op.dst) = profile.lossless
                    /\ op.dst \notin G
    <2>1. profile.lossless # NoSpec => Lossless(G) # {}
        BY DEF StrictOK
    <2>2. CASE losslessEncodeSrc(G, profile) = {}
        BY <1>2, <2>1, <2>2, LosslessAt
    <2>3. CASE losslessEncodeSrc(G, profile) # {}
        <3>1. /\ profile.lossless # NoSpec /\ declaredLossless(G, profile) = {}
              /\ OfCodec(G, profile.lossless) = {}
            BY <1>2, <2>1, <2>3, LosslessAt
        <3>2. PICK p \in Lossless(G) : losslessEncodeSrc(G, profile) = {p}
            BY <1>2, <2>1, <2>3, LosslessAt
        <3> DEFINE op == Encode(p, sameStemPath(p, profile.lossless))
        <3>3. L = {op}
            BY <3>2
        <3>4. /\ op = Encode(op.src, op.dst) /\ op.src = p /\ OutputOf(op.dst, G, profile)
              /\ op.dst.ext = ExtForCodec(Codec(op.dst)) /\ Codec(op.dst) = profile.lossless
            <4>1. p \in G
                BY <1>2, <3>2
            <4> QED BY <1>2, <3>1, <4>1, EncodeBeside
        <3>5. op.dst \notin G
            BY <3>1, <3>4 DEF OfCodec
        <3>6. profile.lossless \in LosslessCodecs
            BY <3>1, ProfileIs
        <3> QED BY <3>1, <3>3, <3>4, <3>5, <3>6 DEF Spelled
    <2> QED BY <2>2, <2>3
<1>4. \/ ~rebuild /\ R = {}
      \/ /\ rebuild
         /\ \E op : /\ R = {op} /\ Fine(op) /\ Codec(op.dst) = profile.encoded.codec
                    /\ op.dst = encodedTargetPath(G, profile)
                    /\ Codec(op.dst) \notin LosslessCodecs
    <2>1. CASE rebuild
        <3> DEFINE src == Only(qualifiedSources(G, profile))
                   t == encodedTargetPath(G, profile)
                   op == Encode(src, t)
        <3>1. profile.encoded # NoSpec /\ RebuildReason(inv, C, G, profile) = "ok"
            BY <2>1 DEF StrictOK
        <3>2. /\ src \in Lossless(G) /\ Codec(t) = profile.encoded.codec
              /\ OutputOf(t, G, profile) /\ (t \in DOMAIN inv => t \in G)
              /\ t \in G \/ t.ext = ExtForCodec(Codec(t))
            BY <3>1, RebuiltAt
        <3>3. op = Encode(op.src, op.dst) /\ op.src = src /\ op.dst = t
            BY DEF Encode
        <3>4. R = {op}
            BY <2>1
        <3>5. Codec(t) \notin LosslessCodecs
            BY <3>1, <3>2, ProfileIs
        <3> QED BY <2>1, <3>2, <3>3, <3>4, <3>5 DEF Spelled
    <2>2. CASE ~rebuild
        BY <2>2
    <2> QED BY <2>1, <2>2
<1> HIDE DEF L, R
<1>5. \A op \in E : Fine(op)
    BY <1>1, <1>3, <1>4
<1>6. IsFiniteSet(E)
    <2>1. IsFiniteSet(L) /\ IsFiniteSet(R)
        <3>1. IsFiniteSet({}) /\ \A op : IsFiniteSet({op})
            BY FS_EmptySet, FS_Singleton
        <3>2. L = {} \/ \E op : L = {op}
            BY <1>3
        <3>3. R = {} \/ \E op : R = {op}
            BY <1>4
        <3>4. IsFiniteSet(L)
            BY <3>1, <3>2
        <3>5. IsFiniteSet(R)
            BY <3>1, <3>3
        <3> QED BY <3>4, <3>5
    <2> QED BY <1>1, <2>1, FS_Union
<1>7. \A o1, o2 \in E : o1.dst = o2.dst => o1 = o2
    BY <1>1, <1>3, <1>4, ProfileIs
<1>8. EncodesOf(inv, G, profile, E)
    BY <1>5, <1>6, <1>7 DEF EncodesOf
<1>9. Targets(E) = {op.dst : op \in E}
    BY <1>5, TargetsIs
<1> HIDE DEF E, G, Fine
<1>10. \A t \in Targets(E) :
         \/ Codec(t) \in LosslessCodecs /\ Codec(t) = profile.lossless /\ t \notin G
            /\ profile.lossless # NoSpec
         \/ rebuild /\ t = encodedTargetPath(G, profile)
    BY <1>1, <1>3, <1>4, <1>9, ProfileIs
<1>11. profile.lossless # NoSpec /\ declaredLossless(G, profile) = {} =>
         \E t \in Targets(E) : Codec(t) = profile.lossless
    BY <1>1, <1>3, <1>9
<1>12. rebuild => encodedTargetPath(G, profile) \in Targets(E)
    BY <1>1, <1>4, <1>9
<1> QED BY <1>8, <1>10, <1>11, <1>12 DEF E, G

\* The strict table brings a stem to its shape.
LEMMA StrictStem ==
    ASSUME NEW inv, IsInventory(inv), NEW C, C \subseteq DOMAIN inv, NEW k, NEW profile \in Profile,
           NEW rebuild \in BOOLEAN, StrictOK(inv, C, k, profile, rebuild), scene.mode = "strict"
    PROVE  LET G == StemGroup(C, k)
           IN  StemPlan(inv, G, profile, StrictEncodes(G, profile, rebuild),
                        StrictRemoves(inv, G, profile, rebuild), StrictKept(inv, G, profile, rebuild))
<1> DEFINE G == StemGroup(C, k)
           E == StrictEncodes(G, profile, rebuild)
           R == StrictRemoves(inv, G, profile, rebuild)
           K == StrictKept(inv, G, profile, rebuild)
           T == Targets(E)
           S == K \cup T
           at == encodedTargetPath(G, profile)
<1>1. /\ EncodesOf(inv, G, profile, E)
      /\ \A t \in T : \/ Codec(t) \in LosslessCodecs /\ Codec(t) = profile.lossless /\ t \notin G
                         /\ profile.lossless # NoSpec
                      \/ rebuild /\ t = at
      /\ profile.lossless # NoSpec /\ declaredLossless(G, profile) = {} =>
           \E t \in T : Codec(t) = profile.lossless
      /\ rebuild => at \in T
    BY StrictEncodesAre
<1>2. /\ declaredLossless(G, profile) \subseteq Lossless(G) /\ Lossless(G) \subseteq G
      /\ declaredEncoded(inv, G, profile) \subseteq EncodedTarget(G, profile)
      /\ EncodedTarget(G, profile) \subseteq G
      /\ \A p \in declaredEncoded(inv, G, profile) : Codec(p) \notin LosslessCodecs
      /\ \A p \in Lossless(G) : Codec(p) \in LosslessCodecs
      /\ \A p \in G : Codec(p) \in LosslessCodecs => p \in Lossless(G)
      /\ \A p \in declaredLossless(G, profile) : profile.lossless # NoSpec /\ Codec(p) = profile.lossless
    BY ProfileIs DEF declaredLossless, Lossless, OfCodec, EncodedTarget, declaredEncoded, LosslessCodecs
<1>3. rebuild => /\ profile.encoded # NoSpec /\ Codec(at) = profile.encoded.codec
                 /\ Codec(at) \notin LosslessCodecs
                 /\ EncodedTarget(G, profile) \subseteq {at}
    BY RebuiltAt, ProfileIs DEF StrictOK
<1>4. ~rebuild /\ profile.encoded # NoSpec =>
        /\ EncodedTarget(G, profile) # {}
        /\ declaredEncoded(inv, G, profile) = EncodedTarget(G, profile)
    BY DEF StrictOK, encodedNeedsRebuild
<1>5. /\ R = losslessObsolete(G, profile) \cup encodedObsolete(inv, G, profile, rebuild)
      /\ K = declaredLossless(G, profile) \cup (IF rebuild THEN {} ELSE declaredEncoded(inv, G, profile))
    BY DEF StrictRemoves, StrictKept
<1>6. /\ losslessObsolete(G, profile) = Lossless(G) \ declaredLossless(G, profile)
      /\ profile.encoded = NoSpec => encodedObsolete(inv, G, profile, rebuild) = G \ Lossless(G)
      /\ rebuild => encodedObsolete(inv, G, profile, rebuild) = (G \ Lossless(G)) \ {at}
      /\ profile.encoded # NoSpec /\ ~rebuild =>
           encodedObsolete(inv, G, profile, rebuild) = (G \ Lossless(G)) \ declaredEncoded(inv, G, profile)
    BY <1>3 DEF losslessObsolete, encodedObsolete
<1> DEFINE LG == Lossless(G)
           DL == declaredLossless(G, profile)
           DE == declaredEncoded(inv, G, profile)
           ET == EncodedTarget(G, profile)
<1>7. profile.encoded = NoSpec => ET = {}
    BY DEF EncodedTarget
<1> HIDE DEF G, E, R, K, T, at, LG, DL, DE, ET
<1>8. R \subseteq G /\ K \subseteq G /\ G \subseteq R \cup K \cup T
    BY <1>1, <1>2, <1>3, <1>4, <1>5, <1>6, <1>7 DEF LG, DL, DE, ET
<1>9. R \cap (K \cup T) = {}
    BY <1>1, <1>2, <1>3, <1>4, <1>5, <1>6, <1>7 DEF LG, DL, DE, ET
<1>10. Lossless(S) = declaredLossless(S, profile)
    <2>1. \A p \in S : Codec(p) \in LosslessCodecs => profile.lossless # NoSpec /\ Codec(p) = profile.lossless
        BY <1>1, <1>2, <1>3, <1>5
    <2>2. profile.lossless # NoSpec => profile.lossless \in LosslessCodecs
        BY ProfileIs
    <2> QED BY <2>1, <2>2 DEF Lossless, declaredLossless, OfCodec
<1>11. profile.lossless # NoSpec => OfCodec(S, profile.lossless) # {}
    BY <1>1, <1>2, <1>5 DEF OfCodec
<1>12. profile.encoded # NoSpec => EncodedTarget(S, profile) # {}
    BY <1>1, <1>2, <1>3, <1>4, <1>5 DEF OfCodec, EncodedTarget
<1>13. ASSUME NEW p \in S \ Lossless(S)
       PROVE  /\ profile.encoded # NoSpec /\ Codec(p) = profile.encoded.codec
              /\ p \notin T => satisfiedEncoded(p, inv[p], profile.encoded)
    <2>1. Codec(p) \notin LosslessCodecs
        BY <1>13 DEF Lossless
    <2>2. p \in DE \/ (rebuild /\ p = at /\ p \in T)
        <3>1. CASE p \in K
            BY <1>2, <1>5, <2>1, <3>1 DEF DE
        <3>2. CASE p \in T
            BY <1>1, <2>1, <3>2
        <3> QED BY <1>13, <3>1, <3>2
    <2>3. CASE p \in DE
        BY <2>3 DEF DE, declaredEncoded, EncodedTarget, OfCodec
    <2> QED BY <1>3, <2>2, <2>3
<1>14. ShapedBy(inv, S, profile, T)
    BY <1>10, <1>11, <1>12, <1>13 DEF ShapedBy
<1> QED BY <1>1, <1>8, <1>9, <1>14 DEF StemPlan, G, E, R, K, T

-----------------------------------------------------------------------------
(* A component is the sum of its stems.                                    *)

\* What a family of stems adds up to.
StemsOf(f, C) == UNION {f[k] : k \in Stems(C)}

\* The outcome of a component from the encodes E, the removals R and the kept files K of its stems.
OutcomeOf(C, E, R, K, unmet) ==
    ComponentOutcome(C, "ok", StemsOf(E, C) \cup {Remove(p, Targets(StemsOf(E, C))) : p \in StemsOf(R, C)},
            StemsOf(K, C) \cup Targets(StemsOf(E, C)), unmet)

\* A component is the union of its stems.
LEMMA StemsCover ==
    ASSUME NEW C, NEW p \in C
    PROVE  Key(p.name) \in Stems(C) /\ p \in StemGroup(C, Key(p.name))
BY DEF Stems, StemGroup

\* The encodes of the stems of a component are encodes of the component.
LEMMA EncodesAdd ==
    ASSUME NEW inv, IsInventory(inv), NEW C, C \subseteq DOMAIN inv, NEW profile \in Profile, NEW E,
           \A k \in Stems(C) : EncodesOf(inv, StemGroup(C, k), profile, E[k])
    PROVE  /\ EncodesOf(inv, C, profile, StemsOf(E, C))
           /\ \A t \in Targets(StemsOf(E, C)) : Key(t.name) \in Stems(C)
           /\ \A k \in Stems(C) : {t \in Targets(StemsOf(E, C)) : Key(t.name) = k} = Targets(E[k])
<1> DEFINE all == StemsOf(E, C)
<1>1. IsFiniteSet(all)
    <2>1. IsFiniteSet(C)
        BY FS_Subset DEF IsInventory
    <2>2. IsFiniteSet(Stems(C))
        <3> DEFINE f == [p \in C |-> Key(p.name)]
        <3>1. IsFiniteSet({f[p] : p \in C})
            BY <2>1, ValuesAre
        <3>2. {f[p] : p \in C} = Stems(C)
            BY DEF Stems
        <3> QED BY <3>1, <3>2
    <2>3. IsFiniteSet({E[k] : k \in Stems(C)})
        <3> DEFINE f == [k \in Stems(C) |-> E[k]]
        <3>1. IsFiniteSet({f[k] : k \in Stems(C)})
            BY <2>2, ValuesAre
        <3>2. {f[k] : k \in Stems(C)} = {E[k] : k \in Stems(C)}
            OBVIOUS
        <3> QED BY <3>1, <3>2
    <2>4. \A S \in {E[k] : k \in Stems(C)} : IsFiniteSet(S)
        BY DEF EncodesOf
    <2> QED BY <2>3, <2>4, FS_UNION DEF StemsOf
<1>2. ASSUME NEW k \in Stems(C), NEW op \in E[k]
      PROVE  /\ op = Encode(op.src, op.dst) /\ op.src \in Lossless(C)
             /\ Key(op.dst.name) = k
             /\ OutputOf(op.dst, C, profile)
             /\ op.dst \in DOMAIN inv => op.dst \in C \/ Codec(op.dst) \in LosslessCodecs
             /\ Spelled(op.dst, C)
    <2> DEFINE G == StemGroup(C, k)
    <2>1. /\ op = Encode(op.src, op.dst) /\ op.src \in Lossless(G)
          /\ OutputOf(op.dst, G, profile)
          /\ op.dst \in DOMAIN inv => op.dst \in G \/ Codec(op.dst) \in LosslessCodecs
          /\ Spelled(op.dst, G)
        BY <1>2 DEF EncodesOf
    <2>2. G \subseteq C /\ Lossless(G) \subseteq Lossless(C) /\ \A q \in C : q \in G <=> Key(q.name) = k
        BY DEF StemGroup, Lossless
    <2>3. Key(op.dst.name) = k
        BY <2>1, <2>2 DEF OutputOf, Twin
    <2>4. OutputOf(op.dst, C, profile) /\ Spelled(op.dst, C)
        BY <2>1, <2>2, <2>3 DEF OutputOf, Spelled
    <2> QED BY <2>1, <2>2, <2>3, <2>4
<1>3. ASSUME NEW op \in all
      PROVE  /\ op = Encode(op.src, op.dst) /\ op.src \in Lossless(C)
             /\ Key(op.dst.name) \in Stems(C) /\ op \in E[Key(op.dst.name)]
             /\ OutputOf(op.dst, C, profile)
             /\ op.dst \in DOMAIN inv => op.dst \in C \/ Codec(op.dst) \in LosslessCodecs
             /\ Spelled(op.dst, C)
    <2>1. PICK k \in Stems(C) : op \in E[k]
        BY <1>3 DEF StemsOf
    <2> QED BY <1>2, <2>1
<1>4. ASSUME NEW o1 \in all, NEW o2 \in all, o1.dst = o2.dst
      PROVE  o1 = o2
    <2>1. Key(o1.dst.name) \in Stems(C) /\ o1 \in E[Key(o1.dst.name)] /\ o2 \in E[Key(o1.dst.name)]
        BY <1>3, <1>4
    <2> QED BY <1>4, <2>1 DEF EncodesOf
<1>5. EncodesOf(inv, C, profile, all)
    <2> HIDE DEF all
    <2> QED BY <1>1, <1>3, <1>4 DEF EncodesOf
<1>6. Targets(all) = {op.dst : op \in all}
    <2> HIDE DEF all
    <2> QED BY <1>3, TargetsIs
<1>7. \A t \in Targets(all) : Key(t.name) \in Stems(C)
    <2> HIDE DEF all
    <2> QED BY <1>3, <1>6
<1>8. ASSUME NEW k \in Stems(C)
      PROVE  {t \in Targets(all) : Key(t.name) = k} = Targets(E[k])
    <2>1. Targets(E[k]) = {op.dst : op \in E[k]}
        BY <1>2, TargetsIs
    <2>2. E[k] \subseteq all
        BY DEF StemsOf
    <2> HIDE DEF all
    <2>3. \A t \in Targets(all) : Key(t.name) = k => t \in Targets(E[k])
        BY <1>3, <1>6, <2>1
    <2>4. \A t \in Targets(E[k]) : t \in Targets(all) /\ Key(t.name) = k
        BY <1>2, <1>6, <2>1, <2>2
    <2> QED BY <2>3, <2>4
<1> QED BY <1>5, <1>7, <1>8

\* What the tables promise of a component they do not block: its operations take it
\* from its files to the projected ones, and every stem that is met gets its shape.
PlannedFor(inv, c, profile) ==
    LET T == Targets(c.ops) IN
    /\ IsOK(c) /\ c.files # {} /\ c.files \subseteq DOMAIN inv
    /\ EncodesOf(inv, c.files, profile, Encodes(c)) /\ Targets(Encodes(c)) = T
    /\ \A op \in c.ops \ Encodes(c) : op = Remove(op.src, T)
    /\ Removed(c) \subseteq c.files /\ Removed(c) \cap T = {}
    /\ c.projected = (c.files \ Removed(c)) \cup T
    /\ \A k \in Stems(c.files) :
         LET now == StemGroup(c.projected, k) IN
         IF k \in c.unmet
         THEN /\ now = StemGroup(c.files, k) /\ now \cap T = {} /\ Unreachable(inv, now, profile)
              /\ now \cap Removed(c) = {}
         ELSE ShapedBy(inv, now, profile, now \cap T)

\* Stems that are planned to their shape, or left alone, add up to a planned component.
LEMMA Assembled ==
    ASSUME NEW inv, IsInventory(inv), NEW C, C \subseteq DOMAIN inv, C # {}, NEW profile \in Profile,
           NEW E, NEW R, NEW K, NEW unmet,
           \A k \in Stems(C) :
               IF k \in unmet
               THEN /\ E[k] = {} /\ R[k] = {} /\ K[k] = StemGroup(C, k)
                    /\ Unreachable(inv, StemGroup(C, k), profile)
               ELSE StemPlan(inv, StemGroup(C, k), profile, E[k], R[k], K[k])
    PROVE  PlannedFor(inv, OutcomeOf(C, E, R, K, unmet), profile)
<1> DEFINE c == OutcomeOf(C, E, R, K, unmet)
           enc == StemsOf(E, C)
           rem == StemsOf(R, C)
           kept == StemsOf(K, C)
           T == Targets(enc)
<1>1. \A k \in Stems(C) : EncodesOf(inv, StemGroup(C, k), profile, E[k])
    BY NoEncodes DEF StemPlan
<1>2. /\ EncodesOf(inv, C, profile, enc)
      /\ \A t \in T : Key(t.name) \in Stems(C)
      /\ \A k \in Stems(C) : {t \in T : Key(t.name) = k} = Targets(E[k])
    BY <1>1, EncodesAdd
<1>3. /\ c.files = C /\ IsOK(c) /\ c.projected = kept \cup T /\ c.unmet = unmet
      /\ c.ops = enc \cup {Remove(p, T) : p \in rem}
    BY DEF OutcomeOf, ComponentOutcome, IsOK
<1>4. \A op \in enc : op.kind = "ENCODE"
    BY <1>2 DEF EncodesOf, Encode
<1>5. \A p \in rem : LET op == Remove(p, T) IN op.kind = "REMOVE_OBSOLETE" /\ op.src = p
    BY DEF Remove
<1> HIDE DEF c, enc, rem, kept
<1>6. Encodes(c) = enc /\ c.ops \ Encodes(c) = {Remove(p, T) : p \in rem}
    BY <1>3, <1>4, <1>5 DEF Encodes
<1>7. Removed(c) = rem
    BY <1>5, <1>6 DEF Removed
<1>8. Targets(c.ops) = T
    <2>1. {o \in c.ops : o.kind = "ENCODE"} = {o \in enc : o.kind = "ENCODE"}
        BY <1>3, <1>5
    <2> QED BY <2>1 DEF Targets
<1>9. \A op \in c.ops \ Encodes(c) : op = Remove(op.src, T)
    BY <1>5, <1>6
<1> HIDE DEF T
<1>10. ASSUME NEW k \in Stems(C)
       PROVE  LET G == StemGroup(C, k) IN
              /\ R[k] \subseteq G /\ K[k] \subseteq G /\ G \subseteq R[k] \cup K[k] \cup Targets(E[k])
              /\ R[k] \cap (K[k] \cup Targets(E[k])) = {}
    BY NoEncodes DEF StemPlan
<1>11. ASSUME NEW k \in Stems(C)
       PROVE  /\ \A p \in rem : Key(p.name) = k => p \in R[k]
              /\ \A p \in kept : Key(p.name) = k => p \in K[k]
              /\ R[k] \subseteq rem /\ K[k] \subseteq kept
    <2>1. \A l \in Stems(C) : \A p \in R[l] \cup K[l] : Key(p.name) = l
        BY <1>10 DEF StemGroup
    <2> QED BY <2>1 DEF rem, kept, StemsOf
<1>12. rem \subseteq C /\ kept \subseteq C
    BY <1>10 DEF rem, kept, StemsOf, StemGroup
<1>13. \A t \in T : \A k \in Stems(C) : t \in Targets(E[k]) <=> Key(t.name) = k
    BY <1>2
<1>14. \A k \in Stems(C) : Targets(E[k]) \subseteq T
    BY <1>2
<1>15. rem \cap (kept \cup T) = {}
    <2> SUFFICES ASSUME NEW p \in rem, p \in kept \cup T PROVE FALSE
        OBVIOUS
    <2>1. Key(p.name) \in Stems(C)
        BY <1>12, StemsCover
    <2> QED BY <1>10, <1>11, <1>13, <2>1
<1>16. C \subseteq rem \cup kept \cup T
    <2> SUFFICES ASSUME NEW p \in C PROVE p \in rem \cup kept \cup T
        OBVIOUS
    <2>1. Key(p.name) \in Stems(C) /\ p \in StemGroup(C, Key(p.name))
        BY StemsCover
    <2> QED BY <1>10, <1>11, <1>14, <2>1
<1>17. c.projected = (C \ rem) \cup T
    BY <1>3, <1>12, <1>15, <1>16
<1>18. ASSUME NEW k \in Stems(C)
       PROVE  LET now == StemGroup(c.projected, k) IN
              IF k \in unmet
              THEN /\ now = StemGroup(C, k) /\ now \cap T = {} /\ Unreachable(inv, now, profile)
                   /\ now \cap rem = {}
              ELSE ShapedBy(inv, now, profile, now \cap T)
    <2> DEFINE now == StemGroup(c.projected, k)
    <2>1. now = {p \in kept : Key(p.name) = k} \cup {t \in T : Key(t.name) = k}
        BY <1>3 DEF StemGroup
    <2>2. {p \in kept : Key(p.name) = k} = K[k]
        <3>1. \A p \in K[k] : Key(p.name) = k
            BY <1>10 DEF StemGroup
        <3> QED BY <1>11, <3>1
    <2>3. now = K[k] \cup Targets(E[k])
        BY <1>2, <2>1, <2>2
    <2>4. \A t \in now : Key(t.name) = k
        BY DEF StemGroup
    <2> HIDE DEF now
    <2>5. now \cap T = Targets(E[k])
        BY <1>13, <1>14, <2>3, <2>4
    <2>6. now \cap rem = {}
        BY <1>3, <1>15, <2>1
    <2>7. CASE k \in unmet
        <3>1. E[k] = {} /\ K[k] = StemGroup(C, k) /\ Unreachable(inv, StemGroup(C, k), profile)
            BY <2>7
        <3>2. Targets(E[k]) = {}
            BY <3>1, NoEncodes
        <3> QED BY <2>3, <2>5, <2>6, <2>7, <3>1, <3>2 DEF now
    <2>8. CASE k \notin unmet
        <3>1. ShapedBy(inv, K[k] \cup Targets(E[k]), profile, Targets(E[k]))
            BY <2>8 DEF StemPlan
        <3> QED BY <2>3, <2>5, <2>8, <3>1 DEF now
    <2> QED BY <2>7, <2>8
<1>19. PlannedFor(inv, c, profile)
    <2>1. /\ IsOK(c) /\ c.files # {} /\ c.files \subseteq DOMAIN inv
          /\ EncodesOf(inv, c.files, profile, Encodes(c)) /\ Targets(Encodes(c)) = T
        BY <1>2, <1>3, <1>6 DEF T
    <2>2. /\ Removed(c) \subseteq c.files /\ Removed(c) \cap T = {}
          /\ c.projected = (c.files \ Removed(c)) \cup T
        BY <1>3, <1>7, <1>12, <1>15, <1>17
    <2>3. \A k \in Stems(c.files) :
             LET now == StemGroup(c.projected, k) IN
             IF k \in c.unmet
             THEN /\ now = StemGroup(c.files, k) /\ now \cap T = {} /\ Unreachable(inv, now, profile)
                  /\ now \cap Removed(c) = {}
             ELSE ShapedBy(inv, now, profile, now \cap T)
        BY <1>3, <1>7, <1>18
    <2> QED BY <1>8, <1>9, <2>1, <2>2, <2>3 DEF PlannedFor
<1> QED BY <1>19 DEF c

\* The parts of reconcileComponent, by name.
StrictRebuild(inv, C, profile) ==
    \E k \in Stems(C) : encodedNeedsRebuild(inv, StemGroup(C, k), profile)

LosslessReasons(C, profile) ==
    [k \in Stems(C) |-> IF profile.lossless # NoSpec /\ Lossless(StemGroup(C, k)) = {}
                        THEN "LOSSLESS_UNFULFILLABLE" ELSE "ok"]
EncodedReasons(inv, C, profile) ==
    [k \in Stems(C) |-> IF StrictRebuild(inv, C, profile)
                        THEN RebuildReason(inv, C, StemGroup(C, k), profile) ELSE "ok"]
StrictReason(inv, C, profile) ==
    IF FirstReason(LosslessReasons(C, profile)) # "ok" THEN FirstReason(LosslessReasons(C, profile))
    ELSE FirstReason(EncodedReasons(inv, C, profile))

StrictE(inv, C, profile) ==
    [k \in Stems(C) |-> StrictEncodes(StemGroup(C, k), profile, StrictRebuild(inv, C, profile))]
StrictR(inv, C, profile) ==
    [k \in Stems(C) |-> StrictRemoves(inv, StemGroup(C, k), profile, StrictRebuild(inv, C, profile))]
StrictK(inv, C, profile) ==
    [k \in Stems(C) |-> StrictKept(inv, StemGroup(C, k), profile, StrictRebuild(inv, C, profile))]

\* The strict outcome as a sum over stems (reconcileComponent).
LEMMA StrictIs ==
    ASSUME NEW inv, NEW C, NEW profile
    PROVE  reconcileComponent(inv, C, profile) =
             IF StrictReason(inv, C, profile) # "ok" THEN Blocked(C, StrictReason(inv, C, profile))
             ELSE OutcomeOf(C, StrictE(inv, C, profile), StrictR(inv, C, profile),
                            StrictK(inv, C, profile), {})
<1> DEFINE Group(k) == StemGroup(C, k)
           rebuild == \E k \in Stems(C) : encodedNeedsRebuild(inv, Group(k), profile)
           LosslessOps(k) ==
             {Encode(p, sameStemPath(p, profile.lossless)) : p \in losslessEncodeSrc(Group(k), profile)}
           EncodedOps(k) ==
             IF rebuild
             THEN {Encode(Only(qualifiedSources(Group(k), profile)),
                          encodedTargetPath(Group(k), profile))}
             ELSE {}
           encodes == UNION {LosslessOps(k) \cup EncodedOps(k) : k \in Stems(C)}
           obsolete == UNION {losslessObsolete(Group(k), profile)
                              \cup encodedObsolete(inv, Group(k), profile, rebuild) : k \in Stems(C)}
           Staying(k) == declaredLossless(Group(k), profile)
                      \cup (IF rebuild THEN {} ELSE declaredEncoded(inv, Group(k), profile))
           kept == UNION {Staying(k) : k \in Stems(C)}
<1>1. rebuild = StrictRebuild(inv, C, profile)
    BY DEF StrictRebuild
<1>2. encodes = StemsOf(StrictE(inv, C, profile), C)
    BY <1>1 DEF StemsOf, StrictE, StrictEncodes
<1>3. obsolete = StemsOf(StrictR(inv, C, profile), C)
    BY <1>1 DEF StemsOf, StrictR, StrictRemoves
<1>4. kept = StemsOf(StrictK(inv, C, profile), C)
    BY <1>1 DEF StemsOf, StrictK, StrictKept
<1> DEFINE lossless == FirstReason([k \in Stems(C) |->
                         IF profile.lossless # NoSpec /\ Lossless(Group(k)) = {}
                         THEN "LOSSLESS_UNFULFILLABLE" ELSE "ok"])
           encoded == FirstReason([k \in Stems(C) |->
                         IF rebuild THEN RebuildReason(inv, C, Group(k), profile) ELSE "ok"])
           reason == IF lossless # "ok" THEN lossless ELSE encoded
<1>5. reason = StrictReason(inv, C, profile)
    BY <1>1 DEF StrictReason, LosslessReasons, EncodedReasons
<1>6. reconcileComponent(inv, C, profile) =
        IF reason # "ok" THEN Blocked(C, reason)
        ELSE ComponentOutcome(C, "ok", encodes \cup {Remove(p, Targets(encodes)) : p \in obsolete},
                     kept \cup Targets(encodes), {})
    BY DEF reconcileComponent
<1> HIDE DEF reason, encodes, obsolete, kept
<1> QED BY <1>2, <1>3, <1>4, <1>5, <1>6 DEF OutcomeOf

\* A component of the strict table is blocked, or planned to its shape.
LEMMA StrictPlanned ==
    ASSUME NEW inv, IsInventory(inv), NEW C, C \subseteq DOMAIN inv, C # {}, NEW profile \in Profile,
           scene.mode = "strict"
    PROVE  LET c == reconcileComponent(inv, C, profile)
           IN  /\ c.files = C /\ c.unmet = {}
               /\ IF IsOK(c) THEN PlannedFor(inv, c, profile) ELSE c.ops = {}
<1> DEFINE c == reconcileComponent(inv, C, profile)
           reason == StrictReason(inv, C, profile)
           rebuild == StrictRebuild(inv, C, profile)
           E == StrictE(inv, C, profile)
           R == StrictR(inv, C, profile)
           K == StrictK(inv, C, profile)
<1>1. CASE reason # "ok"
    <2>1. c = Blocked(C, reason)
        BY <1>1, StrictIs
    <2> QED BY <1>1, <2>1 DEF Blocked, ComponentOutcome, IsOK
<1>2. CASE reason = "ok"
    <2>1. c = OutcomeOf(C, E, R, K, {})
        BY <1>2, StrictIs
    <2>2. Stems(C) \subseteq Nat
        BY PlannerAssumption DEF Stems, IsInventory, Path
    <2>3. rebuild \in BOOLEAN
        BY DEF StrictRebuild
    <2>4. \A k \in Stems(C) : StrictOK(inv, C, k, profile, rebuild)
        <3>1. FirstReason(LosslessReasons(C, profile)) = "ok" /\ FirstReason(EncodedReasons(inv, C, profile)) = "ok"
            BY <1>2 DEF StrictReason
        <3>2. \A k \in Stems(C) : LosslessReasons(C, profile)[k] = "ok"
            BY <2>2, <3>1, FirstReasonIs DEF LosslessReasons
        <3>3. \A k \in Stems(C) : EncodedReasons(inv, C, profile)[k] = "ok"
            BY <2>2, <3>1, FirstReasonIs DEF EncodedReasons
        <3>4. \A k \in Stems(C) : profile.lossless # NoSpec => Lossless(StemGroup(C, k)) # {}
            BY <3>2 DEF LosslessReasons
        <3>5. \A k \in Stems(C) : rebuild => RebuildReason(inv, C, StemGroup(C, k), profile) = "ok"
            BY <3>3 DEF EncodedReasons
        <3>6. rebuild => profile.encoded # NoSpec
            BY DEF StrictRebuild, encodedNeedsRebuild
        <3>7. \A k \in Stems(C) : ~rebuild => ~encodedNeedsRebuild(inv, StemGroup(C, k), profile)
            BY DEF StrictRebuild
        <3> HIDE DEF rebuild
        <3> QED BY <3>4, <3>5, <3>6, <3>7 DEF StrictOK
    <2>5. \A k \in Stems(C) : StemPlan(inv, StemGroup(C, k), profile, E[k], R[k], K[k])
        BY <2>3, <2>4, StrictStem DEF StrictE, StrictR, StrictK
    <2>6. PlannedFor(inv, c, profile)
        <3> HIDE DEF c, E, R, K
        <3> QED BY <2>1, <2>5, Assembled
    <2>7. c.files = C /\ c.unmet = {} /\ IsOK(c)
        BY <2>1 DEF OutcomeOf, ComponentOutcome, IsOK
    <2> QED BY <2>6, <2>7
<1> QED BY <1>1, <1>2

-----------------------------------------------------------------------------
(* The relaxed table.                                                      *)

\* What a stem keeps, and what it leaves behind, under the relaxed table.
RelaxedKept(inv, G, profile) == declaredLossless(G, profile) \cup declaredEncoded(inv, G, profile)
RelaxedRemoves(inv, G, profile) ==
    G \ (RelaxedKept(inv, G, profile) \cup Targets(lenientEncodes(inv, G, profile)))

\* Where the encoded output of a stem that is met lands.
LEMMA ReplacedAt ==
    ASSUME NEW inv, IsInventory(inv), NEW G, G \subseteq DOMAIN inv, NEW profile \in Profile,
           NeedsEncoded(inv, G, profile), NEW src \in Lossless(G),
           qualifiedSources(G, profile) # {}
    PROVE  LET op == Encode(src, replaced(inv, G, profile))
           IN  /\ op = Encode(op.src, op.dst) /\ op.src = src
               /\ OutputOf(op.dst, G, profile)
               /\ op.dst.ext = ExtForCodec(Codec(op.dst)) /\ Codec(op.dst) = profile.encoded.codec
<1> DEFINE below == EncodedTarget(G, profile) \ declaredEncoded(inv, G, profile)
<1>1. \E q \in G : replaced(inv, G, profile) = sameStemPath(q, profile.encoded.codec)
    <2>1. CASE Cardinality(below) = 1
        <3>1. below # {}
            BY <2>1, FS_EmptySet
        <3>2. Only(below) \in G
            BY <3>1, OnlyIs DEF EncodedTarget, OfCodec
        <3> QED BY <2>1, <3>2 DEF replaced
    <2>2. CASE Cardinality(below) # 1
        <3>1. Only(qualifiedSources(G, profile)) \in G
            BY OnlyIs, SourcesAre
        <3> QED BY <2>2, <3>1 DEF replaced
    <2> QED BY <2>1, <2>2
<1>2. PICK q \in G : replaced(inv, G, profile) = sameStemPath(q, profile.encoded.codec)
    BY <1>1
<1>3. profile.encoded # NoSpec
    BY DEF NeedsEncoded
<1> QED BY <1>2, <1>3, EncodeBeside

\* What a stem that is met builds: one encode for each output it lacks.
LEMMA RelaxedEncodesAre ==
    ASSUME NEW inv, IsInventory(inv), NEW G, G \subseteq DOMAIN inv, NEW profile \in Profile,
           StemReason(inv, G, profile) = "ok", ~Unreachable(inv, G, profile)
    PROVE  LET E == lenientEncodes(inv, G, profile)
           IN  /\ EncodesOf(inv, G, profile, E)
               /\ \A t \in Targets(E) :
                    \/ /\ profile.lossless # NoSpec /\ declaredLossless(G, profile) = {}
                       /\ Codec(t) = profile.lossless
                    \/ NeedsEncoded(inv, G, profile) /\ Codec(t) = profile.encoded.codec
               /\ profile.lossless # NoSpec /\ declaredLossless(G, profile) = {} =>
                    \E t \in Targets(E) : Codec(t) = profile.lossless
               /\ NeedsEncoded(inv, G, profile) =>
                    \E t \in Targets(E) : Codec(t) = profile.encoded.codec
<1> DEFINE sources == qualifiedSources(G, profile)
           E == lenientEncodes(inv, G, profile)
           lacks == profile.lossless # NoSpec /\ declaredLossless(G, profile) = {}
           needs == NeedsEncoded(inv, G, profile)
           L == IF lacks THEN {Encode(p, sameStemPath(p, profile.lossless)) : p \in sources} ELSE {}
           R == IF needs THEN {Encode(p, replaced(inv, G, profile)) : p \in sources} ELSE {}
           Fine(op) == /\ op = Encode(op.src, op.dst) /\ op.src \in Lossless(G)
                       /\ OutputOf(op.dst, G, profile)
                       /\ op.dst \in DOMAIN inv => op.dst \in G \/ Codec(op.dst) \in LosslessCodecs
                       /\ Spelled(op.dst, G)
<1>1. E = L \cup R
    BY DEF lenientEncodes
<1>2. needsOutput(inv, G, profile) <=> lacks \/ needs
    BY DEF needsOutput, NeedsEncoded
<1>3. lacks \/ needs => sources # {} /\ ~(Cardinality(sources) > 1)
    BY <1>2 DEF StemReason, Unreachable
<1>4. sources \subseteq Lossless(G) /\ Lossless(G) \subseteq G /\ IsFiniteSet(sources)
    <2>1. sources \subseteq Lossless(G) /\ Lossless(G) \subseteq G
        BY SourcesAre
    <2>2. sources \subseteq DOMAIN inv
        BY <2>1
    <2> QED BY <2>1, <2>2, FS_Subset DEF IsInventory
<1>5. lacks \/ needs => \E p \in Lossless(G) : sources = {p}
    <2> HIDE DEF sources, lacks, needs
    <2> SUFFICES ASSUME lacks \/ needs PROVE \E p \in Lossless(G) : sources = {p}
        OBVIOUS
    <2>1. PICK p \in sources : TRUE
        BY <1>3
    <2>2. sources = {p}
        BY <1>3, <1>4, OneMember
    <2> QED BY <1>4, <2>1, <2>2
<1>6. (L = {} /\ ~lacks) \/ (lacks /\ \E op : /\ L = {op} /\ Fine(op) /\ Codec(op.dst) = profile.lossless)
    <2>1. CASE lacks
        <3>1. PICK p \in Lossless(G) : sources = {p}
            BY <1>5, <2>1
        <3> DEFINE op == Encode(p, sameStemPath(p, profile.lossless))
        <3>2. OfCodec(G, profile.lossless) = {} /\ profile.lossless \in LosslessCodecs
            BY <2>1, ProfileIs DEF declaredLossless
        <3>3. /\ op = Encode(op.src, op.dst) /\ op.src = p /\ OutputOf(op.dst, G, profile)
              /\ op.dst.ext = ExtForCodec(Codec(op.dst)) /\ Codec(op.dst) = profile.lossless
            BY <1>4, <2>1, <3>2, EncodeBeside
        <3>4. L = {op}
            BY <2>1, <3>1
        <3> QED BY <2>1, <3>2, <3>3, <3>4 DEF Spelled
    <2>2. CASE ~lacks
        BY <2>2
    <2> QED BY <2>1, <2>2
<1>7. (R = {} /\ ~needs) \/ (needs /\ \E op : /\ R = {op} /\ Fine(op) /\ Codec(op.dst) = profile.encoded.codec
                                            /\ Codec(op.dst) \notin LosslessCodecs)
    <2>1. CASE needs
        <3>1. PICK p \in Lossless(G) : sources = {p}
            BY <1>5, <2>1
        <3> DEFINE op == Encode(p, replaced(inv, G, profile))
        <3>2. profile.encoded.codec \notin LosslessCodecs
            BY <2>1, ProfileIs DEF NeedsEncoded
        <3>3. /\ op = Encode(op.src, op.dst) /\ op.src = p /\ OutputOf(op.dst, G, profile)
              /\ op.dst.ext = ExtForCodec(Codec(op.dst)) /\ Codec(op.dst) = profile.encoded.codec
            BY <1>3, <2>1, ReplacedAt
        <3>4. R = {op}
            BY <2>1, <3>1
        <3>5. op.dst \in DOMAIN inv => op.dst \in G
            <4>1. replaced(inv, G, profile) \notin DOMAIN inv \ G
                BY <1>2, <2>1 DEF StemReason
            <4> QED BY <4>1 DEF Encode
        <3> QED BY <2>1, <3>2, <3>3, <3>4, <3>5 DEF Spelled
    <2>2. CASE ~needs
        BY <2>2
    <2> QED BY <2>1, <2>2
<1> HIDE DEF L, R, sources
<1>8. \A op \in E : Fine(op)
    BY <1>1, <1>6, <1>7
<1>9. IsFiniteSet(E)
    <2>1. IsFiniteSet({}) /\ \A op : IsFiniteSet({op})
        BY FS_EmptySet, FS_Singleton
    <2>2. L = {} \/ \E op : L = {op}
        BY <1>6
    <2>3. R = {} \/ \E op : R = {op}
        BY <1>7
    <2>4. IsFiniteSet(L)
        BY <2>1, <2>2
    <2>5. IsFiniteSet(R)
        BY <2>1, <2>3
    <2> QED BY <1>1, <2>4, <2>5, FS_Union
<1>10. lacks => profile.lossless \in LosslessCodecs
    BY ProfileIs
<1>11. \A o1, o2 \in E : o1.dst = o2.dst => o1 = o2
    BY <1>1, <1>6, <1>7, <1>10
<1>12. EncodesOf(inv, G, profile, E)
    BY <1>8, <1>9, <1>11 DEF EncodesOf
<1>13. Targets(E) = {op.dst : op \in E}
    BY <1>8, TargetsIs
<1> HIDE DEF E, Fine
<1> QED BY <1>1, <1>6, <1>7, <1>12, <1>13 DEF E

\* The relaxed table brings a stem to its shape, if it can.
LEMMA RelaxedStem ==
    ASSUME NEW inv, IsInventory(inv), NEW G, G \subseteq DOMAIN inv, NEW profile \in Profile,
           StemReason(inv, G, profile) = "ok", ~Unreachable(inv, G, profile)
    PROVE  StemPlan(inv, G, profile, lenientEncodes(inv, G, profile),
                    RelaxedRemoves(inv, G, profile), RelaxedKept(inv, G, profile))
<1> DEFINE E == lenientEncodes(inv, G, profile)
           R == RelaxedRemoves(inv, G, profile)
           K == RelaxedKept(inv, G, profile)
           T == Targets(E)
           S == K \cup T
           DL == declaredLossless(G, profile)
           DE == declaredEncoded(inv, G, profile)
<1>1. /\ EncodesOf(inv, G, profile, E)
      /\ \A t \in T : \/ profile.lossless # NoSpec /\ DL = {} /\ Codec(t) = profile.lossless
                      \/ NeedsEncoded(inv, G, profile) /\ Codec(t) = profile.encoded.codec
      /\ profile.lossless # NoSpec /\ DL = {} => \E t \in T : Codec(t) = profile.lossless
      /\ NeedsEncoded(inv, G, profile) => \E t \in T : Codec(t) = profile.encoded.codec
    BY RelaxedEncodesAre
<1>2. /\ DL \subseteq Lossless(G) /\ Lossless(G) \subseteq G /\ DE \subseteq G
      /\ \A p \in DE : /\ Codec(p) \notin LosslessCodecs /\ Codec(p) = profile.encoded.codec
                       /\ profile.encoded # NoSpec /\ satisfiedEncoded(p, inv[p], profile.encoded)
      /\ \A p \in DL : profile.lossless # NoSpec /\ Codec(p) = profile.lossless
    BY ProfileIs DEF declaredLossless, Lossless, OfCodec, EncodedTarget, declaredEncoded, LosslessCodecs
<1>3. NeedsEncoded(inv, G, profile) <=> profile.encoded # NoSpec /\ DE = {}
    BY DEF NeedsEncoded
<1>4. K = DL \cup DE /\ R = G \ (K \cup T)
    BY DEF RelaxedRemoves, RelaxedKept
<1>5. profile.lossless # NoSpec => profile.lossless \in LosslessCodecs
    BY ProfileIs
<1>6. profile.encoded # NoSpec => profile.encoded.codec \notin LosslessCodecs
    BY ProfileIs
<1> HIDE DEF E, R, K, T, DL, DE
<1>7. Lossless(S) = declaredLossless(S, profile)
    <2>1. \A p \in S : Codec(p) \in LosslessCodecs => profile.lossless # NoSpec /\ Codec(p) = profile.lossless
        BY <1>1, <1>2, <1>3, <1>4, <1>6
    <2> QED BY <1>5, <2>1 DEF Lossless, declaredLossless, OfCodec
<1>8. profile.lossless # NoSpec => OfCodec(S, profile.lossless) # {}
    BY <1>1, <1>2, <1>4 DEF OfCodec
<1>9. profile.encoded # NoSpec => EncodedTarget(S, profile) # {}
    BY <1>1, <1>2, <1>3, <1>4 DEF OfCodec, EncodedTarget
<1>10. ASSUME NEW p \in S \ Lossless(S)
       PROVE  /\ profile.encoded # NoSpec /\ Codec(p) = profile.encoded.codec
              /\ p \notin T => satisfiedEncoded(p, inv[p], profile.encoded)
    <2>1. Codec(p) \notin LosslessCodecs
        BY <1>10 DEF Lossless
    <2>2. CASE p \in K
        BY <1>2, <1>4, <1>5, <2>1, <2>2
    <2>3. CASE p \in T
        BY <1>1, <1>3, <1>5, <2>1, <2>3
    <2> QED BY <1>10, <2>2, <2>3
<1>11. ShapedBy(inv, S, profile, T)
    BY <1>7, <1>8, <1>9, <1>10 DEF ShapedBy
<1>12. R \subseteq G /\ K \subseteq G /\ G \subseteq R \cup K \cup T /\ R \cap (K \cup T) = {}
    BY <1>2, <1>4
<1> QED BY <1>1, <1>11, <1>12 DEF StemPlan, E, R, K, T

\* The parts of lenientComponent, by name.
RelaxedReasons(inv, C, profile) == [k \in Stems(C) |-> StemReason(inv, StemGroup(C, k), profile)]
RelaxedUnmet(inv, C, profile) == {k \in Stems(C) : Unreachable(inv, StemGroup(C, k), profile)}
RelaxedE(inv, C, profile) ==
    [k \in Stems(C) |-> IF k \in RelaxedUnmet(inv, C, profile) THEN {}
                        ELSE lenientEncodes(inv, StemGroup(C, k), profile)]
RelaxedR(inv, C, profile) ==
    [k \in Stems(C) |-> IF k \in RelaxedUnmet(inv, C, profile) THEN {}
                        ELSE RelaxedRemoves(inv, StemGroup(C, k), profile)]
RelaxedK(inv, C, profile) ==
    [k \in Stems(C) |-> IF k \in RelaxedUnmet(inv, C, profile) THEN StemGroup(C, k)
                        ELSE RelaxedKept(inv, StemGroup(C, k), profile)]
RelaxedReason(inv, C, profile) == FirstReason(RelaxedReasons(inv, C, profile))

\* The relaxed outcome as a sum over stems (lenientComponent).
LEMMA RelaxedIs ==
    ASSUME NEW inv, IsInventory(inv), NEW C, C \subseteq DOMAIN inv, NEW profile \in Profile
    PROVE  lenientComponent(inv, C, profile) =
             IF RelaxedReason(inv, C, profile) # "ok" THEN Blocked(C, RelaxedReason(inv, C, profile))
             ELSE OutcomeOf(C, RelaxedE(inv, C, profile), RelaxedR(inv, C, profile),
                            RelaxedK(inv, C, profile), RelaxedUnmet(inv, C, profile))
<1> DEFINE Group(k) == StemGroup(C, k)
           reason == FirstReason([k \in Stems(C) |-> StemReason(inv, Group(k), profile)])
           unmet == {k \in Stems(C) : Unreachable(inv, Group(k), profile)}
           met == Stems(C) \ unmet
           encodes == UNION {lenientEncodes(inv, Group(k), profile) : k \in met}
           Staying(k) == declaredLossless(Group(k), profile) \cup declaredEncoded(inv, Group(k), profile)
           obsolete == UNION {Group(k) \ (Staying(k) \cup Targets(encodes)) : k \in met}
           kept == UNION ({Staying(k) : k \in met} \cup {Group(k) : k \in unmet})
           E == RelaxedE(inv, C, profile)
           R == RelaxedR(inv, C, profile)
           K == RelaxedK(inv, C, profile)
<1>1. unmet = RelaxedUnmet(inv, C, profile)
    BY DEF RelaxedUnmet
<1>2. reason = RelaxedReason(inv, C, profile)
    BY DEF RelaxedReason, RelaxedReasons
<1>3. encodes = StemsOf(E, C)
    BY <1>1 DEF StemsOf, RelaxedE
<1>4. kept = StemsOf(K, C)
    BY <1>1 DEF StemsOf, RelaxedK, RelaxedKept
<1>5. lenientComponent(inv, C, profile) =
        IF reason # "ok" THEN Blocked(C, reason)
        ELSE ComponentOutcome(C, "ok", encodes \cup {Remove(p, Targets(encodes)) : p \in obsolete},
                     kept \cup Targets(encodes), unmet)
    BY DEF lenientComponent
<1>6. ASSUME reason = "ok" PROVE obsolete = StemsOf(R, C)
    <2>1. Stems(C) \subseteq Nat
        BY PlannerAssumption DEF Stems, IsInventory, Path
    <2>2. \A k \in Stems(C) : StemReason(inv, Group(k), profile) = "ok"
        <3>1. \A k \in Stems(C) : RelaxedReasons(inv, C, profile)[k] = "ok"
            BY <1>2, <1>6, <2>1, FirstReasonIs DEF RelaxedReasons, RelaxedReason
        <3> QED BY <3>1 DEF RelaxedReasons
    <2>3. \A k \in Stems(C) : Group(k) \subseteq DOMAIN inv /\ \A p \in Group(k) : Key(p.name) = k
        BY DEF StemGroup
    <2>4. \A k \in Stems(C) : EncodesOf(inv, Group(k), profile, E[k])
        <3> SUFFICES ASSUME NEW k \in Stems(C) PROVE EncodesOf(inv, Group(k), profile, E[k])
            OBVIOUS
        <3>1. CASE k \in unmet
            BY <1>1, <3>1, NoEncodes DEF RelaxedE
        <3>2. CASE k \notin unmet
            <4>1. EncodesOf(inv, Group(k), profile, lenientEncodes(inv, Group(k), profile))
                BY <2>2, <2>3, <3>2, RelaxedEncodesAre
            <4> QED BY <1>1, <3>2, <4>1 DEF RelaxedE
        <3> QED BY <3>1, <3>2
    <2>5. \A k \in Stems(C) : {t \in Targets(StemsOf(E, C)) : Key(t.name) = k} = Targets(E[k])
        <3> HIDE DEF E
        <3> QED BY <2>4, EncodesAdd
    <2>6. \A k \in met : Group(k) \ (Staying(k) \cup Targets(encodes)) = R[k]
        <3> SUFFICES ASSUME NEW k \in met PROVE Group(k) \ (Staying(k) \cup Targets(encodes)) = R[k]
            OBVIOUS
        <3>1. E[k] = lenientEncodes(inv, Group(k), profile)
              /\ R[k] = RelaxedRemoves(inv, Group(k), profile)
            BY <1>1 DEF RelaxedE, RelaxedR
        <3>2. R[k] = Group(k) \ (Staying(k) \cup Targets(E[k]))
            BY <3>1 DEF RelaxedRemoves, RelaxedKept
        <3>3. {t \in Targets(encodes) : Key(t.name) = k} = Targets(E[k])
            BY <1>3, <2>5
        <3> HIDE DEF E, R, Staying, encodes, met
        <3>4. k \in Stems(C)
            BY DEF met
        <3> QED BY <2>3, <3>2, <3>3, <3>4
    <2>7. \A k \in unmet : R[k] = {}
        BY <1>1 DEF RelaxedR
    <2>8. StemsOf(R, C) = UNION {R[k] : k \in met}
        <3> HIDE DEF R
        <3> QED BY <2>7 DEF StemsOf
    <2> QED BY <2>6, <2>8
<1> HIDE DEF reason, unmet, encodes, obsolete, kept, E, R, K
<1> QED BY <1>1, <1>2, <1>3, <1>4, <1>5, <1>6 DEF OutcomeOf, E, R, K

\* A component of the relaxed table is blocked, or planned to its shape.
LEMMA RelaxedPlanned ==
    ASSUME NEW inv, IsInventory(inv), NEW C, C \subseteq DOMAIN inv, C # {}, NEW profile \in Profile
    PROVE  LET c == lenientComponent(inv, C, profile)
           IN  c.files = C /\ IF IsOK(c) THEN PlannedFor(inv, c, profile) ELSE c.ops = {}
<1> DEFINE c == lenientComponent(inv, C, profile)
           reason == RelaxedReason(inv, C, profile)
           E == RelaxedE(inv, C, profile)
           R == RelaxedR(inv, C, profile)
           K == RelaxedK(inv, C, profile)
           unmet == RelaxedUnmet(inv, C, profile)
<1>1. CASE reason # "ok"
    <2>1. c = Blocked(C, reason)
        BY <1>1, RelaxedIs
    <2> QED BY <1>1, <2>1 DEF Blocked, ComponentOutcome, IsOK
<1>2. CASE reason = "ok"
    <2>1. c = OutcomeOf(C, E, R, K, unmet)
        BY <1>2, RelaxedIs
    <2>2. Stems(C) \subseteq Nat
        BY PlannerAssumption DEF Stems, IsInventory, Path
    <2>3. \A k \in Stems(C) : StemReason(inv, StemGroup(C, k), profile) = "ok"
        <3>1. \A k \in Stems(C) : RelaxedReasons(inv, C, profile)[k] = "ok"
            BY <1>2, <2>2, FirstReasonIs DEF RelaxedReasons, RelaxedReason
        <3> QED BY <3>1 DEF RelaxedReasons
    <2>4. \A k \in Stems(C) :
               IF k \in unmet
               THEN /\ E[k] = {} /\ R[k] = {} /\ K[k] = StemGroup(C, k)
                    /\ Unreachable(inv, StemGroup(C, k), profile)
               ELSE StemPlan(inv, StemGroup(C, k), profile, E[k], R[k], K[k])
        <3> SUFFICES ASSUME NEW k \in Stems(C)
                     PROVE  IF k \in unmet
                            THEN /\ E[k] = {} /\ R[k] = {} /\ K[k] = StemGroup(C, k)
                                 /\ Unreachable(inv, StemGroup(C, k), profile)
                            ELSE StemPlan(inv, StemGroup(C, k), profile, E[k], R[k], K[k])
            OBVIOUS
        <3>1. CASE k \in unmet
            BY <3>1 DEF RelaxedE, RelaxedR, RelaxedK, RelaxedUnmet
        <3>2. CASE k \notin unmet
            <4>1. StemGroup(C, k) \subseteq DOMAIN inv
                BY DEF StemGroup
            <4>2. ~Unreachable(inv, StemGroup(C, k), profile)
                BY <3>2 DEF RelaxedUnmet
            <4>3. StemPlan(inv, StemGroup(C, k), profile, lenientEncodes(inv, StemGroup(C, k), profile),
                           RelaxedRemoves(inv, StemGroup(C, k), profile),
                           RelaxedKept(inv, StemGroup(C, k), profile))
                BY <2>3, <4>1, <4>2, RelaxedStem
            <4> QED BY <3>2, <4>3 DEF RelaxedE, RelaxedR, RelaxedK
        <3> QED BY <3>1, <3>2
    <2>5. PlannedFor(inv, c, profile)
        <3> HIDE DEF c, E, R, K, unmet
        <3> QED BY <2>1, <2>4, Assembled
    <2>6. c.files = C /\ IsOK(c)
        BY <2>1 DEF OutcomeOf, ComponentOutcome, IsOK
    <2> QED BY <2>5, <2>6
<1> QED BY <1>1, <1>2

-----------------------------------------------------------------------------
(* The plan of an inventory.                                               *)

\* The row of a component in the plan of an inventory.
Row(inv, C) ==
    IF scene.mode = "available_sources" THEN lenientComponent(inv, C, ProfileOf(Only(C)))
    ELSE reconcileComponent(inv, C, ProfileOf(Only(C)))

\* A scene to plan for.
SceneOK == /\ scene.mode \in {"strict", "available_sources"}
           /\ scene.matched \in Profile /\ scene.unmatched \in Profile

\* The plan has a row for every component.
LEMMA OutcomesAre ==
    ASSUME NEW inv
    PROVE  Outcomes(inv) = {Row(inv, C) : C \in BuildComponents(DOMAIN inv)}
BY DEF Outcomes, Row

\* The components of an inventory: files of one partition, that cover it.
LEMMA PartsAre ==
    ASSUME SceneOK, NEW inv, IsInventory(inv), NEW C \in BuildComponents(DOMAIN inv)
    PROVE  /\ C # {} /\ C \subseteq DOMAIN inv /\ Closed(C, DOMAIN inv) /\ Only(C) \in C
           /\ \A p \in C : Component(DOMAIN inv, p) = C
           /\ \A p \in C : Matched(p) = Matched(Only(C)) /\ ProfileOf(p) = ProfileOf(Only(C))
           /\ ProfileOf(Only(C)) \in Profile
<1> DEFINE S == DOMAIN inv
<1>1. PICK p \in S : C = Component(S, p)
    BY DEF BuildComponents
<1>2. /\ C \subseteq S /\ p \in C /\ Closed(C, S) /\ \A q \in C : Matched(q) = Matched(p)
    BY <1>1, ComponentHolds
<1>3. Only(C) \in C
    BY <1>2, OnlyIs
<1>4. \A q \in C : Component(S, q) = C
    BY <1>1, ComponentsApart
<1>5. \A q : ProfileOf(q) \in Profile
    BY DEF ProfileOf, SceneOK
<1>6. \A q \in C : Matched(q) = Matched(Only(C)) /\ ProfileOf(q) = ProfileOf(Only(C))
    BY <1>2, <1>3 DEF ProfileOf
<1> QED BY <1>2, <1>3, <1>4, <1>5, <1>6

\* Every row is blocked, or planned to the shape of its partition.
LEMMA RowsAre ==
    ASSUME SceneOK, NEW inv, IsInventory(inv), NEW C \in BuildComponents(DOMAIN inv)
    PROVE  LET c == Row(inv, C)
           IN  /\ c.files = C /\ (scene.mode = "strict" => c.unmet = {})
               /\ IF IsOK(c) THEN PlannedFor(inv, c, ProfileOf(Only(C))) ELSE c.ops = {}
<1>1. C # {} /\ C \subseteq DOMAIN inv /\ ProfileOf(Only(C)) \in Profile
    BY PartsAre
<1>2. CASE scene.mode = "available_sources"
    BY <1>1, <1>2, RelaxedPlanned DEF Row
<1>3. CASE scene.mode = "strict"
    BY <1>1, <1>3, StrictPlanned DEF Row
<1> QED BY <1>2, <1>3 DEF SceneOK

\* The components of a plan are told apart by their files, which cover the inventory.
LEMMA PlanIs ==
    ASSUME SceneOK, NEW inv, IsInventory(inv)
    PROVE  /\ \A c \in Outcomes(inv) :
                /\ c.files \in BuildComponents(DOMAIN inv) /\ c = Row(inv, c.files)
                /\ c.files # {} /\ c.files \subseteq DOMAIN inv
                /\ ProfileOf(Only(c.files)) \in Profile
                /\ \A p \in c.files : Matched(p) = Matched(Only(c.files))
                                      /\ ProfileOf(p) = ProfileOf(Only(c.files))
                /\ scene.mode = "strict" => c.unmet = {}
                /\ IF IsOK(c) THEN PlannedFor(inv, c, ProfileOf(Only(c.files))) ELSE c.ops = {}
           /\ \A p \in DOMAIN inv : \E c \in Outcomes(inv) : p \in c.files
           /\ \A c, d \in Outcomes(inv) :
                (\E p \in c.files, q \in d.files : Linked(p, q)) => c = d
<1>1. ASSUME NEW c \in Outcomes(inv)
      PROVE  /\ c.files \in BuildComponents(DOMAIN inv) /\ c = Row(inv, c.files)
             /\ c.files # {} /\ c.files \subseteq DOMAIN inv
             /\ ProfileOf(Only(c.files)) \in Profile
             /\ \A p \in c.files : Matched(p) = Matched(Only(c.files))
                                   /\ ProfileOf(p) = ProfileOf(Only(c.files))
             /\ scene.mode = "strict" => c.unmet = {}
             /\ IF IsOK(c) THEN PlannedFor(inv, c, ProfileOf(Only(c.files))) ELSE c.ops = {}
    <2>1. PICK C \in BuildComponents(DOMAIN inv) : c = Row(inv, C)
        BY OutcomesAre
    <2> QED BY <2>1, RowsAre, PartsAre
<1>2. ASSUME NEW p \in DOMAIN inv
      PROVE  \E c \in Outcomes(inv) : p \in c.files
    <2> DEFINE C == Component(DOMAIN inv, p)
    <2>1. C \in BuildComponents(DOMAIN inv) /\ p \in C
        BY ComponentHolds DEF BuildComponents
    <2>2. Row(inv, C) \in Outcomes(inv) /\ Row(inv, C).files = C
        BY <2>1, OutcomesAre, RowsAre
    <2> QED BY <2>1, <2>2
<1>3. ASSUME NEW c \in Outcomes(inv), NEW d \in Outcomes(inv),
             NEW p \in c.files, NEW q \in d.files, Linked(p, q)
      PROVE  c = d
    <2>1. /\ c.files \in BuildComponents(DOMAIN inv) /\ d.files \in BuildComponents(DOMAIN inv)
          /\ c = Row(inv, c.files) /\ d = Row(inv, d.files) /\ p \in DOMAIN inv
        BY <1>1
    <2>2. p \in d.files
        BY <1>3, <2>1, PartsAre DEF Closed
    <2>3. c.files = d.files
        BY <2>1, <2>2, PartsAre
    <2> QED BY <2>1, <2>3
<1> QED BY <1>1, <1>2, <1>3

\* The plan depends on the scene alone.
LEMMA SameScene ==
    ASSUME scene' = scene
    PROVE  /\ \A p : Matched(p)' = Matched(p) /\ ProfileOf(p)' = ProfileOf(p)
           /\ StemsWhole' = StemsWhole /\ SceneOK' = SceneOK
           /\ \A inv : Outcomes(inv)' = Outcomes(inv)
<1>1. \A p : Matched(p)' = Matched(p)
    BY DEF Matched
<1>2. \A p : ProfileOf(p)' = ProfileOf(p)
    BY DEF Matched, ProfileOf
<1>3. StemsWhole' = StemsWhole
    BY DEF StemsWhole
<1>4. SceneOK' = SceneOK
    BY DEF SceneOK
<1>5. \A S : BuildComponents(S)' = BuildComponents(S)
    BY DEF BuildComponents, Component, Closed, Linked, Matched
<1>6. \A inv : Outcomes(inv)' = Outcomes(inv)
    BY DEF Outcomes, BuildComponents, Component, Closed, Linked, Matched, ProfileOf
<1> QED BY <1>1, <1>2, <1>3, <1>4, <1>6

-----------------------------------------------------------------------------
(* The files of a component, before and after it runs.                     *)

\* A planned component has finitely many targets.
LEMMA TargetsFinite ==
    ASSUME NEW inv, NEW G, NEW profile, NEW E, EncodesOf(inv, G, profile, E)
    PROVE  /\ IsFiniteSet(Targets(E)) /\ Cardinality(Targets(E)) = Cardinality(E)
           /\ \A t \in Targets(E) :
                \E op \in E : /\ t = op.dst /\ OutputOf(t, G, profile) /\ op.src \in Lossless(G)
                              /\ t \in DOMAIN inv => t \in G \/ Codec(t) \in LosslessCodecs
                              /\ Spelled(t, G)
<1>1. Targets(E) = {op.dst : op \in E}
    BY TargetsIs DEF EncodesOf
<1> DEFINE f == [op \in E |-> op.dst]
<1>2. {f[op] : op \in E} = Targets(E)
    BY <1>1
<1>3. \A x, y \in E : f[x] = f[y] => x = y
    BY DEF EncodesOf
<1>4. IsFiniteSet(E)
    BY DEF EncodesOf
<1>5. IsFiniteSet(Targets(E)) /\ Cardinality(Targets(E)) = Cardinality(E)
    <2>1. DOMAIN f = E /\ f = [op \in E |-> f[op]]
        OBVIOUS
    <2> HIDE DEF f
    <2> QED BY <1>2, <1>3, <1>4, <2>1, ValuesAre
<1>6. \A t \in Targets(E) :
        \E op \in E : /\ t = op.dst /\ OutputOf(t, G, profile) /\ op.src \in Lossless(G)
                      /\ t \in DOMAIN inv => t \in G \/ Codec(t) \in LosslessCodecs
                      /\ Spelled(t, G)
    BY <1>1 DEF EncodesOf
<1> QED BY <1>5, <1>6

\* The files and the targets of a component.
Area(c) == c.files \cup Targets(c.ops)

\* The files and the targets of a component are of one partition and of its stems.
LEMMA AreaIs ==
    ASSUME StemsWhole, SceneOK, NEW inv, IsInventory(inv), NEW c \in Outcomes(inv), NEW p \in Area(c)
    PROVE  /\ p \in Path
           /\ \E q \in c.files : Twin(p, q) /\ q \in Path /\ Linked(p, q) /\ Linked(q, p) /\ Key(p.name) = Key(q.name)
           /\ Matched(p) = Matched(Only(c.files)) /\ ProfileOf(p) = ProfileOf(Only(c.files))
           /\ Key(p.name) \in Stems(c.files)
<1>1. /\ c.files \subseteq DOMAIN inv /\ DOMAIN inv \subseteq Path
      /\ \A q \in c.files : Matched(q) = Matched(Only(c.files)) /\ ProfileOf(q) = ProfileOf(Only(c.files))
      /\ IF IsOK(c) THEN PlannedFor(inv, c, ProfileOf(Only(c.files))) ELSE c.ops = {}
    BY PlanIs DEF IsInventory
<1>2. p \in Path /\ \E q \in c.files : Twin(p, q)
    <2>1. CASE p \in c.files
        BY <1>1, <2>1 DEF Twin
    <2>2. CASE p \in Targets(c.ops)
        <3>1. IsOK(c)
            BY <1>1, <2>2 DEF Targets
        <3> DEFINE profile == ProfileOf(Only(c.files))
        <3>2. EncodesOf(inv, c.files, profile, Encodes(c)) /\ Targets(Encodes(c)) = Targets(c.ops)
            BY <1>1, <3>1 DEF PlannedFor
        <3>3. OutputOf(p, c.files, profile)
            BY <2>2, <3>2, TargetsFinite
        <3> QED BY <3>3 DEF OutputOf
    <2> QED BY <2>1, <2>2 DEF Area
<1>3. PICK q \in c.files : Twin(p, q)
    BY <1>2
<1>4. q \in Path /\ Key(p.name) = Key(q.name)
    BY <1>1, <1>3 DEF Twin
<1>5. Matched(p) = Matched(q) /\ Linked(p, q) /\ Linked(q, p)
    BY <1>2, <1>3, <1>4, TwinsAreLinked, LinkedBothWays
<1>6. Matched(p) = Matched(Only(c.files)) /\ ProfileOf(p) = ProfileOf(Only(c.files))
    BY <1>1, <1>5 DEF ProfileOf
<1> QED BY <1>2, <1>3, <1>4, <1>5, <1>6 DEF Stems

\* Nothing of a component is linked to anything of another.
LEMMA AreasApart ==
    ASSUME StemsWhole, SceneOK, NEW inv, IsInventory(inv), NEW c \in Outcomes(inv), NEW d \in Outcomes(inv),
           NEW p \in Area(c), NEW q \in Area(d), p = q \/ Linked(p, q)
    PROVE  c = d
<1>1. PICK x \in c.files : Twin(p, x) /\ x \in Path /\ p \in Path
    BY AreaIs
<1>2. PICK y \in d.files : Twin(q, y) /\ y \in Path /\ q \in Path
    BY AreaIs
<1>3. Linked(p, q)
    BY DEF Linked
<1>4. Linked(x, q)
    BY <1>1, <1>3, TwinsAreLinked
<1>5. Linked(x, y)
    BY <1>2, <1>4, TwinsAreLinked
<1> QED BY <1>5, PlanIs

-----------------------------------------------------------------------------
(* The planner's invariant.                                                          *)

\* The inventory of a root that a scene starts from.
Started(inv) == \E s \in Scenes : s.scene = scene /\ inv \in s.inventories

\* What a run leaves at an encoded target: a rate its encoder writes, and its
\* credential unless that was lost.
Generated(t, profile) ==
    Codec(t) \notin LosslessCodecs =>
        /\ profile.encoded # NoSpec
        /\ entries[t].rate \in OutputRates(profile.encoded)
        /\ entries[t].cred = profile.encoded \/ t \in lost

\* The root as it was planned, with the components that ran replaced by what they
\* projected: this is what the inventory holds at every moment.
Follows(inv) ==
    /\ Started(inv) /\ IsInventory(inv) /\ plan = Outcomes(inv)
    /\ \A c \in done : IsOK(c)
    /\ done = {} => entries = inv
    /\ StemsWhole =>
         /\ \A p : p \in DOMAIN entries <=>
                \/ \E c \in plan \ done : p \in c.files
                \/ \E c \in done : p \in c.projected
         /\ \A p \in DOMAIN entries :
                (\A c \in done : p \notin Targets(c.ops)) => p \in DOMAIN inv /\ entries[p] = inv[p]
         /\ \A c \in done : \A t \in Targets(c.ops) : Generated(t, ProfileOf(Only(c.files)))

\* The invariant: the state is typed, and the root follows its plan.
PlannerInv ==
    /\ SceneOK /\ IsInventory(entries) /\ Cardinality(lost) <= MaxLost
    /\ done \subseteq plan
    /\ done = {} => Started(entries)
    /\ plan # {} => \E inv : Follows(inv)

\* Nothing is planned yet.
LEMMA PlannerInvInit == PlannerInit => PlannerInv
<1> SUFFICES ASSUME PlannerInit PROVE PlannerInv
    OBVIOUS
<1>1. PICK s \in Scenes : s.scene = scene /\ entries \in s.inventories
    BY DEF PlannerInit
<1>2. SceneOK /\ IsInventory(entries)
    BY <1>1, PlannerAssumption DEF SceneOK
<1>3. Cardinality(lost) <= MaxLost
    BY FS_EmptySet, PlannerAssumption DEF PlannerInit
<1>4. Started(entries)
    BY <1>1 DEF Started
<1> QED BY <1>2, <1>3, <1>4 DEF PlannerInit, PlannerInv

\* A scene starts from inventories, under a policy.
LEMMA StartedFits ==
    ASSUME NEW inv, Started(inv)
    PROVE  IsInventory(inv)
BY PlannerAssumption DEF Started

\* Planning: no component has run, and the inventory is the one that is planned.
LEMMA PlanKeeps ==
    ASSUME PlannerInv, Plan
    PROVE  PlannerInv'
<1>1. plan = {} /\ done = {} /\ scene' = scene /\ entries' = entries /\ done' = {} /\ lost' = lost
      /\ plan' = Outcomes(entries)
    BY DEF Plan, PlannerInv
<1>2. /\ StemsWhole' = StemsWhole /\ SceneOK' = SceneOK /\ Outcomes(entries)' = Outcomes(entries)
      /\ \A inv : Outcomes(inv)' = Outcomes(inv)
    BY <1>1, SameScene
<1>3. Started(entries) /\ IsInventory(entries) /\ SceneOK
    BY <1>1 DEF PlannerInv
<1>4. Started(entries)' /\ IsInventory(entries)'
    BY <1>1, <1>3 DEF Started
<1>5. Follows(entries)'
    <2>1. ASSUME NEW p
          PROVE  p \in DOMAIN entries' <=> \/ \E c \in plan' \ done' : p \in c.files
                                           \/ \E c \in done' : p \in c.projected
        BY <1>1, <1>3, PlanIs
    <2> QED BY <1>1, <1>2, <1>4, <2>1 DEF Follows
<1>6. (\E inv : Follows(inv))'
    BY <1>5
<1> QED BY <1>1, <1>2, <1>3, <1>4, <1>6 DEF PlannerInv

\* The rates the encoders write are numbers.
LEMMA RatesAreNatural ==
    ASSUME NEW spec \in EncodedSpec
    PROVE  OutputRates(spec) \subseteq Nat
<1>1. spec.kbps \in Nat
    BY DEF EncodedSpec
<1>2. spec.codec \in {"mp3", "aac", "opus"}
    BY DEF EncodedSpec
<1>3. \A n \in {1, 65, 86, 100, 113} : (spec.kbps * 1000 * n) \div 100 \in Nat
    BY <1>1
<1> QED BY <1>2, <1>3 DEF OutputRates

\* What a component that runs to success does to the inventory.
LEMMA RunIs ==
    ASSUME PlannerInv, NEW c \in plan, Run(c)
    PROVE  LET T == Targets(c.ops)
               profile == ProfileOf(Only(c.files))
           IN  /\ c \notin done /\ IsOK(c) /\ PrecheckAccepts(entries, c)
               /\ scene' = scene /\ plan' = plan /\ done' = done \cup {c}
               /\ lost \subseteq lost' /\ Cardinality(lost') <= MaxLost
               /\ DOMAIN entries' = (DOMAIN entries \ Removed(c)) \cup T
               /\ \A p \in DOMAIN entries' \ T : entries'[p] = entries[p]
               /\ \A t \in T : Generated(t, profile)'
               /\ IsInventory(entries')
               /\ \E inv : Follows(inv) /\ PlannedFor(inv, c, profile)
<1> DEFINE T == Targets(c.ops)
           profile == ProfileOf(Only(c.files))
           encoded == {t \in T : Codec(t) \notin LosslessCodecs}
           paths == (DOMAIN entries \ Removed(c)) \cup T
<1>1. PICK inv : Follows(inv)
    BY DEF PlannerInv
<1>2. c \notin done /\ IsOK(c) /\ PrecheckAccepts(entries, c) /\ scene' = scene /\ plan' = plan /\ done' = done \cup {c}
    BY DEF Run
<1>3. SceneOK /\ IsInventory(inv) /\ c \in Outcomes(inv) /\ IsInventory(entries)
    BY <1>1 DEF PlannerInv, Follows
<1>4. PlannedFor(inv, c, profile) /\ profile \in Profile
    BY <1>2, <1>3, PlanIs
<1>5. PICK missed \in SUBSET encoded, rate \in (UNION {OutputRates(profile.encoded) : t \in encoded}) \cup {0} :
        /\ encoded # {} => rate # 0
        /\ encoded = {} => rate = 0
        /\ Cardinality(lost \cup missed) <= MaxLost
        /\ lost' = lost \cup missed
        /\ entries' = [p \in paths |->
               IF p \notin T THEN entries[p]
               ELSE IF p \notin encoded THEN Facts(0, NoSpec)
               ELSE Facts(rate, IF p \in missed THEN NoSpec ELSE profile.encoded)]
    BY DEF Run
<1>6. EncodesOf(inv, c.files, profile, Encodes(c)) /\ Targets(Encodes(c)) = T
    BY <1>4 DEF PlannedFor
<1>7. IsFiniteSet(T) /\ \A t \in T : OutputOf(t, c.files, profile)
    BY <1>6, TargetsFinite
<1>8. \A t \in encoded : profile.encoded # NoSpec /\ profile.encoded \in EncodedSpec
    BY <1>4, <1>7, ProfileIs DEF OutputOf
<1>9. \A t \in encoded : rate \in OutputRates(profile.encoded)
    BY <1>5
<1>10. rate \in Nat
    <2>1. CASE encoded = {}
        BY <1>5, <2>1
    <2>2. CASE encoded # {}
        BY <1>8, <1>9, <2>2, RatesAreNatural
    <2> QED BY <2>1, <2>2
<1> HIDE DEF encoded, T, paths
<1>11. DOMAIN entries' = paths /\ \A p \in DOMAIN entries' \ T : entries'[p] = entries[p]
    BY <1>5
<1>12. T \subseteq paths /\ encoded \subseteq T
    BY DEF paths, encoded
<1>13. \A t \in T : IF t \in encoded THEN entries'[t] = Facts(rate, IF t \in missed THEN NoSpec ELSE profile.encoded)
                    ELSE entries'[t] = Facts(0, NoSpec)
    BY <1>5, <1>12
<1>14. \A t \in T : Codec(t) \notin LosslessCodecs => t \in encoded
    BY DEF encoded
<1>15. ASSUME NEW t \in T, t \in encoded
       PROVE  /\ profile.encoded # NoSpec
              /\ entries'[t].rate \in OutputRates(profile.encoded)
              /\ entries'[t].cred = profile.encoded \/ t \in lost'
    <2>1. entries'[t] = Facts(rate, IF t \in missed THEN NoSpec ELSE profile.encoded)
        BY <1>13, <1>15
    <2>2. entries'[t].rate = rate /\ entries'[t].cred = IF t \in missed THEN NoSpec ELSE profile.encoded
        BY <2>1 DEF Facts
    <2>3. t \in missed => t \in lost'
        BY <1>5
    <2> HIDE DEF profile
    <2> QED BY <1>8, <1>9, <1>15, <2>2, <2>3
<1>16. profile' = profile
    BY <1>2, SameScene
<1>17. \A t \in T : Generated(t, profile)'
    BY <1>14, <1>15, <1>16 DEF Generated
<1>18. IsInventory(entries')
    <2>1. DOMAIN entries' \subseteq Path /\ IsFiniteSet(DOMAIN entries')
        <3>1. DOMAIN entries \subseteq Path /\ IsFiniteSet(DOMAIN entries)
            BY <1>3 DEF IsInventory
        <3>2. T \subseteq Path
            BY <1>7 DEF OutputOf
        <3>3. IsFiniteSet(DOMAIN entries \ Removed(c))
            BY <3>1, FS_Subset
        <3> QED BY <1>7, <1>11, <3>1, <3>2, <3>3, FS_Union DEF paths
    <2>2. ASSUME NEW p \in DOMAIN entries'
          PROVE  entries'[p] \in Fact /\ (Codec(p) \in LosslessCodecs => entries'[p] = Facts(0, NoSpec))
        <3>1. CASE p \notin T
            BY <1>3, <1>11, <2>2, <3>1 DEF IsInventory, paths
        <3>2. CASE p \in T /\ p \notin encoded
            <4>1. entries'[p] = Facts(0, NoSpec)
                BY <1>13, <3>2
            <4> QED BY <4>1 DEF Facts, Fact
        <3>3. CASE p \in encoded
            <4>1. entries'[p] = Facts(rate, IF p \in missed THEN NoSpec ELSE profile.encoded)
                BY <1>12, <1>13, <3>3
            <4>2. entries'[p] \in Fact
                BY <1>8, <1>10, <3>3, <4>1 DEF Facts, Fact
            <4>3. Codec(p) \notin LosslessCodecs
                BY <3>3 DEF encoded
            <4> QED BY <4>2, <4>3
        <3> QED BY <3>1, <3>2, <3>3
    <2>3. entries' = [p \in DOMAIN entries' |-> entries'[p]]
        BY <1>5
    <2>4. entries' \in [DOMAIN entries' -> Fact]
        BY <2>2, <2>3
    <2> QED BY <2>1, <2>2, <2>4 DEF IsInventory
<1>19. lost \subseteq lost' /\ Cardinality(lost') <= MaxLost
    BY <1>5
<1> QED BY <1>1, <1>2, <1>4, <1>11, <1>17, <1>18, <1>19 DEF T, paths

\* A run replaces the files of its component by the projected ones and touches no other.
LEMMA RunKeeps ==
    ASSUME PlannerInv, NEW c \in plan, Run(c)
    PROVE  PlannerInv'
<1> DEFINE T == Targets(c.ops)
           profile == ProfileOf(Only(c.files))
<1>1. /\ c \notin done /\ IsOK(c)
      /\ scene' = scene /\ plan' = plan /\ done' = done \cup {c}
      /\ lost \subseteq lost' /\ Cardinality(lost') <= MaxLost
      /\ DOMAIN entries' = (DOMAIN entries \ Removed(c)) \cup T
      /\ \A p \in DOMAIN entries' \ T : entries'[p] = entries[p]
      /\ \A t \in T : Generated(t, profile)'
      /\ IsInventory(entries')
    BY RunIs
<1>2. PICK inv : Follows(inv) /\ PlannedFor(inv, c, profile)
    BY RunIs
<1>3. /\ StemsWhole' = StemsWhole /\ SceneOK' = SceneOK /\ Outcomes(inv)' = Outcomes(inv)
      /\ \A p : ProfileOf(p)' = ProfileOf(p)
    BY <1>1, SameScene
<1>4. SceneOK /\ IsInventory(inv) /\ plan = Outcomes(inv) /\ done \subseteq plan
    BY <1>2 DEF PlannerInv, Follows
<1>5. ASSUME StemsWhole
      PROVE  /\ \A p : p \in DOMAIN entries' <=>
                    \/ \E d \in plan' \ done' : p \in d.files
                    \/ \E d \in done' : p \in d.projected
             /\ \A p \in DOMAIN entries' :
                    (\A d \in done' : p \notin Targets(d.ops)) => p \in DOMAIN inv /\ entries'[p] = inv[p]
             /\ \A d \in done' : \A t \in Targets(d.ops) : Generated(t, ProfileOf(Only(d.files)))'
    <2>1. /\ \A p : p \in DOMAIN entries <=>
                \/ \E d \in plan \ done : p \in d.files
                \/ \E d \in done : p \in d.projected
          /\ \A p \in DOMAIN entries :
                (\A d \in done : p \notin Targets(d.ops)) => p \in DOMAIN inv /\ entries[p] = inv[p]
          /\ \A d \in done : \A t \in Targets(d.ops) : Generated(t, ProfileOf(Only(d.files)))
          /\ \A d \in done : IsOK(d)
        BY <1>2, <1>5 DEF Follows
    <2>2. /\ Removed(c) \subseteq c.files /\ Removed(c) \cap T = {}
          /\ c.projected = (c.files \ Removed(c)) \cup T
        BY <1>2 DEF PlannedFor
    <2>3. \A d \in done : /\ d.projected \subseteq Area(d) /\ Targets(d.ops) \subseteq d.projected
        BY <1>4, <2>1, PlanIs DEF PlannedFor, Area
    <2>4. \A d \in plan : d # c => Area(d) \cap Area(c) = {}
        BY <1>4, <1>5, AreasApart
    <2>5. c.files \subseteq Area(c) /\ T \subseteq Area(c) /\ Removed(c) \subseteq Area(c)
          /\ \A d \in plan : d.files \subseteq Area(d)
        BY <2>2 DEF Area
    <2>6. ASSUME NEW p
          PROVE  p \in DOMAIN entries' <=>
                    \/ \E d \in plan' \ done' : p \in d.files
                    \/ \E d \in done' : p \in d.projected
        <3>1. ASSUME p \in DOMAIN entries'
              PROVE  \/ \E d \in plan' \ done' : p \in d.files
                     \/ \E d \in done' : p \in d.projected
            BY <1>1, <2>1, <2>2, <3>1
        <3>2. ASSUME NEW d \in plan' \ done', p \in d.files
              PROVE  p \in DOMAIN entries'
            BY <1>1, <2>1, <2>4, <2>5, <3>2
        <3>3. ASSUME NEW d \in done', p \in d.projected
              PROVE  p \in DOMAIN entries'
            <4>1. CASE d = c
                <5>1. p \in c.files => p \in DOMAIN entries
                    BY <1>1, <2>1
                <5> QED BY <1>1, <2>2, <3>3, <4>1, <5>1
            <4>2. CASE d # c
                <5>1. d \in done /\ d \in plan /\ p \in Area(d) /\ p \in DOMAIN entries
                    BY <1>1, <1>4, <2>1, <2>3, <3>3, <4>2
                <5> QED BY <1>1, <2>4, <2>5, <4>2, <5>1
            <4> QED BY <4>1, <4>2
        <3> QED BY <3>1, <3>2, <3>3
    <2>7. ASSUME NEW p \in DOMAIN entries', \A d \in done' : p \notin Targets(d.ops)
          PROVE  p \in DOMAIN inv /\ entries'[p] = inv[p]
        <3>1. p \notin T /\ p \in DOMAIN entries /\ entries'[p] = entries[p] /\ \A d \in done : p \notin Targets(d.ops)
            BY <1>1, <2>7
        <3> QED BY <2>1, <3>1
    <2>8. ASSUME NEW d \in done', NEW t \in Targets(d.ops)
          PROVE  Generated(t, ProfileOf(Only(d.files)))'
        <3>1. CASE d = c
            BY <1>1, <2>8, <3>1
        <3>2. CASE d # c
            <4>1. d \in done /\ d \in plan /\ t \in Area(d) /\ t \in DOMAIN entries
                BY <1>1, <1>4, <2>1, <2>3, <2>8, <3>2
            <4>2. t \notin T /\ t \in DOMAIN entries' /\ entries'[t] = entries[t]
                BY <1>1, <2>4, <2>5, <3>2, <4>1
            <4>3. Generated(t, ProfileOf(Only(d.files)))
                BY <2>1, <2>8, <4>1
            <4>4. ProfileOf(Only(d.files))' = ProfileOf(Only(d.files))
                BY <1>3
            <4> QED BY <1>1, <4>2, <4>3, <4>4 DEF Generated
        <3> QED BY <3>1, <3>2
    <2> QED BY <2>6, <2>7, <2>8
<1>6. Started(inv)'
    BY <1>1, <1>2 DEF Follows, Started
<1>7. \A d \in done' : IsOK(d)
    BY <1>1, <1>2 DEF Follows
<1>8. Follows(inv)'
    BY <1>1, <1>3, <1>4, <1>5, <1>6, <1>7 DEF Follows
<1>9. (\E i : Follows(i))'
    BY <1>8
<1>10. SceneOK' /\ Cardinality(lost') <= MaxLost /\ done' \subseteq plan' /\ done' # {}
    BY <1>1, <1>3, <1>4
<1> QED BY <1>1, <1>9, <1>10 DEF PlannerInv

\* Planning and running keep the invariant.
LEMMA PlannerInvKept == PlannerInv /\ [PlannerNext]_plannerVars => PlannerInv'
<1> SUFFICES ASSUME PlannerInv, [PlannerNext]_plannerVars PROVE PlannerInv'
    OBVIOUS
<1>1. CASE Plan
    BY <1>1, PlanKeeps
<1>2. ASSUME NEW c \in plan, Run(c) PROVE PlannerInv'
    BY <1>2, RunKeeps
<1>3. CASE UNCHANGED plannerVars
    <2>1. scene' = scene /\ entries' = entries /\ plan' = plan /\ done' = done /\ lost' = lost
        BY <1>3 DEF plannerVars
    <2>2. /\ StemsWhole' = StemsWhole /\ SceneOK' = SceneOK
          /\ \A inv : Outcomes(inv)' = Outcomes(inv)
          /\ \A p : ProfileOf(p)' = ProfileOf(p)
        BY <2>1, SameScene
    <2>3. \A inv : Started(inv)' = Started(inv)
        BY <2>1 DEF Started
    <2>4. \A t, profile : Generated(t, profile)' = Generated(t, profile)
        BY <2>1 DEF Generated
    <2>5. \A inv : Follows(inv) => Follows(inv)'
        BY <2>1, <2>2, <2>3, <2>4 DEF Follows
    <2>6. Started(entries) => Started(entries)'
        BY <2>1 DEF Started
    <2> QED BY <2>1, <2>2, <2>5, <2>6 DEF PlannerInv
<1> QED BY <1>1, <1>2, <1>3 DEF PlannerNext

\* The invariant of the planner.
LEMMA PlannerInvHolds == PlannerSpec => []PlannerInv
<1> QED BY PlannerInvInit, PlannerInvKept, PTL DEF PlannerSpec

-----------------------------------------------------------------------------
(* The theorems.                                                           *)

\* The state is typed, and a blocked component has no operations.
THEOREM PlannerTypeCorrect == PlannerSpec => []PlannerTypeOK
<1>1. PlannerInv => PlannerTypeOK
    <2> SUFFICES ASSUME PlannerInv PROVE PlannerTypeOK
        OBVIOUS
    <2>1. scene.mode \in {"strict", "available_sources"} /\ done \subseteq plan /\ Cardinality(lost) <= MaxLost
        BY DEF PlannerInv, SceneOK
    <2>2. \A p \in DOMAIN entries :
            entries[p].rate \in Nat /\ (Codec(p) \in LosslessCodecs => entries[p] = Facts(0, NoSpec))
        BY DEF PlannerInv, IsInventory, Fact
    <2>3. ASSUME NEW c \in plan PROVE c.files # {} /\ (~IsOK(c) => c.ops = {})
        BY <2>3, PlanIs DEF PlannerInv, Follows
    <2> QED BY <2>1, <2>2, <2>3 DEF PlannerTypeOK
<1> QED BY <1>1, PlannerInvHolds, PTL

\* Reconcile and the runs of its components never remove a file of a partition that
\* declares an output unless its stem holds a declared output.
THEOREM NothingRemovedUnreplaced == PlannerSpec => RemovedOnlyIfReplaced
<1> DEFINE Replaced ==
        StemsWhole => \A p \in DOMAIN entries \ DOMAIN entries' :
         LET profile == ProfileOf(p)
             left == {q \in DOMAIN entries' : Key(q.name) = Key(p.name) /\ Matched(q) = Matched(p)}
         IN  (profile.lossless # NoSpec \/ profile.encoded # NoSpec) =>
                declaredLossless(left, profile) \cup EncodedTarget(left, profile) # {}
<1>1. ASSUME PlannerInv, StemsWhole, NEW c \in plan, Run(c), NEW p \in DOMAIN entries \ DOMAIN entries',
             ProfileOf(p).lossless # NoSpec \/ ProfileOf(p).encoded # NoSpec
      PROVE  LET left == {q \in DOMAIN entries' : Key(q.name) = Key(p.name) /\ Matched(q) = Matched(p)}
             IN  declaredLossless(left, ProfileOf(p)) \cup EncodedTarget(left, ProfileOf(p)) # {}
    <2> DEFINE profile == ProfileOf(Only(c.files))
               T == Targets(c.ops)
               k == Key(p.name)
               now == StemGroup(c.projected, k)
               left == {q \in DOMAIN entries' : Key(q.name) = Key(p.name) /\ Matched(q) = Matched(p)}
    <2>1. /\ DOMAIN entries' = (DOMAIN entries \ Removed(c)) \cup T
          /\ PrecheckAccepts(entries, c)
        BY <1>1, RunIs
    <2>2. PICK inv : Follows(inv) /\ PlannedFor(inv, c, profile)
        BY <1>1, RunIs
    <2>3. SceneOK /\ IsInventory(inv) /\ c \in Outcomes(inv)
        BY <1>1, <2>2 DEF PlannerInv, Follows
    <2>4. /\ Removed(c) \subseteq c.files /\ Removed(c) \cap T = {}
          /\ c.projected = (c.files \ Removed(c)) \cup T
        BY <2>2 DEF PlannedFor
    <2>5. c.files \subseteq DOMAIN entries
        BY <2>1 DEF PrecheckAccepts
    <2>6. p \in Removed(c) /\ p \in c.files /\ p \notin c.projected /\ c.projected \subseteq DOMAIN entries'
        BY <1>1, <2>1, <2>4, <2>5
    <2>7. k \in Stems(c.files) /\ p \in StemGroup(c.files, k)
        BY <2>6, StemsCover
    <2>8. ASSUME k \in c.unmet PROVE FALSE
        <3>1. now = StemGroup(c.files, k)
            BY <2>2, <2>7, <2>8 DEF PlannedFor
        <3> QED BY <2>6, <2>7, <3>1 DEF StemGroup
    <2>9. ShapedBy(inv, now, profile, now \cap T)
        BY <2>2, <2>7, <2>8 DEF PlannedFor
    <2>10. ProfileOf(p) = profile /\ Matched(p) = Matched(Only(c.files))
        BY <2>3, <2>6, PlanIs
    <2>11. now \subseteq left
        <3> SUFFICES ASSUME NEW q \in now PROVE q \in left
            OBVIOUS
        <3>1. q \in c.projected /\ Key(q.name) = k
            BY DEF StemGroup
        <3>2. q \in Area(c)
            BY <2>4, <3>1 DEF Area
        <3>3. Matched(q) = Matched(p)
            BY <1>1, <2>3, <2>10, <3>2, AreaIs
        <3> QED BY <2>6, <3>1, <3>3
    <2> HIDE DEF now, left, profile
    <2>12. CASE profile.lossless # NoSpec
        <3>1. OfCodec(left, profile.lossless) # {}
            BY <2>9, <2>11, <2>12 DEF ShapedBy, OfCodec
        <3> QED BY <2>10, <2>12, <3>1 DEF declaredLossless, left
    <2>13. CASE profile.encoded # NoSpec
        <3>1. EncodedTarget(left, profile) # {}
            BY <2>9, <2>11, <2>13 DEF ShapedBy, EncodedTarget, OfCodec
        <3> QED BY <2>10, <3>1 DEF left
    <2> QED BY <1>1, <2>10, <2>12, <2>13
<1>2. ASSUME PlannerInv, [PlannerNext]_plannerVars PROVE Replaced
    <2>1. CASE Plan
        BY <2>1 DEF Plan
    <2>2. ASSUME NEW c \in plan, Run(c) PROVE Replaced
        BY <1>1, <1>2, <2>2
    <2>3. CASE UNCHANGED plannerVars
        BY <2>3 DEF plannerVars
    <2> QED BY <1>2, <2>1, <2>2, <2>3 DEF PlannerNext
<1>3. PlannerInv /\ [PlannerNext]_plannerVars => [Replaced]_plannerVars
    BY <1>2
<1> QED BY <1>3, PlannerInvHolds, PTL DEF PlannerSpec, RemovedOnlyIfReplaced

-----------------------------------------------------------------------------
(* What the plan says of the disk.                                         *)

\* The files of the inventory that belong to a component, when the partitions keep
\* stems whole.
LEMMA RegionIs ==
    ASSUME PlannerInv, StemsWhole, NEW inv, Follows(inv), NEW c \in plan
    PROVE  /\ Region(c) = IF c \in done THEN c.projected ELSE c.files
           /\ Region(c) = DOMAIN entries \cap Area(c)
           /\ c \in done => PlannedFor(inv, c, ProfileOf(Only(c.files)))
           /\ \A p \in Region(c) : p \notin Targets(c.ops) => p \in DOMAIN inv /\ entries[p] = inv[p]
           /\ c \notin done => \A p \in Region(c) : p \in DOMAIN inv /\ entries[p] = inv[p]
<1>1. /\ SceneOK /\ IsInventory(inv) /\ plan = Outcomes(inv) /\ done \subseteq plan
      /\ \A p : p \in DOMAIN entries <=> \/ \E d \in plan \ done : p \in d.files
                                         \/ \E d \in done : p \in d.projected
      /\ \A p \in DOMAIN entries :
            (\A d \in done : p \notin Targets(d.ops)) => p \in DOMAIN inv /\ entries[p] = inv[p]
      /\ \A d \in done : IsOK(d)
    BY DEF PlannerInv, Follows
<1>2. \A d \in done : PlannedFor(inv, d, ProfileOf(Only(d.files)))
    BY <1>1, PlanIs
<1>3. \A d \in plan : d.files \subseteq Area(d) /\ Targets(d.ops) \subseteq Area(d)
    BY DEF Area
<1>4. \A d \in done : d.projected \subseteq Area(d)
    BY <1>2 DEF PlannedFor, Area
<1>5. ASSUME NEW p \in DOMAIN entries, NEW q \in Area(c), p = q \/ Linked(p, q)
      PROVE  p \in Area(c) /\ p \in IF c \in done THEN c.projected ELSE c.files
    <2>1. CASE \E d \in plan \ done : p \in d.files
        <3>1. PICK d \in plan \ done : p \in d.files
            BY <2>1
        <3>2. d = c
            BY <1>1, <1>3, <1>5, <3>1, AreasApart
        <3> QED BY <1>3, <3>1, <3>2
    <2>2. CASE \E d \in done : p \in d.projected
        <3>1. PICK d \in done : p \in d.projected
            BY <2>2
        <3>2. d = c
            BY <1>1, <1>4, <1>5, <3>1, AreasApart
        <3> QED BY <1>4, <3>1, <3>2
    <2> QED BY <1>1, <1>5, <2>1, <2>2
<1>6. \A p \in Area(c) : \E q \in c.files : Linked(p, q)
    BY <1>1, AreaIs
<1>7. (IF c \in done THEN c.projected ELSE c.files) \subseteq DOMAIN entries \cap Area(c)
    BY <1>1, <1>3, <1>4
<1>8. Region(c) = DOMAIN entries \cap Area(c)
    BY <1>3, <1>5, <1>6 DEF Region
<1>9. Region(c) = IF c \in done THEN c.projected ELSE c.files
    BY <1>5, <1>7, <1>8
<1>10. \A d \in done : \A p \in Area(c) : p \in Targets(d.ops) => d = c
    BY <1>1, <1>3, AreasApart
<1>11. \A p \in Region(c) : (p \notin Targets(c.ops) \/ c \notin done) => p \in DOMAIN inv /\ entries[p] = inv[p]
    BY <1>1, <1>8, <1>10
<1> QED BY <1>2, <1>8, <1>9, <1>11

\* A file a run has written satisfies the target it was written for, by its rate or
\* by its credential; only the rate of an Opus file says nothing.
LEMMA GeneratedSatisfies ==
    ASSUME NEW profile \in Profile, NEW t, Generated(t, profile),
           profile.encoded # NoSpec, Codec(t) = profile.encoded.codec,
           Codec(t) = "opus" => t \notin lost
    PROVE  satisfiedEncoded(t, entries[t], profile.encoded)
<1> DEFINE spec == profile.encoded
           rate == entries[t].rate
<1>1. /\ spec.kbps \in Nat /\ spec.codec \in {"mp3", "aac", "opus"} /\ Codec(t) \notin LosslessCodecs
    BY ProfileIs
<1>2. rate \in OutputRates(spec) /\ (entries[t].cred = spec \/ t \in lost)
    BY <1>1 DEF Generated
<1> HIDE DEF spec, rate
<1>3. CASE spec.codec = "mp3"
    <2>1. rate = (spec.kbps * 1000 * 100) \div 100
        BY <1>2, <1>3 DEF OutputRates
    <2>2. rate = spec.kbps * 1000
        BY <1>1, <2>1
    <2>3. measuredBitrateSatisfies(rate, spec)
        BY <1>1, <1>3, <2>2 DEF measuredBitrateSatisfies, bitrateSatisfactionTolerance
    <2> QED BY <1>1, <1>3, <2>3 DEF satisfiedEncoded, spec, rate
<1>4. CASE spec.codec = "aac"
    <2> DEFINE n == IF spec.kbps >= 320 THEN 65 ELSE IF spec.kbps >= 256 THEN 86 ELSE 100
               target == spec.kbps * 1000
    <2>1. rate = (target * n) \div 100
        BY <1>2, <1>4 DEF OutputRates
    <2>2. AacFloor(target) <= n /\ AacFloor(target) \in Nat /\ n \in Nat /\ n <= 110
        BY <1>1 DEF AacFloor, aacExactAbove
    <2>3. rate >= (target * AacFloor(target)) \div 100 /\ rate <= (target * 110) \div 100
        <3>1. CASE spec.kbps >= 320
            BY <1>1, <2>1, <3>1 DEF AacFloor, aacExactAbove
        <3>2. CASE spec.kbps >= 256 /\ ~(spec.kbps >= 320)
            BY <1>1, <2>1, <3>2 DEF AacFloor, aacExactAbove
        <3>3. CASE ~(spec.kbps >= 256)
            BY <1>1, <2>1, <3>3 DEF AacFloor, aacExactAbove
        <3> QED BY <3>1, <3>2, <3>3, <1>1
    <2>4. measuredBitrateSatisfies(rate, spec)
        BY <1>4, <2>3 DEF measuredBitrateSatisfies
    <2> QED BY <1>1, <1>4, <2>4 DEF satisfiedEncoded, spec, rate
<1>5. CASE spec.codec = "opus"
    <2>1. entries[t].cred = spec
        BY <1>2, <1>5 DEF spec
    <2> QED BY <1>5, <2>1 DEF satisfiedEncoded, spec
<1> QED BY <1>1, <1>3, <1>4, <1>5

\* A stem of a component that ran: left alone with its facts, or in its shape.
LEMMA StemHolds ==
    ASSUME PlannerInv, StemsWhole, NEW inv, Follows(inv), NEW c \in done, NEW k \in Stems(c.files)
    PROVE  LET profile == ProfileOf(Only(c.files))
               now == StemNow(c, k)
           IN  /\ now = StemGroup(c.projected, k)
               /\ k \in c.unmet => /\ scene.mode = "available_sources" /\ now = StemGroup(c.files, k)
                                   /\ Unreachable(inv, now, profile)
                                   /\ \A p \in now : entries[p] = inv[p]
               /\ k \notin c.unmet =>
                    /\ Shaped(now, profile)
                    /\ \A p \in now \ Lossless(now) :
                         /\ profile.encoded # NoSpec
                         /\ (Codec(p) = "opus" => p \notin lost) =>
                              satisfiedEncoded(p, entries[p], profile.encoded)
<1> DEFINE profile == ProfileOf(Only(c.files))
           now == StemNow(c, k)
           T == Targets(c.ops)
<1>1. /\ c \in plan /\ c \in Outcomes(inv) /\ SceneOK /\ IsInventory(inv)
      /\ \A t \in T : Generated(t, profile)
    BY DEF PlannerInv, Follows
<1>2. /\ Region(c) = c.projected /\ PlannedFor(inv, c, profile)
      /\ \A p \in Region(c) : p \notin T => entries[p] = inv[p]
    BY <1>1, RegionIs
<1>3. profile \in Profile /\ (scene.mode = "strict" => c.unmet = {})
    BY <1>1, PlanIs
<1>4. now = StemGroup(c.projected, k) /\ now \subseteq Region(c)
    BY <1>2 DEF StemNow, StemGroup
<1>5. ASSUME k \in c.unmet
      PROVE  /\ scene.mode = "available_sources" /\ now = StemGroup(c.files, k)
             /\ Unreachable(inv, now, profile) /\ \A p \in now : entries[p] = inv[p]
    <2>1. now = StemGroup(c.files, k) /\ now \cap T = {} /\ Unreachable(inv, now, profile)
        BY <1>2, <1>4, <1>5 DEF PlannedFor
    <2>2. scene.mode = "available_sources"
        BY <1>1, <1>3, <1>5 DEF SceneOK
    <2> HIDE DEF now
    <2> QED BY <1>2, <1>4, <2>1, <2>2
<1>6. ASSUME k \notin c.unmet
      PROVE  /\ Shaped(now, profile)
             /\ \A p \in now \ Lossless(now) :
                  /\ profile.encoded # NoSpec
                  /\ (Codec(p) = "opus" => p \notin lost) => satisfiedEncoded(p, entries[p], profile.encoded)
    <2>1. ShapedBy(inv, now, profile, now \cap T)
        BY <1>2, <1>4, <1>6 DEF PlannedFor
    <2> HIDE DEF now, profile
    <2>2. ASSUME NEW p \in now \ Lossless(now)
          PROVE  /\ profile.encoded # NoSpec
                 /\ (Codec(p) = "opus" => p \notin lost) => satisfiedEncoded(p, entries[p], profile.encoded)
        <3>1. /\ profile.encoded # NoSpec /\ Codec(p) = profile.encoded.codec
              /\ p \notin now \cap T => satisfiedEncoded(p, inv[p], profile.encoded)
            BY <2>1, <2>2 DEF ShapedBy
        <3>2. CASE p \in T
            BY <1>1, <1>3, <3>1, <3>2, GeneratedSatisfies
        <3>3. CASE p \notin T
            BY <1>2, <1>4, <2>2, <3>1, <3>3
        <3> QED BY <3>1, <3>2, <3>3
    <2>3. \A p \in now \ Lossless(now) :
            profile.encoded # NoSpec /\ (satisfiedEncoded(p, entries[p], profile.encoded) \/ p \in lost)
        BY <2>2
    <2>4. Shaped(now, profile)
        BY <2>1, <2>3 DEF Shaped, ShapedBy
    <2> QED BY <2>2, <2>4
<1> QED BY <1>4, <1>5, <1>6

\* A component that ran left what was projected, in the declared shape.
LEMMA AppliedAndShaped ==
    ASSUME PlannerInv
    PROVE  AppliedAsProjected /\ ShapeReached
<1>1. ASSUME StemsWhole, NEW c \in done
      PROVE  Region(c) = c.projected
    BY <1>1, RegionIs DEF PlannerInv
<1>2. ASSUME StemsWhole, NEW c \in done, NEW k \in Stems(c.files)
      PROVE  IF k \in c.unmet
             THEN scene.mode = "available_sources" /\ StemNow(c, k) = StemGroup(c.files, k)
             ELSE Shaped(StemNow(c, k), ProfileOf(Only(c.files)))
    <2>1. PICK inv : Follows(inv)
        BY <1>2 DEF PlannerInv
    <2> QED BY <1>2, <2>1, StemHolds
<1> QED BY <1>1, <1>2 DEF AppliedAsProjected, ShapeReached

\* Every target of a planned component resolves to a declared spec.
LEMMA SpecsAre ==
    ASSUME OneSpelling, NEW inv, Started(inv), IsInventory(inv), NEW profile \in {scene.matched, scene.unmatched},
           profile \in Profile, NEW C, C \subseteq DOMAIN inv, NEW t, OutputOf(t, C, profile), Spelled(t, C)
    PROVE  SpecFor(profile, t) # NoSpec
<1>1. CASE profile.lossless # NoSpec /\ Codec(t) = profile.lossless
    <2>1. t.ext = profile.lossless
        BY <1>1, ProfileIs DEF Codec, LosslessCodecs
    <2> QED BY <1>1, <2>1 DEF SpecFor
<1>2. CASE profile.encoded # NoSpec /\ Codec(t) = profile.encoded.codec
    <2>1. t.ext = ExtForCodec(profile.encoded.codec)
        <3>1. CASE t.ext = ExtForCodec(Codec(t))
            BY <1>2, <3>1
        <3>2. CASE scene.mode = "strict" /\ t \in C
            <4>1. profile.encoded.codec = "aac" => t.ext # "aac"
                BY <1>2, <3>2 DEF OneSpelling, Started
            <4>2. t \in Path
                BY <3>2 DEF IsInventory
            <4> QED BY <1>2, <4>1, <4>2 DEF Codec, ExtForCodec
        <3> QED BY <3>1, <3>2 DEF Spelled
    <2> QED BY <1>2, <2>1 DEF SpecFor
<1> QED BY <1>1, <1>2 DEF OutputOf

\* A planned component passes the precheck, whatever its siblings did.
LEMMA ExecutableHolds ==
    ASSUME PlannerInv, OneSpelling
    PROVE  Executable
<1> SUFFICES ASSUME NEW c \in plan \ done, IsOK(c)
             PROVE  IF StemsWhole THEN PrecheckAccepts(entries, c)
                    ELSE done = {} => \A t \in Targets(c.ops) \cap DOMAIN entries :
                                         t \in c.files \/ Codec(t) \in LosslessCodecs
    BY DEF Executable
<1> DEFINE profile == ProfileOf(Only(c.files))
           T == Targets(c.ops)
<1>1. PICK inv : Follows(inv)
    BY DEF PlannerInv
<1>2. /\ SceneOK /\ Started(inv) /\ IsInventory(inv) /\ c \in Outcomes(inv) /\ c \in plan
      /\ done = {} => entries = inv
    BY <1>1 DEF PlannerInv, Follows
<1>3. PlannedFor(inv, c, profile) /\ profile \in Profile /\ c.files \subseteq DOMAIN inv
    BY <1>2, PlanIs
<1>4. /\ EncodesOf(inv, c.files, profile, Encodes(c)) /\ Targets(Encodes(c)) = T
      /\ \A op \in c.ops \ Encodes(c) : op = Remove(op.src, T)
      /\ Removed(c) \cap T = {}
    BY <1>3 DEF PlannedFor
<1>5. \A t \in T : /\ OutputOf(t, c.files, profile)
                   /\ t \in DOMAIN inv => t \in c.files \/ Codec(t) \in LosslessCodecs
                   /\ Spelled(t, c.files)
    BY <1>4, TargetsFinite
<1>6. ASSUME ~StemsWhole, done = {}, NEW t \in T \cap DOMAIN entries
      PROVE  t \in c.files \/ Codec(t) \in LosslessCodecs
    BY <1>2, <1>5, <1>6
<1>7. ASSUME StemsWhole
      PROVE  PrecheckAccepts(entries, c)
    <2>1. \A t \in T : SpecFor(profile, t) # NoSpec
        <3>1. profile \in {scene.matched, scene.unmatched}
            BY DEF ProfileOf
        <3> HIDE DEF profile, T
        <3> QED BY <1>2, <1>3, <1>5, <3>1, SpecsAre
    <2>2. Cardinality(T) = Cardinality(Encodes(c))
        BY <1>4, TargetsFinite
    <2>3. T \cap {op.src : op \in c.ops} = {}
        <3> SUFFICES ASSUME NEW op \in c.ops, op.src \in T PROVE FALSE
            OBVIOUS
        <3>1. CASE op \in Encodes(c)
            <4>1. op.src \in c.files /\ Codec(op.src) \in LosslessCodecs
                BY <1>4, <3>1 DEF EncodesOf, Lossless
            <4> QED BY <1>3, <1>5, <4>1, ProfileIs DEF OutputOf
        <3>2. CASE op \notin Encodes(c)
            BY <1>4, <3>2 DEF Removed
        <3> QED BY <3>1, <3>2
    <2>4. \A op \in c.ops \ Encodes(c) : op.deps \subseteq T
        BY <1>4 DEF Remove
    <2>5. Region(c) = c.files /\ Region(c) = DOMAIN entries \cap Area(c)
        BY <1>1, <1>2, <1>7, RegionIs
    <2>6. c.files \subseteq DOMAIN entries /\ T \cap DOMAIN entries \subseteq c.files
        BY <2>5 DEF Area
    <2> QED BY <2>1, <2>2, <2>3, <2>4, <2>6 DEF PrecheckAccepts
<1> QED BY <1>6, <1>7

-----------------------------------------------------------------------------
(* Planning again.                                                         *)

\* Inventories that agree on a group of files agree on what its stem lacks.
LEMMA StemSame ==
    ASSUME NEW i1, NEW i2, NEW G, NEW profile, \A p \in G : i1[p] = i2[p]
    PROVE  /\ declaredEncoded(i1, G, profile) = declaredEncoded(i2, G, profile)
           /\ (encodedNeedsRebuild(i1, G, profile) <=> encodedNeedsRebuild(i2, G, profile))
           /\ (needsOutput(i1, G, profile) <=> needsOutput(i2, G, profile))
           /\ (NeedsEncoded(i1, G, profile) <=> NeedsEncoded(i2, G, profile))
           /\ (Unreachable(i1, G, profile) <=> Unreachable(i2, G, profile))
           /\ replaced(i1, G, profile) = replaced(i2, G, profile)
           /\ lenientEncodes(i1, G, profile) = lenientEncodes(i2, G, profile)
           /\ \A rebuild : encodedObsolete(i1, G, profile, rebuild) = encodedObsolete(i2, G, profile, rebuild)
<1>1. declaredEncoded(i1, G, profile) = declaredEncoded(i2, G, profile)
    BY DEF declaredEncoded, EncodedTarget, OfCodec
<1>2. encodedNeedsRebuild(i1, G, profile) <=> encodedNeedsRebuild(i2, G, profile)
    BY <1>1 DEF encodedNeedsRebuild
<1>3. needsOutput(i1, G, profile) <=> needsOutput(i2, G, profile)
    BY <1>1 DEF needsOutput
<1>4. NeedsEncoded(i1, G, profile) <=> NeedsEncoded(i2, G, profile)
    BY <1>1 DEF NeedsEncoded
<1>5. (Unreachable(i1, G, profile) <=> Unreachable(i2, G, profile))
    BY <1>3 DEF Unreachable
<1>6. replaced(i1, G, profile) = replaced(i2, G, profile)
    BY <1>1 DEF replaced
<1>7. lenientEncodes(i1, G, profile) = lenientEncodes(i2, G, profile)
    BY <1>4, <1>6 DEF lenientEncodes
<1>8. \A rebuild : encodedObsolete(i1, G, profile, rebuild) = encodedObsolete(i2, G, profile, rebuild)
    BY <1>1 DEF encodedObsolete
<1> QED BY <1>1, <1>2, <1>3, <1>4, <1>5, <1>6, <1>7, <1>8

\* A file beside one of a stem is in the stem, or nowhere in the inventory.
LEMMA BesideIsFree ==
    ASSUME SceneOK, StemsWhole, NEW inv, IsInventory(inv), NEW C \in BuildComponents(DOMAIN inv),
           NEW k, NEW q \in StemGroup(C, k), NEW codec \in {"mp3", "aac", "opus"}
    PROVE  sameStemPath(q, codec) \in DOMAIN inv => sameStemPath(q, codec) \in StemGroup(C, k)
<1> DEFINE t == sameStemPath(q, codec)
<1>1. q \in C /\ Key(q.name) = k /\ q \in Path /\ Closed(C, DOMAIN inv)
    BY PartsAre DEF StemGroup, IsInventory
<1>2. t \in Path /\ Twin(t, q)
    BY <1>1, BesideIs
<1> HIDE DEF t
<1>3. Linked(t, q) /\ Key(t.name) = k
    BY <1>1, <1>2, TwinsAreLinked DEF Twin
<1>4. t \in DOMAIN inv => t \in C
    BY <1>1, <1>3 DEF Closed
<1> QED BY <1>3, <1>4 DEF StemGroup, t

\* No target of a stem is in the way of another component.
LEMMA NothingInTheWay ==
    ASSUME SceneOK, StemsWhole, NEW inv, IsInventory(inv), NEW C \in BuildComponents(DOMAIN inv),
           NEW k, NEW profile \in Profile, profile.encoded # NoSpec,
           qualifiedSources(StemGroup(C, k), profile) # {}
    PROVE  /\ encodedTargetPath(StemGroup(C, k), profile) \notin DOMAIN inv \ C
           /\ replaced(inv, StemGroup(C, k), profile) \notin DOMAIN inv \ StemGroup(C, k)
<1> DEFINE G == StemGroup(C, k)
           below == EncodedTarget(G, profile) \ declaredEncoded(inv, G, profile)
<1>1. Only(qualifiedSources(G, profile)) \in G
    BY OnlyIs, SourcesAre
<1>2. profile.encoded.codec \in {"mp3", "aac", "opus"} /\ G \subseteq C
    BY ProfileIs DEF StemGroup
<1>3. encodedTargetPath(G, profile) \notin DOMAIN inv \ C
    <2>1. CASE EncodedTarget(G, profile) # {}
        <3>1. Only(EncodedTarget(G, profile)) \in EncodedTarget(G, profile)
            BY <2>1, OnlyIs
        <3>2. EncodedTarget(G, profile) \subseteq G
            BY DEF EncodedTarget, OfCodec
        <3> QED BY <1>2, <2>1, <3>1, <3>2 DEF encodedTargetPath
    <2>2. CASE EncodedTarget(G, profile) = {}
        <3>1. encodedTargetPath(G, profile) =
                sameStemPath(Only(qualifiedSources(G, profile)), profile.encoded.codec)
            BY <2>2 DEF encodedTargetPath
        <3> QED BY <1>1, <1>2, <3>1, BesideIsFree
    <2> QED BY <2>1, <2>2
<1>4. replaced(inv, G, profile) \notin DOMAIN inv \ G
    <2>1. \E q \in G : replaced(inv, G, profile) = sameStemPath(q, profile.encoded.codec)
        <3>1. CASE Cardinality(below) = 1
            <4>1. below # {}
                BY <3>1, FS_EmptySet
            <4>2. Only(below) \in G
                BY <4>1, OnlyIs DEF EncodedTarget, OfCodec
            <4> QED BY <3>1, <4>2 DEF replaced
        <3>2. CASE Cardinality(below) # 1
            BY <1>1, <3>2 DEF replaced
        <3> QED BY <3>1, <3>2
    <2> QED BY <1>2, <2>1, BesideIsFree
<1> QED BY <1>3, <1>4

\* The row of a component depends on the facts of its own files alone.
LEMMA RowSame ==
    ASSUME SceneOK, StemsWhole, NEW i1, IsInventory(i1), NEW i2, IsInventory(i2),
           NEW C \in BuildComponents(DOMAIN i1), C \in BuildComponents(DOMAIN i2),
           \A p \in C : i1[p] = i2[p]
    PROVE  Row(i1, C) = Row(i2, C)
<1> DEFINE profile == ProfileOf(Only(C))
<1>1. profile \in Profile /\ C \subseteq DOMAIN i1 /\ C \subseteq DOMAIN i2
    BY PartsAre
<1> HIDE DEF profile
<1>2. ASSUME NEW k
      PROVE  LET G == StemGroup(C, k) IN
               /\ declaredEncoded(i1, G, profile) = declaredEncoded(i2, G, profile)
               /\ (encodedNeedsRebuild(i1, G, profile) <=> encodedNeedsRebuild(i2, G, profile))
               /\ (needsOutput(i1, G, profile) <=> needsOutput(i2, G, profile))
               /\ (NeedsEncoded(i1, G, profile) <=> NeedsEncoded(i2, G, profile))
               /\ (Unreachable(i1, G, profile) <=> Unreachable(i2, G, profile))
               /\ lenientEncodes(i1, G, profile) = lenientEncodes(i2, G, profile)
               /\ \A rebuild : encodedObsolete(i1, G, profile, rebuild) = encodedObsolete(i2, G, profile, rebuild)
    <2> DEFINE G == StemGroup(C, k)
    <2>1. \A p \in G : i1[p] = i2[p]
        BY DEF StemGroup
    <2> HIDE DEF G
    <2>2. /\ declaredEncoded(i1, G, profile) = declaredEncoded(i2, G, profile)
          /\ (encodedNeedsRebuild(i1, G, profile) <=> encodedNeedsRebuild(i2, G, profile))
          /\ (needsOutput(i1, G, profile) <=> needsOutput(i2, G, profile))
          /\ (NeedsEncoded(i1, G, profile) <=> NeedsEncoded(i2, G, profile))
          /\ (Unreachable(i1, G, profile) <=> Unreachable(i2, G, profile))
          /\ lenientEncodes(i1, G, profile) = lenientEncodes(i2, G, profile)
          /\ \A rebuild : encodedObsolete(i1, G, profile, rebuild) = encodedObsolete(i2, G, profile, rebuild)
        BY <2>1, StemSame
    <2> QED BY <2>2 DEF G
<1>3. reconcileComponent(i1, C, profile) = reconcileComponent(i2, C, profile)
    <2>1. StrictRebuild(i1, C, profile) = StrictRebuild(i2, C, profile)
        BY <1>2 DEF StrictRebuild
    <2>2. StrictRebuild(i1, C, profile) => profile.encoded # NoSpec
        BY DEF StrictRebuild, encodedNeedsRebuild
    <2>3. ASSUME NEW k, StrictRebuild(i1, C, profile)
          PROVE  RebuildReason(i1, C, StemGroup(C, k), profile) = RebuildReason(i2, C, StemGroup(C, k), profile)
        <3>1. CASE qualifiedSources(StemGroup(C, k), profile) = {}
            BY <3>1 DEF RebuildReason
        <3>2. CASE qualifiedSources(StemGroup(C, k), profile) # {}
            <4>1. /\ encodedTargetPath(StemGroup(C, k), profile) \notin DOMAIN i1 \ C
                  /\ encodedTargetPath(StemGroup(C, k), profile) \notin DOMAIN i2 \ C
                BY <1>1, <2>2, <2>3, <3>2, NothingInTheWay
            <4> QED BY <3>2, <4>1 DEF RebuildReason
        <3> QED BY <3>1, <3>2
    <2>4. EncodedReasons(i1, C, profile) = EncodedReasons(i2, C, profile)
        BY <2>1, <2>3 DEF EncodedReasons
    <2>5. StrictReason(i1, C, profile) = StrictReason(i2, C, profile)
        BY <2>4 DEF StrictReason
    <2>6. StrictE(i1, C, profile) = StrictE(i2, C, profile)
        BY <2>1 DEF StrictE
    <2>7. StrictR(i1, C, profile) = StrictR(i2, C, profile)
        <3>1. \A k, rebuild : StrictRemoves(i1, StemGroup(C, k), profile, rebuild)
                              = StrictRemoves(i2, StemGroup(C, k), profile, rebuild)
            BY <1>2 DEF StrictRemoves
        <3> QED BY <2>1, <3>1 DEF StrictR
    <2>8. StrictK(i1, C, profile) = StrictK(i2, C, profile)
        <3>1. \A k, rebuild : StrictKept(i1, StemGroup(C, k), profile, rebuild)
                              = StrictKept(i2, StemGroup(C, k), profile, rebuild)
            BY <1>2 DEF StrictKept
        <3> QED BY <2>1, <3>1 DEF StrictK
    <2> QED BY <2>5, <2>6, <2>7, <2>8, StrictIs
<1>4. lenientComponent(i1, C, profile) = lenientComponent(i2, C, profile)
    <2>1. ASSUME NEW k
          PROVE  Unreachable(i1, StemGroup(C, k), profile) <=> Unreachable(i2, StemGroup(C, k), profile)
        BY <1>2
    <2>2. RelaxedUnmet(i1, C, profile) = RelaxedUnmet(i2, C, profile)
        BY <2>1 DEF RelaxedUnmet
    <2>3. ASSUME NEW k
          PROVE  StemReason(i1, StemGroup(C, k), profile) = StemReason(i2, StemGroup(C, k), profile)
        <3> DEFINE G == StemGroup(C, k)
        <3>1. /\ (needsOutput(i1, G, profile) <=> needsOutput(i2, G, profile))
              /\ (NeedsEncoded(i1, G, profile) <=> NeedsEncoded(i2, G, profile))
              /\ (Unreachable(i1, G, profile) <=> Unreachable(i2, G, profile))
            BY <1>2
        <3>2. CASE ~Unreachable(i1, G, profile) /\ NeedsEncoded(i1, G, profile)
            <4>1. profile.encoded # NoSpec /\ needsOutput(i1, G, profile)
                BY <3>2 DEF NeedsEncoded, needsOutput
            <4>2. qualifiedSources(G, profile) # {}
                BY <3>2, <4>1 DEF Unreachable
            <4>3. /\ replaced(i1, G, profile) \notin DOMAIN i1 \ G
                  /\ replaced(i2, G, profile) \notin DOMAIN i2 \ G
                BY <1>1, <4>1, <4>2, NothingInTheWay
            <4> QED BY <3>1, <4>3 DEF StemReason
        <3>3. CASE Unreachable(i1, G, profile) \/ ~NeedsEncoded(i1, G, profile)
            BY <3>1, <3>3 DEF StemReason
        <3> QED BY <3>2, <3>3
    <2>4. RelaxedReason(i1, C, profile) = RelaxedReason(i2, C, profile)
        BY <2>3 DEF RelaxedReason, RelaxedReasons
    <2>5. \A k : lenientEncodes(i1, StemGroup(C, k), profile) = lenientEncodes(i2, StemGroup(C, k), profile)
        BY <1>2
    <2>6. \A k : RelaxedKept(i1, StemGroup(C, k), profile) = RelaxedKept(i2, StemGroup(C, k), profile)
        BY <1>2 DEF RelaxedKept
    <2>7. \A k : RelaxedRemoves(i1, StemGroup(C, k), profile) = RelaxedRemoves(i2, StemGroup(C, k), profile)
        BY <2>5, <2>6 DEF RelaxedRemoves
    <2>8. RelaxedE(i1, C, profile) = RelaxedE(i2, C, profile)
        BY <2>2, <2>5 DEF RelaxedE
    <2>9. RelaxedR(i1, C, profile) = RelaxedR(i2, C, profile)
        BY <2>2, <2>7 DEF RelaxedR
    <2>10. RelaxedK(i1, C, profile) = RelaxedK(i2, C, profile)
        BY <2>2, <2>6 DEF RelaxedK
    <2> QED BY <1>1, <2>2, <2>4, <2>8, <2>9, <2>10, RelaxedIs
<1> QED BY <1>3, <1>4 DEF Row, profile

\* A stem that holds its declared shape.
InShape(inv, G, profile) ==
    /\ profile.lossless # NoSpec => OfCodec(G, profile.lossless) # {}
    /\ Lossless(G) = declaredLossless(G, profile)
    /\ profile.encoded # NoSpec => EncodedTarget(G, profile) # {}
    /\ \A p \in G \ Lossless(G) :
         profile.encoded # NoSpec /\ satisfiedEncoded(p, inv[p], profile.encoded)

\* The tables find nothing to do in it.
LEMMA NothingToDo ==
    ASSUME NEW inv, NEW G, NEW profile \in Profile, InShape(inv, G, profile)
    PROVE  /\ profile.lossless # NoSpec => Lossless(G) # {}
           /\ ~encodedNeedsRebuild(inv, G, profile)
           /\ StrictEncodes(G, profile, FALSE) = {} /\ StrictRemoves(inv, G, profile, FALSE) = {}
           /\ ~needsOutput(inv, G, profile) /\ StemReason(inv, G, profile) = "ok"
           /\ lenientEncodes(inv, G, profile) = {} /\ RelaxedRemoves(inv, G, profile) = {}
<1>1. profile.lossless # NoSpec => declaredLossless(G, profile) # {} /\ Lossless(G) # {}
    BY DEF InShape, declaredLossless
<1>2. profile.encoded # NoSpec =>
        /\ EncodedTarget(G, profile) # {}
        /\ declaredEncoded(inv, G, profile) = EncodedTarget(G, profile)
        /\ declaredEncoded(inv, G, profile) = G \ Lossless(G)
    <2> SUFFICES ASSUME profile.encoded # NoSpec
                 PROVE  /\ EncodedTarget(G, profile) # {}
                        /\ declaredEncoded(inv, G, profile) = EncodedTarget(G, profile)
                        /\ declaredEncoded(inv, G, profile) = G \ Lossless(G)
        OBVIOUS
    <2>1. EncodedTarget(G, profile) # {}
        BY DEF InShape
    <2>2. \A p \in G \ Lossless(G) : p \in declaredEncoded(inv, G, profile)
        BY DEF InShape, declaredEncoded, EncodedTarget, OfCodec, satisfiedEncoded
    <2>3. \A p \in EncodedTarget(G, profile) : p \in G \ Lossless(G)
        BY ProfileIs DEF EncodedTarget, OfCodec, Lossless
    <2>4. declaredEncoded(inv, G, profile) \subseteq EncodedTarget(G, profile)
        BY DEF declaredEncoded
    <2> QED BY <2>1, <2>2, <2>3, <2>4
<1>3. profile.encoded = NoSpec => G \ Lossless(G) = {}
    BY DEF InShape
<1>4. Lossless(G) = declaredLossless(G, profile)
    BY DEF InShape
<1>5. ~encodedNeedsRebuild(inv, G, profile)
    BY <1>2 DEF encodedNeedsRebuild
<1>6. StrictEncodes(G, profile, FALSE) = {}
    BY <1>1 DEF StrictEncodes, losslessEncodeSrc
<1>7. StrictRemoves(inv, G, profile, FALSE) = {}
    BY <1>2, <1>3, <1>4 DEF StrictRemoves, losslessObsolete, encodedObsolete
<1>8. ~needsOutput(inv, G, profile) /\ ~NeedsEncoded(inv, G, profile)
    BY <1>1, <1>2 DEF needsOutput, NeedsEncoded
<1>9. StemReason(inv, G, profile) = "ok"
    BY <1>8 DEF StemReason
<1>10. lenientEncodes(inv, G, profile) = {}
    BY <1>1, <1>8 DEF lenientEncodes
<1>11. RelaxedRemoves(inv, G, profile) = {}
    BY <1>2, <1>3, <1>4 DEF RelaxedRemoves, RelaxedKept
<1> QED BY <1>1, <1>5, <1>6, <1>7, <1>8, <1>9, <1>10, <1>11

\* An outcome with nothing to build and nothing to remove has no operations.
LEMMA IdleOutcome ==
    ASSUME NEW C, NEW E, NEW R, NEW K, NEW unmet, \A k \in Stems(C) : E[k] = {} /\ R[k] = {}
    PROVE  IsOK(OutcomeOf(C, E, R, K, unmet)) /\ OutcomeOf(C, E, R, K, unmet).ops = {}
<1>1. StemsOf(E, C) = {} /\ StemsOf(R, C) = {}
    BY DEF StemsOf
<1> QED BY <1>1 DEF OutcomeOf, ComponentOutcome, IsOK

\* A component whose stems hold their shape, or cannot reach it, is settled.
LEMMA SettledRow ==
    ASSUME SceneOK, NEW inv, IsInventory(inv), NEW C \in BuildComponents(DOMAIN inv),
           \A k \in Stems(C) :
              \/ InShape(inv, StemGroup(C, k), ProfileOf(Only(C)))
              \/ /\ scene.mode = "available_sources"
                 /\ Unreachable(inv, StemGroup(C, k), ProfileOf(Only(C)))
    PROVE  IsOK(Row(inv, C)) /\ Row(inv, C).ops = {}
<1> DEFINE profile == ProfileOf(Only(C))
<1>1. profile \in Profile /\ C \subseteq DOMAIN inv
    BY PartsAre
<1>2. Stems(C) \subseteq Nat
    BY <1>1, PlannerAssumption DEF Stems, IsInventory, Path
<1> HIDE DEF profile
<1>3. ASSUME scene.mode = "strict"
      PROVE  /\ IsOK(reconcileComponent(inv, C, profile))
             /\ reconcileComponent(inv, C, profile).ops = {}
    <2>1. \A k \in Stems(C) : InShape(inv, StemGroup(C, k), profile)
        BY <1>3 DEF profile
    <2>2. StrictRebuild(inv, C, profile) = FALSE
        BY <1>1, <2>1, NothingToDo DEF StrictRebuild
    <2>3. StrictReason(inv, C, profile) = "ok"
        <3>1. \A k \in Stems(C) : LosslessReasons(C, profile)[k] = "ok"
            BY <1>1, <2>1, NothingToDo DEF LosslessReasons
        <3>2. \A k \in Stems(C) : EncodedReasons(inv, C, profile)[k] = "ok"
            BY <2>2 DEF EncodedReasons
        <3>3. DOMAIN LosslessReasons(C, profile) = Stems(C) /\ DOMAIN EncodedReasons(inv, C, profile) = Stems(C)
            BY DEF LosslessReasons, EncodedReasons
        <3>4. FirstReason(LosslessReasons(C, profile)) = "ok" /\ FirstReason(EncodedReasons(inv, C, profile)) = "ok"
            BY <1>2, <3>1, <3>2, <3>3, FirstReasonIs
        <3> QED BY <3>4 DEF StrictReason
    <2>4. \A k \in Stems(C) : StrictE(inv, C, profile)[k] = {} /\ StrictR(inv, C, profile)[k] = {}
        BY <1>1, <2>1, <2>2, NothingToDo DEF StrictE, StrictR
    <2> QED BY <2>3, <2>4, StrictIs, IdleOutcome
<1>4. ASSUME scene.mode = "available_sources"
      PROVE  /\ IsOK(lenientComponent(inv, C, profile))
             /\ lenientComponent(inv, C, profile).ops = {}
    <2>1. ASSUME NEW k \in Stems(C)
          PROVE  /\ StemReason(inv, StemGroup(C, k), profile) = "ok"
                 /\ RelaxedE(inv, C, profile)[k] = {} /\ RelaxedR(inv, C, profile)[k] = {}
        <3> DEFINE G == StemGroup(C, k)
        <3>1. InShape(inv, G, profile) \/ Unreachable(inv, G, profile)
            BY DEF profile
        <3>2. CASE Unreachable(inv, G, profile)
            <4>1. qualifiedSources(G, profile) = {}
                BY <3>2 DEF Unreachable
            <4>2. ~(Cardinality(qualifiedSources(G, profile)) > 1)
                BY <4>1, FS_EmptySet
            <4>3. k \in RelaxedUnmet(inv, C, profile)
                BY <3>2 DEF RelaxedUnmet
            <4> QED BY <3>2, <4>2, <4>3 DEF StemReason, RelaxedE, RelaxedR
        <3>3. CASE InShape(inv, G, profile)
            <4>1. /\ ~needsOutput(inv, G, profile) /\ StemReason(inv, G, profile) = "ok"
                  /\ lenientEncodes(inv, G, profile) = {} /\ RelaxedRemoves(inv, G, profile) = {}
                BY <1>1, <3>3, NothingToDo
            <4> QED BY <4>1 DEF RelaxedE, RelaxedR
        <3> QED BY <3>1, <3>2, <3>3
    <2>2. RelaxedReason(inv, C, profile) = "ok"
        <3>1. DOMAIN RelaxedReasons(inv, C, profile) = Stems(C)
              /\ \A k \in Stems(C) : RelaxedReasons(inv, C, profile)[k] = "ok"
            BY <2>1 DEF RelaxedReasons
        <3> QED BY <1>2, <3>1, FirstReasonIs DEF RelaxedReason
    <2> QED BY <1>1, <2>1, <2>2, RelaxedIs, IdleOutcome
<1> QED BY <1>3, <1>4 DEF SceneOK, Row, profile

\* A component that has not run is planned as it was.
LEMMA PendingStands ==
    ASSUME PlannerInv, StemsWhole, NEW c \in plan \ done
    PROVE  c \in Outcomes(entries)
<1> DEFINE C == c.files
           S == DOMAIN entries
<1>1. PICK inv : Follows(inv)
    BY DEF PlannerInv
<1>2. /\ SceneOK /\ IsInventory(inv) /\ IsInventory(entries) /\ c \in Outcomes(inv) /\ c \in plan /\ c \notin done
    BY <1>1 DEF PlannerInv, Follows
<1>3. C \in BuildComponents(DOMAIN inv) /\ c = Row(inv, C)
    BY <1>2, PlanIs
<1>4. /\ C # {} /\ C \subseteq DOMAIN inv /\ Closed(C, DOMAIN inv)
      /\ \A p \in C : Component(DOMAIN inv, p) = C
    BY <1>2, <1>3, PartsAre
<1>5. Region(c) = C /\ \A p \in C : entries[p] = inv[p]
    BY <1>1, <1>2, RegionIs
<1>6. C \subseteq S /\ Closed(C, S)
    BY <1>5 DEF Region, Closed
<1> HIDE DEF C, S
<1>7. ASSUME NEW p \in C PROVE Component(S, p) = C
    <2>1. p \in S
        BY <1>6, <1>7
    <2>2. /\ Component(S, p) \subseteq S /\ p \in Component(S, p) /\ Closed(Component(S, p), S)
          /\ \A B \in SUBSET S : p \in B /\ Closed(B, S) => Component(S, p) \subseteq B
        BY <2>1, ComponentHolds
    <2>3. Component(S, p) \subseteq C
        BY <1>6, <1>7, <2>2
    <2>4. Closed(Component(S, p), DOMAIN inv)
        <3> SUFFICES ASSUME NEW r \in Component(S, p), NEW q \in DOMAIN inv, Linked(q, r)
                     PROVE  q \in Component(S, p)
            BY DEF Closed
        <3>1. q \in C
            BY <1>4, <2>3 DEF Closed
        <3> QED BY <1>6, <2>2, <3>1 DEF Closed
    <2>5. C \subseteq Component(S, p)
        <3>1. Component(DOMAIN inv, p) = C
            BY <1>4, <1>7
        <3>2. Component(S, p) \in SUBSET DOMAIN inv
            BY <1>4, <2>3
        <3>3. p \in DOMAIN inv
            BY <1>4, <1>7
        <3>4. \A B \in SUBSET DOMAIN inv : p \in B /\ Closed(B, DOMAIN inv) => Component(DOMAIN inv, p) \subseteq B
            BY <3>3, ComponentHolds
        <3> QED BY <2>2, <2>4, <3>1, <3>2, <3>4
    <2> QED BY <2>3, <2>5
<1>8. C \in BuildComponents(S)
    BY <1>4, <1>6, <1>7 DEF BuildComponents
<1>9. Row(entries, C) = Row(inv, C)
    BY <1>2, <1>3, <1>5, <1>8, RowSame DEF S
<1> QED BY <1>3, <1>8, <1>9, OutcomesAre DEF S

\* A component that ran is settled, unless an Opus file of it lost its credential.
LEMMA DoneIsSettled ==
    ASSUME PlannerInv, StemsWhole, NEW c \in done, \A p \in lost \cap Region(c) : Codec(p) # "opus",
           NEW o \in Outcomes(entries), o.files \cap Region(c) # {}
    PROVE  IsOK(o) /\ o.ops = {}
<1> DEFINE C == o.files
           S == DOMAIN entries
           profile == ProfileOf(Only(c.files))
<1>1. PICK inv : Follows(inv)
    BY DEF PlannerInv
<1>2. /\ SceneOK /\ IsInventory(inv) /\ IsInventory(entries) /\ c \in Outcomes(inv) /\ c \in plan
    BY <1>1 DEF PlannerInv, Follows
<1>3. /\ C \in BuildComponents(S) /\ o = Row(entries, C)
    BY <1>2, PlanIs
<1>4. /\ C # {} /\ C \subseteq S /\ Closed(C, S) /\ Only(C) \in C
      /\ \A p \in C : Component(S, p) = C
    BY <1>2, <1>3, PartsAre
<1>5. Region(c) = c.projected /\ Region(c) = S \cap Area(c)
    BY <1>1, <1>2, RegionIs
<1>6. \A p \in Area(c) : /\ Matched(p) = Matched(Only(c.files)) /\ ProfileOf(p) = profile
                         /\ Key(p.name) \in Stems(c.files)
    BY <1>2, AreaIs
<1>7. Closed(Region(c), S)
    <2> SUFFICES ASSUME NEW r \in Region(c), NEW q \in S, Linked(q, r) PROVE q \in Region(c)
        BY DEF Closed
    <2>1. PICK d \in plan : q \in Area(d)
        <3>1. \/ \E d \in plan \ done : q \in d.files
              \/ \E d \in done : q \in d.projected
            BY <1>1 DEF Follows
        <3>2. \A d \in done : d \in plan /\ d.projected \subseteq Area(d)
            <4> SUFFICES ASSUME NEW d \in done PROVE d \in plan /\ d.projected \subseteq Area(d)
                OBVIOUS
            <4>1. d \in plan
                BY DEF PlannerInv
            <4> QED BY <1>1, <4>1, RegionIs
        <3> QED BY <3>1, <3>2 DEF Area
    <2>2. d \in Outcomes(inv) /\ r \in Area(c)
        BY <1>1, <1>5 DEF Follows
    <2>3. d = c
        BY <1>2, <2>1, <2>2, AreasApart
    <2> QED BY <1>5, <2>1, <2>3
<1>8. C \subseteq Region(c)
    <2>1. PICK x \in C : x \in Region(c)
        OBVIOUS
    <2>2. Component(S, x) = C /\ x \in S
        BY <1>4
    <2>3. Region(c) \in SUBSET S
        BY <1>5
    <2>4. \A B \in SUBSET S : x \in B /\ Closed(B, S) => Component(S, x) \subseteq B
        BY <2>2, ComponentHolds
    <2> HIDE DEF C, S
    <2> QED BY <1>7, <2>1, <2>2, <2>3, <2>4
<1>9. ProfileOf(Only(C)) = profile
    BY <1>4, <1>5, <1>6, <1>8
<1>10. ASSUME NEW k \in Stems(C)
       PROVE  \/ InShape(entries, StemGroup(C, k), profile)
              \/ scene.mode = "available_sources" /\ Unreachable(entries, StemGroup(C, k), profile)
    <2> DEFINE now == StemNow(c, k)
    <2>1. PICK x \in C : Key(x.name) = k
        BY <1>10 DEF Stems
    <2>2. k \in Stems(c.files)
        BY <1>5, <1>6, <1>8, <2>1
    <2>3. StemGroup(C, k) = now
        <3>1. StemGroup(C, k) \subseteq now
            BY <1>8 DEF StemGroup, StemNow
        <3>2. ASSUME NEW y \in now PROVE y \in StemGroup(C, k)
            <4>1. y \in Region(c) /\ Key(y.name) = k
                BY <3>2 DEF StemNow
            <4>2. Linked(y, x)
                BY <1>5, <1>6, <1>8, <2>1, <4>1 DEF Linked
            <4>3. y \in C
                BY <1>4, <1>5, <2>1, <4>1, <4>2 DEF Closed
            <4> QED BY <4>1, <4>3 DEF StemGroup
        <3> QED BY <3>1, <3>2
    <2>4. now \subseteq Region(c)
        BY DEF StemNow
    <2>5. CASE k \in c.unmet
        <3>1. /\ scene.mode = "available_sources" /\ Unreachable(inv, now, profile)
              /\ \A p \in now : entries[p] = inv[p]
            BY <1>1, <2>2, <2>5, StemHolds
        <3> HIDE DEF now, profile
        <3>2. Unreachable(entries, now, profile)
            BY <3>1, StemSame
        <3> QED BY <2>3, <3>1, <3>2
    <2>6. CASE k \notin c.unmet
        <3>1. /\ Shaped(now, profile)
              /\ \A p \in now \ Lossless(now) :
                   /\ profile.encoded # NoSpec
                   /\ (Codec(p) = "opus" => p \notin lost) =>
                        satisfiedEncoded(p, entries[p], profile.encoded)
            BY <1>1, <2>2, <2>6, StemHolds
        <3> HIDE DEF now, profile
        <3>2. InShape(entries, now, profile)
            BY <2>4, <3>1 DEF InShape, Shaped
        <3> QED BY <2>3, <3>2
    <2> QED BY <2>5, <2>6
<1> QED BY <1>2, <1>3, <1>9, <1>10, SettledRow

\* The plan holds for the disk while its components run: an executable component
\* stays executable, one that ran did what was projected and reached its shape, and
\* planning again agrees with the frozen plan.
THEOREM PlanAlwaysHolds ==
    ASSUME OneSpelling
    PROVE  PlannerSpec => []PlanHolds
<1>1. PlannerInv => StillPlanned
    BY PendingStands, DoneIsSettled DEF StillPlanned
<1>2. PlannerInv => PlanHolds
    BY <1>1, AppliedAndShaped, ExecutableHolds DEF PlanHolds
<1> QED BY <1>2, PlannerInvHolds, PTL
=============================================================================
