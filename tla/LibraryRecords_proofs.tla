------------------------ MODULE LibraryRecords_proofs ------------------------
(***************************************************************************)
(* Proofs about LibraryRecords, for any libraries, roots, folders, keys    *)
(* and number of requests in flight.                                       *)
(*                                                                         *)
(* The records of a library are a chain whose last link is the current     *)
(* one: what the newest record expected is gone, and so is everything an   *)
(* older one expected (Chained).  A request that has found or made a       *)
(* record knows one whose row is that of its own question, and rows do not *)
(* change (Fits).                                                          *)
(***************************************************************************)
EXTENDS LibraryRecords, TLAPS

StoreType ==
    /\ library \in [Library -> {"unused", "there", "deleted"}]
    /\ root \in [Library -> Root \cup {None}]
    /\ \A l \in Library : root[l] = None <=> library[l] # "there"
    /\ scanned \in [Library -> {"", "completed", "failed"}]
    /\ walked \in [Library -> Root \cup {None}]
    /\ entries \in [Root -> SUBSET Folder]
    /\ made \in 0 .. MaxRecords
    /\ worksets \subseteq 1 .. made
    /\ row \in [Record -> Row]
    /\ held \in [Record -> Key \cup {None}]
    /\ aged \subseteq 1 .. made
    /\ version \in [Record -> 1 .. MaxVersion]
    /\ active \in [Record -> {"none", "planning", "execution"}]
    /\ plans \subseteq 1 .. made

CallType ==
    /\ at \in [Call -> Steps \cup Answers]
    /\ req \in [Call -> Request]
    /\ got \in [Call -> Reading]

\* Every record was made for a library, after the one it expected, and keeps its key or
\* has lost it.
RowsFit ==
    \A r \in 1 .. made :
        /\ row[r].library \in Library
        /\ library[row[r].library] # "unused"
        /\ row[r].expected < r
        /\ row[r].hash = [library |-> row[r].library, want |-> row[r].want,
                          expected |-> row[r].expected]
        /\ held[r] \in {row[r].key, None}

\* What a record expected is gone, and a library that had a record has one.
Chained ==
    \A r \in 1 .. made :
        /\ row[r].expected \notin worksets
        /\ library[row[r].library] = "there" => Current(row[r].library) # {}

Creation == {"load", "list", "key", "expire", "current", "replay", "persist", "view",
             "created", "replayed"}
Found == {"current", "replay", "replayed"}
Changing == {"row", "slot", "save", "update"}
Going == {"closing", "drop", "find", "check", "admit", "walk", "scanned", "failed"}

\* The record a request has found or made is the one it asks for.
Asked(q, r) ==
    /\ row[r].library = q.library
    /\ row[r].want = q.want
    /\ row[r].expected = q.expected

\* What a request has read fits its step.
FitsAt(step, q, g) ==
    /\ step \in Creation \cup Changing \cup Going => q.library \in Library
    /\ step \in Found \cup {"view", "created"} => g.record \in 1 .. made /\ Asked(q, g.record)
    /\ step \in Found => row[g.record].key = q.key
    /\ step \in Changing \ {"row"} => g.root # None
    /\ step \in {"title", "retitle", "renamed"} => q.expected \in 1 .. made
    /\ step = "renamed" => version[q.expected] > q.version
Fits(c) == FitsAt(at[c], req[c], got[c])

StoreInv ==
    /\ StoreType
    /\ RowsFit
    /\ RecordsAreWhole
    /\ RecordsFormAChain
    /\ Chained

CallInv ==
    /\ CallType
    /\ \A c \in Call : Fits(c)
    /\ NoTitleLost

LibraryInv == StoreInv /\ CallInv

-----------------------------------------------------------------------------
(* Typing.                                                                 *)

LEMMA BlankIsTyped ==
    /\ Blank \in Request
    /\ Nothing \in Reading
    /\ NoRow \in Row
<1>1. 0 \in 0 .. MaxRecords /\ 0 \in 0 .. MaxVersion
  BY RecordsAssumption
<1>2. Blank \in Request
  BY <1>1 DEF Blank, Request
<1>3. Nothing \in Reading
  BY <1>1 DEF Nothing, Reading
<1>4. createRequestHash(Blank)
        \in [library : Library \cup {None}, want : SUBSET Folder, expected : 0 .. MaxRecords]
  BY <1>1 DEF createRequestHash, Blank
<1>5. NoRow \in Row
  BY <1>1, <1>4 DEF NoRow, Row
<1> QED BY <1>2, <1>3, <1>5

LEMMA Numbers ==
    ASSUME StoreType
    PROVE  /\ made \in Nat
           /\ \A r \in 1 .. made : r \in Nat /\ r \in Record
           /\ \A r \in Record : version[r] \in Nat
<1>1. MaxRecords \in Nat /\ MaxVersion \in Nat
  BY RecordsAssumption
<1>2. made \in 0 .. MaxRecords /\ version \in [Record -> 1 .. MaxVersion]
  BY DEF StoreType
<1>3. made \in Nat /\ made <= MaxRecords
  BY <1>1, <1>2
<1>4. \A r \in 1 .. made : r \in Nat /\ r \in 1 .. MaxRecords
  BY <1>1, <1>3
<1>5. \A v \in 1 .. MaxVersion : v \in Nat
  BY <1>1
<1> QED BY <1>2, <1>3, <1>4, <1>5 DEF Record

LEMMA LibraryInit == Init => LibraryInv
<1> SUFFICES ASSUME Init PROVE LibraryInv
  OBVIOUS
<1>1. StoreType
  <2>1. 0 \in 0 .. MaxRecords /\ 1 \in 1 .. MaxVersion
    BY RecordsAssumption
  <2> QED BY <2>1, BlankIsTyped DEF Init, StoreType
<1>2. CallType
  <2>1. "idle" \in Steps
    BY DEF Steps
  <2> QED BY <2>1, BlankIsTyped DEF Init, CallType
<1>3. RowsFit /\ RecordsFormAChain /\ Chained
  <2>1. made = 0
    BY DEF Init
  <2>2. 1 .. 0 = {}
    OBVIOUS
  <2> QED BY <2>1, <2>2 DEF RowsFit, RecordsFormAChain, Chained
<1>4. RecordsAreWhole
  BY DEF Init, RecordsAreWhole, IsActive
<1>5. \A c \in Call : Fits(c)
  BY DEF Init, Fits, FitsAt, Creation, Changing, Going, Found
<1>6. NoTitleLost
  BY DEF Init, NoTitleLost
<1> QED BY <1>1, <1>2, <1>3, <1>4, <1>5, <1>6 DEF LibraryInv, StoreInv, CallInv

-----------------------------------------------------------------------------
(* A step of one request.                                                  *)

\* What others have found stays what they asked for as long as rows and versions do not go
\* back.
LEMMA OthersFit ==
    ASSUME LibraryInv, NEW c \in Call, NEW step \in Steps \cup Answers, NEW g \in Reading,
           at' = [at EXCEPT ![c] = step], got' = [got EXCEPT ![c] = g], req' = req,
           made' \in Nat, made <= made',
           \A r \in 1 .. made : row'[r] = row[r] /\ version'[r] \in Nat /\ version'[r] >= version[r],
           FitsAt(step, req[c], g)',
           step = "renamed" => \A d \in Call : at[d] = "renamed" =>
              ~(req[d].expected = req[c].expected /\ req[d].version = req[c].version)
    PROVE  CallInv'
<1> USE DEF LibraryInv, StoreInv, CallInv
<1>1. CallType'
  BY DEF CallType
<1>2. ASSUME NEW d \in Call PROVE Fits(d)'
  <2>1. CASE d = c
    <3>1. at'[d] = step /\ got'[d] = g /\ req'[d] = req[c]
      BY <2>1 DEF CallType
    <3> QED BY <3>1 DEF Fits, FitsAt, Asked
  <2>2. CASE d # c
    <3>1. at'[d] = at[d] /\ got'[d] = got[d] /\ req'[d] = req[d]
      BY <2>2 DEF CallType
    <3>2. FitsAt(at[d], req[d], got[d])
      BY DEF Fits
    <3>3. made \in Nat /\ \A r \in 1 .. made : r \in 1 .. made' /\ version[r] \in Nat
      <4> made \in Nat /\ made' \in Nat /\ made <= made'
        BY Numbers
      <4> QED BY Numbers
    <3>4. req[d].version \in Nat
      BY RecordsAssumption DEF CallType, Request
    <3>5. FitsAt(at[d], req[d], got[d])'
      <4>1. at[d] = "renamed" => version'[req[d].expected] > req[d].version
        BY <3>2, <3>3, <3>4 DEF FitsAt
      <4> QED BY <3>1, <3>2, <3>3, <4>1 DEF FitsAt, Asked
    <3> QED BY <3>1, <3>5 DEF Fits
  <2> QED BY <2>1, <2>2
<1>3. NoTitleLost'
  BY DEF NoTitleLost, CallType
<1> QED BY <1>1, <1>2, <1>3

LEMMA StoreKept == ASSUME StoreInv, UNCHANGED db PROVE StoreInv'
<1> USE DEF StoreInv, db, libraries, records, sessions
<1>1. StoreType'
  BY DEF StoreType
<1>2. RowsFit' /\ RecordsFormAChain'
  BY DEF RowsFit, RecordsFormAChain
<1>3. RecordsAreWhole' /\ Chained'
  BY DEF RecordsAreWhole, Chained, Current, IsActive
<1> QED BY <1>1, <1>2, <1>3

\* Rows and versions stay.
LEMMA CallsGoOn ==
    ASSUME LibraryInv, NEW c \in Call, NEW step \in Steps \cup Answers, NEW g \in Reading,
           at' = [at EXCEPT ![c] = step], got' = [got EXCEPT ![c] = g], req' = req,
           UNCHANGED <<made, row, version>>, step # "renamed", FitsAt(step, req[c], g)
    PROVE  CallInv'
<1>1. made' \in Nat /\ made <= made'
  BY Numbers DEF LibraryInv, StoreInv
<1>2. \A r \in 1 .. made : row'[r] = row[r] /\ version'[r] \in Nat /\ version'[r] >= version[r]
  BY Numbers DEF LibraryInv, StoreInv
<1>3. FitsAt(step, req[c], g)'
  BY DEF FitsAt, Asked
<1> QED BY <1>1, <1>2, <1>3, OthersFit

LEMMA CallsStay ==
    ASSUME LibraryInv, UNCHANGED <<at, req, got, made, row, version>>
    PROVE  CallInv'
<1> USE DEF LibraryInv, CallInv
<1>1. CallType'
  BY DEF CallType
<1>2. ASSUME NEW c \in Call PROVE Fits(c)'
  BY DEF Fits, FitsAt, Asked
<1>3. NoTitleLost'
  BY DEF NoTitleLost
<1> QED BY <1>1, <1>2, <1>3

\* A request that only reads.
LEMMA ReadsOnly ==
    ASSUME LibraryInv, NEW c \in Call, NEW step \in Steps \cup Answers, NEW g \in Reading,
           at' = [at EXCEPT ![c] = step], got' = [got EXCEPT ![c] = g], req' = req,
           UNCHANGED db, step # "renamed", FitsAt(step, req[c], g)
    PROVE  LibraryInv'
<1>1. StoreInv'
  BY StoreKept DEF LibraryInv
<1>2. CallInv'
  BY CallsGoOn DEF db, records
<1> QED BY <1>1, <1>2 DEF LibraryInv

LEMMA Advances ==
    ASSUME LibraryInv, NEW c \in Call, NEW step \in Steps \cup Answers, Advance(c, step),
           UNCHANGED db, step # "renamed", FitsAt(step, req[c], got[c])
    PROVE  LibraryInv'
<1>1. got[c] \in Reading /\ got' = [got EXCEPT ![c] = got[c]]
  BY DEF LibraryInv, CallInv, CallType, Advance
<1>2. at' = [at EXCEPT ![c] = step] /\ req' = req
  BY DEF Advance
<1> QED BY <1>1, <1>2, ReadsOnly

LEMMA Learns ==
    ASSUME LibraryInv, NEW c \in Call, NEW step \in Steps \cup Answers, NEW g \in Reading,
           Learn(c, step, g), UNCHANGED db, step # "renamed", FitsAt(step, req[c], g)
    PROVE  LibraryInv'
BY ReadsOnly DEF Learn

-----------------------------------------------------------------------------
(* Requests that come, read and are answered.                              *)

LEMMA Asking ==
    ASSUME LibraryInv, NEW c \in Call, NEW step \in Steps, NEW q \in Request,
           Ask(c, step, q), FitsAt(step, q, got[c])
    PROVE  LibraryInv'
<1> USE DEF LibraryInv, StoreInv, CallInv
<1>1. at' = [at EXCEPT ![c] = step] /\ req' = [req EXCEPT ![c] = q] /\ got' = got
  BY DEF Ask
<1>2. step # "renamed"
  BY DEF Steps
<1>3. UNCHANGED db
  BY DEF Ask
<1>4. StoreInv'
  BY <1>3, StoreKept
<1>5. CallType'
  BY <1>1 DEF CallType
<1>6. ASSUME NEW d \in Call PROVE Fits(d)'
  <2>1. FitsAt(at'[d], req'[d], got'[d])
    BY <1>1 DEF CallType, Fits
  <2> QED BY <2>1, <1>3 DEF Fits, FitsAt, Asked, db, records
<1>7. NoTitleLost'
  BY <1>1, <1>2 DEF NoTitleLost, CallType
<1> QED BY <1>4, <1>5, <1>6, <1>7

LEMMA Questions == ASSUME LibraryInv, NEW c \in Call, Asks(c) PROVE LibraryInv'
<1>0. made \in Nat /\ \A r \in 1 .. made : r \in Record
  BY Numbers DEF LibraryInv, StoreInv
<1>1. CASE AskCreate(c)
  <2> PICK l \in Library, k \in Key \cup {None}, want \in SUBSET Folder, e \in Seen :
         Ask(c, "load", [Blank EXCEPT !.library = l, !.key = k, !.want = want, !.expected = e])
    BY <1>1 DEF AskCreate
  <2> DEFINE q == [Blank EXCEPT !.library = l, !.key = k, !.want = want, !.expected = e]
  <2>1. e \in 0 .. MaxRecords
    <3>1. e \in 0 .. made /\ made \in 0 .. MaxRecords /\ MaxRecords \in Nat
      BY RecordsAssumption DEF Seen, LibraryInv, StoreInv, StoreType
    <3> QED BY <1>0, <3>1
  <2>2. q \in Request /\ q.library = l
    BY <2>1, BlankIsTyped DEF Request, Blank
  <2>3. "load" \in Steps /\ FitsAt("load", q, got[c])
    BY <2>2 DEF Steps, FitsAt, Creation, Changing, Going, Found
  <2> QED BY <2>2, <2>3, Asking
<1>2. CASE AskPatch(c)
  <2> PICK l \in Library, p \in Root \cup {None} :
         Ask(c, "row", [Blank EXCEPT !.library = l, !.sent = p])
    BY <1>2 DEF AskPatch
  <2> DEFINE q == [Blank EXCEPT !.library = l, !.sent = p]
  <2>1. q \in Request
    BY BlankIsTyped DEF Request, Blank
  <2>2. "row" \in Steps /\ FitsAt("row", q, got[c])
    BY DEF Steps, FitsAt, Creation, Changing, Going, Found
  <2> QED BY <2>1, <2>2, Asking
<1>3. CASE AskDelete(c) \/ AskScan(c)
  <2> PICK l \in Library, step \in {"closing", "find"} :
         Ask(c, step, [Blank EXCEPT !.library = l])
    BY <1>3 DEF AskDelete, AskScan
  <2> DEFINE q == [Blank EXCEPT !.library = l]
  <2>1. q \in Request
    BY BlankIsTyped DEF Request, Blank
  <2>2. step \in Steps /\ FitsAt(step, q, got[c])
    BY DEF Steps, FitsAt, Creation, Changing, Going, Found
  <2> QED BY <2>1, <2>2, Asking
<1>4. CASE AskRename(c)
  <2> PICK r \in Seen \ {0} : \E v \in 1 .. version[r] :
         Ask(c, "title", [Blank EXCEPT !.expected = r, !.version = v])
    BY <1>4 DEF AskRename
  <2> PICK v \in 1 .. version[r] : Ask(c, "title", [Blank EXCEPT !.expected = r, !.version = v])
    OBVIOUS
  <2> DEFINE q == [Blank EXCEPT !.expected = r, !.version = v]
  <2>1. r \in 1 .. made /\ r \in Record
    BY <1>0 DEF Seen
  <2>2. r \in 0 .. MaxRecords /\ v \in 0 .. MaxVersion
    <3>1. version[r] \in 1 .. MaxVersion
      BY <2>1 DEF LibraryInv, StoreInv, StoreType
    <3>2. MaxVersion \in Nat /\ MaxRecords \in Nat
      BY RecordsAssumption
    <3> QED BY <2>1, <3>1, <3>2 DEF Record
  <2>3. q \in Request /\ q.expected = r
    BY <2>2, BlankIsTyped DEF Request, Blank
  <2>4. "title" \in Steps /\ FitsAt("title", q, got[c])
    BY <2>1, <2>3 DEF Steps, FitsAt, Creation, Changing, Going, Found
  <2> QED BY <2>3, <2>4, Asking
<1> QED BY <1>1, <1>2, <1>3, <1>4 DEF Asks

LEMMA Returning == ASSUME LibraryInv, NEW c \in Call, Return(c) PROVE LibraryInv'
<1> USE DEF LibraryInv, StoreInv, CallInv
<1>1. /\ at' = [at EXCEPT ![c] = "idle"]
      /\ req' = [req EXCEPT ![c] = Blank]
      /\ got' = [got EXCEPT ![c] = Nothing]
      /\ UNCHANGED db
  BY DEF Return
<1>2. StoreInv'
  BY <1>1, StoreKept
<1>3. CallType'
  BY <1>1, BlankIsTyped DEF CallType, Steps
<1>4. ASSUME NEW d \in Call PROVE Fits(d)'
  <2>1. FitsAt("idle", Blank, Nothing)
    BY DEF FitsAt, Creation, Changing, Going, Found
  <2>2. FitsAt(at'[d], req'[d], got'[d])
    BY <1>1, <2>1 DEF CallType, Fits
  <2> QED BY <1>1, <2>2 DEF Fits, FitsAt, Asked, db, records
<1>5. NoTitleLost'
  BY <1>1 DEF NoTitleLost, CallType
<1> QED BY <1>2, <1>3, <1>4, <1>5

LEMMA Creating ==
    ASSUME LibraryInv, NEW c \in Call,
           Load(c) \/ List(c) \/ LookUpKey(c) \/ CheckCurrent(c) \/ Replay(c) \/ View(c)
    PROVE  LibraryInv'
<1> DEFINE q == req[c]
<1>0. /\ q \in Request /\ got[c] \in Reading /\ FitsAt(at[c], q, got[c])
      /\ "refused" \in Steps \cup Answers /\ FitsAt("refused", q, got[c])
  BY DEF LibraryInv, CallInv, CallType, Fits, FitsAt, Creation, Changing, Going, Found, Answers
<1>1. CASE Load(c)
  <2>1. UNCHANGED db /\ at[c] = "load"
    BY <1>1 DEF Load, ReadLibrary
  <2>2. CASE library[q.library] = "there"
    <3> DEFINE g == [got[c] EXCEPT !.root = root[q.library]]
    <3>1. Learn(c, "list", g)
      BY <1>1, <2>2 DEF Load, ReadLibrary
    <3>2. q.library \in Library
      BY <1>0, <2>1 DEF FitsAt, Creation
    <3>3. g \in Reading
      BY <1>0, <3>2 DEF Reading, LibraryInv, StoreInv, StoreType
    <3>4. "list" \in Steps \cup Answers /\ FitsAt("list", q, g)
      BY <3>2 DEF Steps, FitsAt, Creation, Changing, Going, Found
    <3> QED BY <2>1, <3>1, <3>3, <3>4, Learns
  <2>3. CASE library[q.library] # "there"
    <3>1. Advance(c, "refused")
      BY <1>1, <2>3 DEF Load, ReadLibrary
    <3> QED BY <1>0, <2>1, <3>1, Advances
  <2> QED BY <2>2, <2>3
<1>2. CASE List(c)
  <2> DEFINE members == q.want \cap entries[got[c].root]
             step == IF q.key = None THEN "persist" ELSE "key"
             g == [got[c] EXCEPT !.members = members]
  <2>1. UNCHANGED db /\ at[c] = "list" /\ (Advance(c, "refused") \/ Learn(c, step, g))
    BY <1>2 DEF List
  <2>2. CASE Learn(c, step, g)
    <3>1. g \in Reading
      BY <1>0 DEF Reading, Request
    <3>2. step \in Steps \cup Answers /\ step \in Creation \ (Found \cup {"view", "created"})
      BY DEF Steps, Creation, Found
    <3>3. FitsAt(step, q, g) /\ step # "renamed"
      BY <1>0, <2>1, <3>2 DEF FitsAt, Creation, Changing, Going, Found
    <3> QED BY <2>1, <2>2, <3>1, <3>2, <3>3, Learns
  <2> QED BY <1>0, <2>1, <2>2, Advances
<1>3. CASE LookUpKey(c)
  <2>1. UNCHANGED db /\ at[c] = "key" /\ q.library \in Library
    BY <1>0, <1>3 DEF LookUpKey, FitsAt, Creation
  <2>2. CASE Advance(c, NotReplayed(c))
    <3>1. NotReplayed(c) \in {"refused", "persist"}
      BY DEF NotReplayed
    <3>2. NotReplayed(c) \in Steps \cup Answers /\ FitsAt(NotReplayed(c), q, got[c])
      BY <2>1, <3>1 DEF Steps, Answers, FitsAt, Creation, Changing, Going, Found
    <3> QED BY <2>1, <2>2, <3>1, <3>2, Advances
  <2>3. CASE Advance(c, "refused")
    BY <1>0, <2>1, <2>3, Advances
  <2>4. ASSUME NEW r \in Owners(q.key), r \in aged \/ SameRequest(r, q),
               Learn(c, IF r \in aged THEN "expire" ELSE "current", [got[c] EXCEPT !.record = r])
        PROVE  LibraryInv'
    <3> DEFINE g == [got[c] EXCEPT !.record = r]
               step == IF r \in aged THEN "expire" ELSE "current"
    <3>1. r \in worksets /\ q.key # None /\ held[r] = q.key /\ r \in 1 .. made /\ r \in Record
      BY Numbers DEF Owners, LibraryInv, StoreInv, StoreType
    <3>2. r \in 0 .. MaxRecords
      BY <3>1, RecordsAssumption DEF Record
    <3>3. g \in Reading /\ g.record = r
      BY <1>0, <3>2 DEF Reading
    <3>4. row[r].key = q.key
      BY <3>1 DEF LibraryInv, StoreInv, RowsFit
    <3>5. CASE r \in aged
      <4>1. step = "expire" /\ step \in Steps \cup Answers /\ FitsAt(step, q, g)
        BY <2>1, <3>5 DEF Steps, FitsAt, Creation, Changing, Going, Found
      <4> QED BY <2>1, <2>4, <3>3, <4>1, Learns
    <3>6. CASE r \notin aged
      <4>1. row[r].hash = createRequestHash(q)
        BY <2>4, <3>6 DEF SameRequest
      <4>2. row[r].hash = [library |-> row[r].library, want |-> row[r].want,
                           expected |-> row[r].expected]
        BY <3>1 DEF LibraryInv, StoreInv, RowsFit
      <4>3. Asked(q, r)
        BY <4>1, <4>2 DEF createRequestHash, Asked
      <4>4. step = "current" /\ step \in Steps \cup Answers /\ FitsAt(step, q, g)
        BY <2>1, <3>1, <3>3, <3>4, <3>6, <4>3 DEF Steps, FitsAt, Creation, Changing, Going, Found
      <4> QED BY <2>1, <2>4, <3>3, <4>4, Learns
    <3> QED BY <3>5, <3>6
  <2> QED BY <1>3, <2>2, <2>3, <2>4 DEF LookUpKey
<1>4. CASE CheckCurrent(c)
  <2>1. /\ UNCHANGED db /\ at[c] = "current"
        /\ Advance(c, "replay") \/ Advance(c, "refused")
    BY <1>4 DEF CheckCurrent
  <2>2. "replay" \in Steps \cup Answers /\ FitsAt("replay", q, got[c])
    BY <1>0, <2>1 DEF Steps, FitsAt, Creation, Changing, Going, Found
  <2> QED BY <1>0, <2>1, <2>2, Advances
<1>5. CASE Replay(c)
  <2>1. /\ UNCHANGED db /\ at[c] = "replay"
        /\ Advance(c, "replayed") \/ Advance(c, "refused")
    BY <1>5 DEF Replay
  <2>2. "replayed" \in Steps \cup Answers /\ FitsAt("replayed", q, got[c])
    BY <1>0, <2>1 DEF Answers, FitsAt, Creation, Changing, Going, Found
  <2> QED BY <1>0, <2>1, <2>2, Advances
<1>6. CASE View(c)
  <2>1. /\ UNCHANGED db /\ at[c] = "view"
        /\ Advance(c, "created") \/ Advance(c, "refused")
    BY <1>6 DEF View
  <2>2. "created" \in Steps \cup Answers /\ FitsAt("created", q, got[c])
    BY <1>0, <2>1 DEF Answers, FitsAt, Creation, Changing, Going, Found
  <2> QED BY <1>0, <2>1, <2>2, Advances
<1> QED BY <1>1, <1>2, <1>3, <1>4, <1>5, <1>6

\* Steps that ask nothing of what was read.
Plain == {"idle", "release", "leave", "done", "refused"}

LEMMA PlainFits ==
    ASSUME NEW step \in Plain, NEW q, NEW g
    PROVE  step \in Steps \cup Answers /\ FitsAt(step, q, g) /\ step # "renamed"
BY DEF Plain, Steps, Answers, FitsAt, Creation, Changing, Going, Found

LEMMA Goes ==
    ASSUME LibraryInv, NEW c \in Call, NEW step \in Plain, Advance(c, step), UNCHANGED db
    PROVE  LibraryInv'
BY Advances, PlainFits

\* Steps that only keep their library in mind.
LEMMA GoingFits ==
    ASSUME NEW q, q.library \in Library, NEW step \in Going, NEW g
    PROVE  step \in Steps \cup Answers /\ FitsAt(step, q, g) /\ step # "renamed"
BY DEF Steps, FitsAt, Creation, Changing, Going, Found

LEMMA Titles ==
    ASSUME LibraryInv, NEW c \in Call,
           LoadWorkset(c) \/ (Retitle(c) /\ UNCHANGED db)
    PROVE  LibraryInv'
<1>1. FitsAt(at[c], req[c], got[c]) /\ "refused" \in Plain
  BY DEF LibraryInv, CallInv, Fits, Plain
<1>2. CASE LoadWorkset(c) /\ Advance(c, "retitle")
  <2>1. "retitle" \in Steps /\ FitsAt("retitle", req[c], got[c])
    BY <1>1, <1>2 DEF LoadWorkset, Steps, FitsAt, Creation, Changing, Going, Found
  <2> QED BY <1>2, <2>1, Advances DEF LoadWorkset
<1>3. CASE Advance(c, "refused") /\ UNCHANGED db
  BY <1>1, <1>3, Goes
<1>4. CASE Retitle(c) /\ ~Advance(c, "refused") /\ UNCHANGED db
  <2>1. /\ req[c].expected \in worksets
        /\ version' = [version EXCEPT ![req[c].expected] = @ + 1]
    BY <1>4 DEF Retitle
  <2>2. req[c].expected \in Record /\ version[req[c].expected] \in Nat
    BY <2>1, Numbers DEF LibraryInv, StoreInv, StoreType
  <2>3. version' = version /\ version \in [Record -> 1 .. MaxVersion]
    BY <1>4 DEF db, records, LibraryInv, StoreInv, StoreType
  <2>4. version[req[c].expected] = version[req[c].expected] + 1
    BY <2>1, <2>2, <2>3
  <2> QED BY <2>2, <2>4
<1> QED BY <1>2, <1>3, <1>4 DEF LoadWorkset, Retitle

\* The requests about libraries, up to their writes.
LEMMA Looking ==
    ASSUME LibraryInv, NEW c \in Call,
           \/ ReadRow(c) \/ PatchSlot(c) \/ DeleteSlot(c) \/ Release(c)
           \/ Find(c) \/ CheckExecutions(c) \/ Admit(c) \/ LeaveScan(c)
    PROVE  LibraryInv'
<1>0. /\ req[c] \in Request /\ got[c] \in Reading /\ FitsAt(at[c], req[c], got[c])
      /\ {"refused", "done"} \subseteq Plain
      /\ {"drop", "check", "admit", "walk"} \subseteq Going
  BY DEF LibraryInv, CallInv, CallType, Fits, Plain, Going
<1>1. CASE ReadRow(c)
  <2> DEFINE l == req[c].library
             new == IF req[c].sent = None THEN root[l] ELSE req[c].sent
             step == IF new = root[l] THEN "save" ELSE "slot"
             g == [got[c] EXCEPT !.root = new]
  <2>1. UNCHANGED db
    BY <1>1 DEF ReadRow
  <2>2. CASE library[l] = "there"
    <3>1. Learn(c, step, g)
      BY <1>1, <2>2 DEF ReadRow
    <3>2. l \in Library
      BY <1>0, <1>1 DEF ReadRow, FitsAt, Changing
    <3>3. new \in Root /\ new # None
      BY <1>0, <2>2, <3>2, RecordsAssumption DEF Request, LibraryInv, StoreInv, StoreType
    <3>4. g \in Reading /\ g.root = new
      BY <1>0, <3>3 DEF Reading
    <3>5. step \in Steps \cup Answers /\ step # "renamed" /\ FitsAt(step, req[c], g)
      BY <3>2, <3>3, <3>4 DEF Steps, FitsAt, Creation, Changing, Going, Found
    <3> QED BY <2>1, <3>1, <3>4, <3>5, Learns
  <2>3. CASE library[l] # "there"
    BY <1>0, <1>1, <2>1, <2>3, Goes DEF ReadRow
  <2> QED BY <2>2, <2>3
<1>2. CASE PatchSlot(c)
  <2>1. UNCHANGED db /\ at[c] = "slot" /\ (Advance(c, "update") \/ Advance(c, "refused"))
    BY <1>2 DEF PatchSlot, TakeSlot
  <2>2. "update" \in Steps /\ FitsAt("update", req[c], got[c])
    BY <1>0, <2>1 DEF Steps, FitsAt, Creation, Changing, Going, Found
  <2> QED BY <1>0, <2>1, <2>2, Advances, Goes
<1>3. CASE Find(c)
  <2> DEFINE l == req[c].library
             g == [got[c] EXCEPT !.root = root[l]]
  <2>1. UNCHANGED db /\ l \in Library
    BY <1>0, <1>3 DEF Find, ReadLibrary, FitsAt, Going
  <2>2. CASE library[l] = "there"
    <3>1. Learn(c, "check", g)
      BY <1>3, <2>2 DEF Find, ReadLibrary
    <3>2. root[l] \in Root \cup {None}
      BY <1>0, <2>1 DEF LibraryInv, StoreInv, StoreType
    <3>3. g \in Reading
      BY <1>0, <3>2 DEF Reading
    <3> QED BY <1>0, <2>1, <3>1, <3>3, Learns, GoingFits
  <2>3. CASE library[l] # "there"
    BY <1>0, <1>3, <2>1, <2>3, Goes DEF Find, ReadLibrary
  <2> QED BY <2>2, <2>3
<1>4. CASE DeleteSlot(c) \/ CheckExecutions(c) \/ Admit(c)
  <2>1. req[c].library \in Library
    BY <1>0, <1>4 DEF DeleteSlot, CheckExecutions, Admit, FitsAt, Going
  <2>2. \E step \in Going \cup Plain : Advance(c, step) /\ UNCHANGED db
    BY <1>0, <1>4 DEF DeleteSlot, TakeSlot, CheckExecutions, Admit
  <2> QED BY <2>1, <2>2, Goes, GoingFits, Advances
<1>5. CASE Release(c) \/ LeaveScan(c)
  BY <1>0, <1>5, Goes DEF Release, LeaveScan
<1> QED BY <1>1, <1>2, <1>3, <1>4, <1>5

-----------------------------------------------------------------------------
(* Steps that write what no record's place depends on.                     *)

\* Only what a record's key, age, title and session are.
LEMMA PlacesStay ==
    ASSUME StoreInv, StoreType', UNCHANGED <<library, made, worksets, row>>,
           \A r \in 1 .. made : held'[r] \in {held[r], None},
           plans' \subseteq worksets,
           \A r \in Record : IsActive(r)' => r \in worksets
    PROVE  StoreInv'
<1> USE DEF StoreInv
<1>1. RowsFit'
  BY DEF RowsFit
<1>2. RecordsAreWhole'
  BY DEF RecordsAreWhole, Current
<1>3. RecordsFormAChain' /\ Chained'
  BY DEF RecordsFormAChain, Chained, Current
<1> QED BY <1>1, <1>2, <1>3

\* The same where no session starts or ends.
LEMMA OnlyFields ==
    ASSUME StoreInv, StoreType', UNCHANGED <<library, made, worksets, row, active, plans>>,
           \A r \in 1 .. made : held'[r] \in {held[r], None}
    PROVE  StoreInv'
<1>1. plans' \subseteq worksets /\ \A r \in Record : IsActive(r)' => r \in worksets
  BY DEF StoreInv, RecordsAreWhole, IsActive
<1> QED BY <1>1, PlacesStay

LEMMA Expiring == ASSUME LibraryInv, NEW c \in Call, Expire(c) PROVE LibraryInv'
<1> DEFINE g == [got[c] EXCEPT !.record = 0]
           step == NotReplayed(c)
<1>0. /\ held' = [held EXCEPT ![got[c].record] = None]
      /\ Learn(c, step, g)
      /\ UNCHANGED <<library, root, scanned, walked, entries, made, worksets, row, aged,
                     version, active, plans>>
  BY DEF Expire, libraries, sessions
<1>1. StoreType'
  BY <1>0 DEF LibraryInv, StoreInv, StoreType
<1>2. \A r \in 1 .. made : held'[r] \in {held[r], None}
  <2>1. \A r \in 1 .. made : r \in Record
    BY Numbers DEF LibraryInv, StoreInv
  <2> QED BY <1>0, <2>1 DEF LibraryInv, StoreInv, StoreType
<1>3. StoreInv'
  BY <1>0, <1>1, <1>2, OnlyFields DEF LibraryInv
<1>4. g \in Reading
  BY RecordsAssumption DEF LibraryInv, CallInv, CallType, Reading
<1>5. step \in {"refused", "persist"} /\ req[c].library \in Library
  BY DEF NotReplayed, Expire, LibraryInv, CallInv, Fits, FitsAt, Creation
<1>6. step \in Steps \cup Answers /\ step # "renamed" /\ FitsAt(step, req[c], g)
  BY <1>5 DEF Steps, Answers, FitsAt, Creation, Changing, Going, Found
<1>7. CallInv'
  BY <1>0, <1>4, <1>6, CallsGoOn DEF Learn
<1> QED BY <1>3, <1>7 DEF LibraryInv

LEMMA Ageing == ASSUME LibraryInv, NEW r \in Record, Age(r) PROVE LibraryInv'
<1>0. /\ r \in worksets /\ aged' = aged \cup {r}
      /\ UNCHANGED <<library, root, scanned, walked, entries, made, worksets, row, held,
                     version, active, plans, at, req, got>>
  BY DEF Age, libraries, sessions, requests
<1>1. StoreType'
  BY <1>0 DEF LibraryInv, StoreInv, StoreType
<1>2. StoreInv'
  BY <1>0, <1>1, OnlyFields DEF LibraryInv
<1> QED BY <1>0, <1>2, CallsStay DEF LibraryInv

LEMMA Sessions ==
    ASSUME LibraryInv, NEW r \in Record,
           EndSession(r) \/ \E kind \in {"planning", "execution"} : StartSession(r, kind)
    PROVE  LibraryInv'
<1>0. UNCHANGED <<library, root, scanned, walked, entries, made, worksets, row, held, aged,
                  version, at, req, got>>
  BY DEF EndSession, StartSession, libraries, records, requests
<1>1. /\ r \in worksets
      /\ active' \in [Record -> {"none", "planning", "execution"}]
      /\ \A x \in Record \ {r} : active'[x] = active[x]
  BY DEF EndSession, StartSession, LibraryInv, StoreInv, StoreType, RecordsAreWhole
<1>2. plans' \subseteq plans \cup {r}
  BY DEF EndSession, StartSession
<1>3. plans' \subseteq worksets
  BY <1>1, <1>2 DEF LibraryInv, StoreInv, RecordsAreWhole
<1>4. StoreType'
  BY <1>0, <1>1, <1>3 DEF LibraryInv, StoreInv, StoreType
<1>5. \A x \in Record : IsActive(x)' => x \in worksets
  BY <1>1 DEF LibraryInv, StoreInv, RecordsAreWhole, IsActive
<1>6. StoreInv'
  BY <1>0, <1>3, <1>4, <1>5, PlacesStay DEF LibraryInv
<1> QED BY <1>0, <1>6, CallsStay DEF LibraryInv

LEMMA Restarting == ASSUME LibraryInv, Restart PROVE LibraryInv'
<1>0. /\ active' = [r \in Record |-> "none"]
      /\ at' = [c \in Call |-> "idle"]
      /\ req' = [c \in Call |-> Blank]
      /\ got' = [c \in Call |-> Nothing]
      /\ UNCHANGED <<library, root, scanned, walked, entries, made, worksets, row, held, aged,
                     version, plans>>
  BY DEF Restart, libraries, records
<1>1. StoreType'
  BY <1>0 DEF LibraryInv, StoreInv, StoreType
<1>2. StoreInv'
  <2>1. \A x \in Record : IsActive(x)' => x \in worksets
    BY <1>0 DEF IsActive
  <2>2. plans' \subseteq worksets
    BY <1>0 DEF LibraryInv, StoreInv, RecordsAreWhole
  <2> QED BY <1>0, <1>1, <2>1, <2>2, PlacesStay DEF LibraryInv
<1>3. CallType'
  BY <1>0, BlankIsTyped DEF CallType, Steps
<1>4. \A c \in Call : Fits(c)'
  BY <1>0 DEF Fits, FitsAt, Creation, Changing, Going, Found
<1>5. NoTitleLost'
  BY <1>0 DEF NoTitleLost
<1> QED BY <1>2, <1>3, <1>4, <1>5 DEF LibraryInv, CallInv

LEMMA Retitling == ASSUME LibraryInv, NEW c \in Call, Retitle(c) PROVE LibraryInv'
<1> DEFINE q == req[c]
           r == q.expected
<1>0. q \in Request /\ got[c] \in Reading /\ at[c] = "retitle"
  BY DEF LibraryInv, CallInv, CallType, Retitle
<1>1. CASE UNCHANGED db
  BY <1>1, Titles
<1>2. CASE r \in worksets /\ VersionMatches(q) /\ version[r] < MaxVersion
           /\ version' = [version EXCEPT ![r] = @ + 1] /\ Advance(c, "renamed")
           /\ UNCHANGED <<libraries, made, worksets, row, held, aged, sessions>>
  <2>0. UNCHANGED <<library, root, scanned, walked, entries, made, worksets, row, held, aged,
                    active, plans>>
    BY <1>2 DEF libraries, sessions
  <2>1. r \in Record /\ r \in 1 .. made /\ version[r] = q.version
    BY <1>2, Numbers DEF VersionMatches, LibraryInv, StoreInv, StoreType
  <2>2. version[r] \in Nat /\ MaxVersion \in Nat /\ version \in [Record -> 1 .. MaxVersion]
    BY <2>1, Numbers, RecordsAssumption DEF LibraryInv, StoreInv, StoreType
  <2>3. version[r] + 1 \in 1 .. MaxVersion
    BY <1>2, <2>2
  <2>4. version' \in [Record -> 1 .. MaxVersion] /\ version'[r] = version[r] + 1
    BY <1>2, <2>1, <2>2, <2>3
  <2>5. \A x \in Record \ {r} : version'[x] = version[x]
    BY <1>2, <2>2
  <2>6. StoreType'
    BY <2>0, <2>4 DEF LibraryInv, StoreInv, StoreType
  <2>7. StoreInv'
    BY <2>0, <2>6, OnlyFields DEF LibraryInv
  <2>8. \A x \in 1 .. made : row'[x] = row[x] /\ version'[x] \in Nat /\ version'[x] >= version[x]
    <3>1. \A x \in 1 .. made : x \in Record /\ version[x] \in Nat
      BY Numbers DEF LibraryInv, StoreInv
    <3> QED BY <2>0, <2>2, <2>4, <2>5, <3>1
  <2> PICK g \in Reading : g = got[c]
    BY <1>0
  <2>9. FitsAt("renamed", q, g)'
    BY <2>0, <2>1, <2>2, <2>4, <1>2 DEF FitsAt, Creation, Changing, Going, Found, Advance
  <2>10. ASSUME NEW d \in Call, at[d] = "renamed", req[d].expected = r, req[d].version = q.version
         PROVE  FALSE
    <3>1. version[r] > q.version
      BY <2>10 DEF LibraryInv, CallInv, Fits, FitsAt
    <3> QED BY <2>1, <2>2, <3>1
  <2>11. made' \in Nat /\ made <= made'
    BY <2>0, Numbers DEF LibraryInv, StoreInv
  <2>12. at' = [at EXCEPT ![c] = "renamed"] /\ got' = [got EXCEPT ![c] = g] /\ req' = req
    BY <1>2 DEF Advance, LibraryInv, CallInv, CallType
  <2>13. "renamed" \in Answers
    BY DEF Answers
  <2>14. CallInv'
    BY <1>0, <2>8, <2>9, <2>10, <2>11, <2>12, <2>13, OthersFit
  <2> QED BY <2>7, <2>14 DEF LibraryInv
<1> QED BY <1>1, <1>2 DEF Retitle

-----------------------------------------------------------------------------
(* Steps about libraries.                                                  *)

LEMMA Walking ==
    ASSUME LibraryInv, NEW c \in Call, Walk(c) \/ recordOutcome(c) PROVE LibraryInv'
<1>0. /\ UNCHANGED <<library, root, made, worksets, row, held, aged, version, active, plans>>
      /\ \E step \in {"scanned", "failed", "leave"} : Advance(c, step)
  BY DEF Walk, recordOutcome, records, sessions
<1>1. req[c] \in Request /\ got[c] \in Reading /\ req[c].library \in Library
  BY DEF Walk, recordOutcome, LibraryInv, CallInv, CallType, Fits, FitsAt, Going
<1>2. StoreType'
  <2>1. got[c].root \in Root \cup {None}
    BY <1>1 DEF Reading
  <2>2. entries' \in [Root -> SUBSET Folder]
    BY DEF Walk, recordOutcome, LibraryInv, StoreInv, StoreType
  <2>3. scanned' \in [Library -> {"", "completed", "failed"}]
    BY <1>1 DEF Walk, recordOutcome, LibraryInv, StoreInv, StoreType
  <2>4. walked' \in [Library -> Root \cup {None}]
    BY <1>1, <2>1 DEF Walk, recordOutcome, LibraryInv, StoreInv, StoreType
  <2> QED BY <1>0, <2>2, <2>3, <2>4 DEF LibraryInv, StoreInv, StoreType
<1>3. StoreInv'
  BY <1>0, <1>2, OnlyFields DEF LibraryInv
<1>4. PICK step \in {"scanned", "failed", "leave"} : Advance(c, step)
  BY <1>0
<1>5. step \in Steps \cup Answers /\ step # "renamed" /\ FitsAt(step, req[c], got[c])
  BY <1>1 DEF Steps, FitsAt, Creation, Changing, Going, Found
<1>6. at' = [at EXCEPT ![c] = step] /\ got' = [got EXCEPT ![c] = got[c]] /\ req' = req
  BY <1>4 DEF Advance, LibraryInv, CallInv, CallType
<1>7. CallInv'
  BY <1>0, <1>1, <1>5, <1>6, CallsGoOn
<1> QED BY <1>3, <1>7 DEF LibraryInv

LEMMA LibraryCreated ==
    ASSUME LibraryInv, NEW l \in Library, NEW p \in Root, CreateLibrary(l, p)
    PROVE  LibraryInv'
<1>0. /\ library[l] = "unused"
      /\ library' = [library EXCEPT ![l] = "there"] /\ root' = [root EXCEPT ![l] = p]
      /\ UNCHANGED <<scanned, walked, entries, made, worksets, row, held, aged, version,
                     active, plans, at, req, got>>
  BY DEF CreateLibrary, records, sessions, requests
<1>1. StoreType'
  <2>1. p # None
    BY RecordsAssumption
  <2> QED BY <1>0, <2>1 DEF LibraryInv, StoreInv, StoreType
<1>2. \A m \in Library : m # l => library'[m] = library[m]
  BY <1>0 DEF LibraryInv, StoreInv, StoreType
<1>3. library'[l] = "there"
  BY <1>0 DEF LibraryInv, StoreInv, StoreType
<1>4. \A r \in 1 .. made : row[r].library \in Library /\ row[r].library # l
  BY <1>0 DEF LibraryInv, StoreInv, RowsFit
<1>5. RowsFit'
  BY <1>0, <1>2, <1>4 DEF LibraryInv, StoreInv, RowsFit
<1>6. RecordsAreWhole'
  <2>1. worksets \subseteq 1 .. made
    BY DEF LibraryInv, StoreInv, StoreType
  <2>2. \A r \in worksets : library'[row[r].library] = "there"
    BY <1>2, <1>4, <2>1 DEF LibraryInv, StoreInv, RecordsAreWhole
  <2> QED BY <1>0, <2>2 DEF LibraryInv, StoreInv, RecordsAreWhole, Current, IsActive
<1>7. RecordsFormAChain'
  BY <1>0 DEF LibraryInv, StoreInv, RecordsFormAChain
<1>8. Chained'
  BY <1>0, <1>2, <1>4 DEF LibraryInv, StoreInv, Chained, Current
<1>9. StoreInv'
  BY <1>1, <1>5, <1>6, <1>7, <1>8 DEF StoreInv
<1> QED BY <1>0, <1>9, CallsStay DEF LibraryInv

LEMMA LibraryUpdated == ASSUME LibraryInv, NEW c \in Call, UpdateLibrary(c) PROVE LibraryInv'
<1> DEFINE l == req[c].library
           p == got[c].root
<1>0. /\ req[c] \in Request /\ got[c] \in Reading
      /\ at[c] \in {"save", "update"} /\ l \in Library /\ p # None
      /\ {"release", "done", "refused"} \subseteq Plain
  BY DEF UpdateLibrary, LibraryInv, CallInv, CallType, Fits, FitsAt, Changing, Plain
<1>1. PICK step \in {"release", "done", "refused"} : Advance(c, step)
  BY DEF UpdateLibrary
<1>2. CASE UNCHANGED db
  BY <1>0, <1>1, <1>2, Goes
<1>3. CASE Updates(l, p) /\ Update(l, p)
  <2>0. UNCHANGED <<library, made, worksets, row, held, aged, version, active, plans>>
    BY <1>3 DEF Update, records, sessions
  <2>1. p \in Root /\ library[l] = "there"
    BY <1>0, <1>3 DEF Reading, Updates, StillThere
  <2>2. StoreType'
    <3>1. root' \in [Library -> Root \cup {None}] /\ scanned' \in [Library -> {"", "completed", "failed"}]
      BY <1>0, <1>3, <2>1 DEF Update, LibraryInv, StoreInv, StoreType
    <3>2. walked' \in [Library -> Root \cup {None}] /\ entries' \in [Root -> SUBSET Folder]
      BY <1>0, <1>3, <2>1 DEF Update, LibraryInv, StoreInv, StoreType
    <3>3. \A m \in Library : root'[m] = None <=> library'[m] # "there"
      BY <1>0, <1>3, <2>0, <2>1 DEF Update, LibraryInv, StoreInv, StoreType
    <3> QED BY <2>0, <3>1, <3>2, <3>3 DEF LibraryInv, StoreInv, StoreType
  <2>3. StoreInv'
    BY <2>0, <2>2, OnlyFields DEF LibraryInv
  <2>4. at' = [at EXCEPT ![c] = step] /\ got' = [got EXCEPT ![c] = got[c]] /\ req' = req
    BY <1>1 DEF Advance, LibraryInv, CallInv, CallType
  <2>5. CallInv'
    BY <1>0, <1>1, <2>0, <2>4, PlainFits, CallsGoOn
  <2> QED BY <2>3, <2>5 DEF LibraryInv
<1> QED BY <1>2, <1>3 DEF UpdateLibrary

LEMMA LibraryDeleted == ASSUME LibraryInv, NEW c \in Call, DeleteLibrary(c) PROVE LibraryInv'
<1> DEFINE l == req[c].library
           owned == RecordsOf(l)
<1>0. /\ req[c] \in Request /\ got[c] \in Reading /\ l \in Library
      /\ Advance(c, "release") /\ "release" \in Plain
  BY DEF DeleteLibrary, LibraryInv, CallInv, CallType, Fits, FitsAt, Going, Plain
<1>1. CASE UNCHANGED db
  BY <1>0, <1>1, Goes
<1>2. CASE /\ library[l] = "there" /\ ~Busy(owned)
           /\ library' = [library EXCEPT ![l] = "deleted"]
           /\ root' = [root EXCEPT ![l] = None]
           /\ scanned' = [scanned EXCEPT ![l] = ""]
           /\ walked' = [walked EXCEPT ![l] = None]
           /\ worksets' = worksets \ owned
           /\ plans' = PlansWithout(owned)
           /\ UNCHANGED <<entries, made, row, held, aged, version, active>>
  <2>1. StoreType'
    BY <1>0, <1>2 DEF LibraryInv, StoreInv, StoreType, PlansWithout
  <2>2. library'[l] = "deleted" /\ \A m \in Library : m # l => library'[m] = library[m]
    BY <1>0, <1>2 DEF LibraryInv, StoreInv, StoreType
  <2>3. \A r \in 1 .. made : row[r].library \in Library
    BY DEF LibraryInv, StoreInv, RowsFit
  <2>4. worksets \subseteq 1 .. made
    BY DEF LibraryInv, StoreInv, StoreType
  <2>5. \A m : m # l => Current(m)' = Current(m)
    BY <1>2 DEF Current, RecordsOf
  <2>6. RowsFit'
    <3>1. \A m \in Library : library[m] # "unused" => library'[m] # "unused"
      BY <2>2
    <3> QED BY <1>2, <2>3, <3>1 DEF LibraryInv, StoreInv, RowsFit
  <2>7. RecordsAreWhole'
    <3>1. ASSUME NEW r \in worksets'
          PROVE  library'[row'[r].library] = "there" /\ Current(row[r].library)' = {r}
      <4>1. r \in worksets /\ row[r].library # l
        BY <1>2 DEF RecordsOf
      <4> QED BY <1>2, <2>2, <2>3, <2>4, <2>5, <4>1 DEF LibraryInv, StoreInv, RecordsAreWhole
    <3>2. plans' \subseteq worksets'
      BY <1>2 DEF PlansWithout, LibraryInv, StoreInv, RecordsAreWhole
    <3>3. \A r \in Record : IsActive(r)' => r \in worksets'
      BY <1>2 DEF Busy, IsActive, LibraryInv, StoreInv, RecordsAreWhole
    <3> QED BY <1>2, <3>1, <3>2, <3>3 DEF RecordsAreWhole
  <2>8. RecordsFormAChain'
    BY <1>2 DEF LibraryInv, StoreInv, RecordsFormAChain
  <2>9. Chained'
    BY <1>2, <2>2, <2>3, <2>5 DEF LibraryInv, StoreInv, Chained
  <2>10. StoreInv'
    BY <2>1, <2>6, <2>7, <2>8, <2>9 DEF StoreInv
  <2>11. at' = [at EXCEPT ![c] = "release"] /\ got' = [got EXCEPT ![c] = got[c]] /\ req' = req
    BY <1>0 DEF Advance, LibraryInv, CallInv, CallType
  <2>12. CallInv'
    BY <1>0, <1>2, <2>11, PlainFits, CallsGoOn
  <2> QED BY <2>10, <2>12 DEF LibraryInv
<1> QED BY <1>1, <1>2 DEF DeleteLibrary

-----------------------------------------------------------------------------
(* The transaction of a creation.                                          *)

\* The record a request makes takes its place at the end of its library's chain.
LEMMA Persisted ==
    ASSUME LibraryInv, NEW c \in Call, at[c] = "persist",
           StillCurrent(c), ~Busy(Current(req[c].library)),
           library[req[c].library] = "there",
           made < MaxRecords,
           made' = made + 1,
           worksets' = (worksets \ Current(req[c].library)) \cup {made + 1},
           row' = [row EXCEPT ![made + 1] = NewRow(c)],
           held' = [held EXCEPT ![made + 1] = req[c].key],
           plans' = PlansWithout(Current(req[c].library)),
           Learn(c, "view", [got[c] EXCEPT !.record = made + 1]),
           UNCHANGED <<libraries, aged, version, active>>
    PROVE  LibraryInv'
<1> DEFINE q == req[c]
           l == q.library
           e == q.expected
           n == made + 1
           old == Current(l)
           Now(m) == {r \in worksets' : row'[r].library = m}
<1>0. /\ q \in Request /\ got[c] \in Reading /\ l \in Library
      /\ UNCHANGED <<library, root, scanned, walked, entries, aged, version, active>>
  BY DEF LibraryInv, CallInv, CallType, Fits, FitsAt, Creation, libraries
<1>1. /\ made \in Nat /\ n \in Nat /\ n \in Record /\ n \notin 1 .. made
      /\ n \in 1 .. made' /\ made' \in 0 .. MaxRecords
      /\ \A r \in 1 .. made : r \in Nat /\ r \in Record /\ r # n
      /\ \A r : r \in 1 .. made' <=> r \in 1 .. made \/ r = n
  <2>1. made \in Nat /\ MaxRecords \in Nat
    BY Numbers, RecordsAssumption DEF LibraryInv, StoreInv
  <2> QED BY <2>1, Numbers DEF Record, LibraryInv, StoreInv
<1>2. worksets \subseteq 1 .. made /\ plans \subseteq 1 .. made /\ aged \subseteq 1 .. made
  BY DEF LibraryInv, StoreInv, StoreType
<1>3. row'[n] = NewRow(c) /\ held'[n] = q.key
  BY <1>1 DEF LibraryInv, StoreInv, StoreType
<1>4. \A r \in 1 .. made : row'[r] = row[r] /\ held'[r] = held[r]
  BY <1>1 DEF LibraryInv, StoreInv, StoreType
<1>5. (e = 0 /\ old = {}) \/ (e \in 1 .. made /\ e \in worksets /\ old = {e})
  <2>1. old = IF e = 0 THEN {} ELSE {e}
    BY DEF StillCurrent, Expected
  <2>2. old \subseteq worksets
    BY DEF Current
  <2> HIDE DEF old
  <2> QED BY <1>2, <2>1, <2>2
<1>6. NewRow(c) \in Row
  <2>1. createRequestHash(q)
          \in [library : Library \cup {None}, want : SUBSET Folder, expected : 0 .. MaxRecords]
    BY <1>0 DEF createRequestHash, Request
  <2>2. got[c].root \in Root \cup {None} /\ got[c].members \in SUBSET Folder
    BY <1>0 DEF Reading
  <2>3. q.want \in SUBSET Folder /\ q.expected \in 0 .. MaxRecords /\ q.key \in Key \cup {None}
    BY <1>0 DEF Request
  <2> QED BY <1>0, <2>1, <2>2, <2>3 DEF NewRow, Row
<1>7. StoreType'
  <2>1. row' \in [Record -> Row]
    BY <1>1, <1>6 DEF LibraryInv, StoreInv, StoreType
  <2>2. held' \in [Record -> Key \cup {None}]
    BY <1>0, <1>1 DEF LibraryInv, StoreInv, StoreType, Request
  <2>3. worksets' \subseteq 1 .. made' /\ plans' \subseteq 1 .. made' /\ aged' \subseteq 1 .. made'
    BY <1>0, <1>1, <1>2 DEF PlansWithout
  <2> QED BY <1>0, <1>1, <2>1, <2>2, <2>3 DEF LibraryInv, StoreInv, StoreType
<1>8. RowsFit'
  <2>1. ASSUME NEW r \in 1 .. made
        PROVE  /\ row'[r].library \in Library
               /\ library'[row'[r].library] # "unused"
               /\ row'[r].expected < r
               /\ row'[r].hash = [library |-> row'[r].library, want |-> row'[r].want,
                                  expected |-> row'[r].expected]
               /\ held'[r] \in {row'[r].key, None}
    BY <1>0, <1>4 DEF LibraryInv, StoreInv, RowsFit
  <2>2. /\ row'[n].library = l /\ row'[n].expected = e /\ row'[n].want = q.want
        /\ row'[n].key = q.key /\ row'[n].hash = createRequestHash(q)
    BY <1>3 DEF NewRow
  <2>3. e < n
    BY <1>1, <1>5
  <2> QED BY <1>0, <1>1, <1>3, <2>1, <2>2, <2>3 DEF RowsFit, createRequestHash
<1>9. Now(l) = {n} /\ \A m \in Library : m # l => Now(m) = Current(m)
  <2>1. row'[n].library = l
    BY <1>3 DEF NewRow
  <2>2. \A r \in worksets : row'[r] = row[r] /\ r # n
    BY <1>1, <1>2, <1>4
  <2>3. ASSUME NEW r \in worksets'
        PROVE  r = n \/ (r \in worksets /\ row[r].library # l)
    <3>1. r = n \/ (r \in worksets /\ r \notin Current(l))
      OBVIOUS
    <3> QED BY <3>1 DEF Current
  <2>4. \A r \in worksets : row[r].library # l => r \in worksets'
    BY DEF Current
  <2>5. n \in worksets'
    OBVIOUS
  <2> QED BY <2>1, <2>2, <2>3, <2>4, <2>5 DEF Current
<1>10. \A r \in worksets' : r = n \/ (r \in worksets /\ row[r].library # l /\ row'[r] = row[r])
  <2>1. \A r \in worksets : row'[r] = row[r]
    BY <1>2, <1>4
  <2>2. \A r \in worksets' : r = n \/ (r \in worksets /\ r \notin Current(l))
    OBVIOUS
  <2> QED BY <2>1, <2>2 DEF Current
<1>11. RecordsAreWhole'
  <2>1. ASSUME NEW r \in worksets'
        PROVE  library'[row'[r].library] = "there" /\ Now(row'[r].library) = {r}
    <3>1. CASE r = n
      <4>1. row'[n].library = l
        BY <1>3 DEF NewRow
      <4> QED BY <1>0, <1>9, <3>1, <4>1
    <3>2. CASE r # n
      <4>1. r \in worksets /\ row[r].library # l /\ row'[r] = row[r]
        BY <1>10, <3>2
      <4>2. row[r].library \in Library
        BY <1>2, <4>1 DEF LibraryInv, StoreInv, RowsFit
      <4>3. library[row[r].library] = "there" /\ Current(row[r].library) = {r}
        BY <4>1 DEF LibraryInv, StoreInv, RecordsAreWhole
      <4> QED BY <1>0, <1>9, <4>1, <4>2, <4>3
    <3> QED BY <3>1, <3>2
  <2>2. plans' \subseteq worksets'
    BY DEF PlansWithout, LibraryInv, StoreInv, RecordsAreWhole
  <2>3. \A r \in Record : IsActive(r)' => r \in worksets'
    BY <1>0 DEF Busy, IsActive, LibraryInv, StoreInv, RecordsAreWhole
  <2> QED BY <2>1, <2>2, <2>3 DEF RecordsAreWhole, Current
<1>12. \A s \in 1 .. made : ~(row[s].library = l /\ row[s].expected = e)
  <2> SUFFICES ASSUME NEW s \in 1 .. made, row[s].library = l, row[s].expected = e PROVE FALSE
    OBVIOUS
  <2>1. e \notin worksets /\ old # {}
    BY DEF LibraryInv, StoreInv, Chained
  <2> QED BY <1>5, <2>1
<1>13. RecordsFormAChain'
  <2>1. row'[n].library = l /\ row'[n].expected = e
    BY <1>3 DEF NewRow
  <2> SUFFICES ASSUME NEW r \in 1 .. made', NEW s \in 1 .. made',
                      row'[r].library = row'[s].library, row'[r].expected = row'[s].expected
               PROVE  r = s
    BY DEF RecordsFormAChain
  <2>2. CASE r = n \/ s = n
    BY <1>1, <1>4, <1>12, <2>1, <2>2
  <2>3. CASE r # n /\ s # n
    BY <1>1, <1>4, <2>3 DEF LibraryInv, StoreInv, RecordsFormAChain
  <2> QED BY <2>2, <2>3
<1>14. Chained'
  <2>1. ASSUME NEW r \in 1 .. made
        PROVE  /\ row'[r].expected \notin worksets'
               /\ library'[row'[r].library] = "there" => Now(row'[r].library) # {}
    <3>1. /\ row[r].expected \notin worksets /\ row[r].library \in Library
          /\ library[row[r].library] = "there" => Current(row[r].library) # {}
      BY DEF LibraryInv, StoreInv, Chained, RowsFit
    <3>2. row[r].expected # n
      <4>1. row[r].expected \in Nat
        <5>1. row[r] \in Row
          BY <1>1 DEF LibraryInv, StoreInv, StoreType
        <5> QED BY <5>1, RecordsAssumption DEF Row
      <4>2. row[r].expected < r /\ r <= made /\ r \in Nat
        <5>1. r \in Nat /\ r <= made
          BY <1>1
        <5> QED BY <5>1 DEF LibraryInv, StoreInv, RowsFit
      <4> QED BY <1>1, <4>1, <4>2
    <3>3. row'[r] = row[r]
      BY <1>4
    <3>4. row[r].expected \notin worksets'
      BY <3>1, <3>2
    <3> QED BY <1>0, <1>9, <3>1, <3>3, <3>4
  <2>2. row'[n].library = l /\ row'[n].expected = e
    BY <1>3 DEF NewRow
  <2>3. e \notin worksets'
    BY <1>1, <1>2, <1>5
  <2>4. Now(row'[n].library) # {}
    BY <1>9, <2>2
  <2> QED BY <1>1, <2>1, <2>2, <2>3, <2>4 DEF Chained, Current
<1>15. StoreInv'
  BY <1>7, <1>8, <1>11, <1>13, <1>14 DEF StoreInv
<1>16. CallInv'
  <2> PICK g \in Reading : g = [got[c] EXCEPT !.record = n]
    <3> n \in 0 .. MaxRecords
      BY <1>1
    <3> QED BY <1>0 DEF Reading
  <2>1. g.record = n
    BY <1>0 DEF Reading
  <2>2. at' = [at EXCEPT ![c] = "view"] /\ got' = [got EXCEPT ![c] = g] /\ req' = req
    BY DEF Learn
  <2>3. Asked(req[c], g.record)'
    BY <1>3, <2>1, <2>2 DEF Asked, NewRow
  <2>4. FitsAt("view", req[c], g)'
    BY <1>0, <1>1, <2>1, <2>2, <2>3 DEF FitsAt, Creation, Changing, Going, Found
  <2>5. \A r \in 1 .. made : row'[r] = row[r] /\ version'[r] \in Nat /\ version'[r] >= version[r]
    BY <1>0, <1>4, Numbers DEF LibraryInv, StoreInv
  <2>6. "view" \in Steps /\ made' \in Nat /\ made <= made'
    BY <1>1 DEF Steps
  <2> QED BY <2>2, <2>4, <2>5, <2>6, OthersFit
<1> QED BY <1>15, <1>16 DEF LibraryInv

LEMMA Persisting == ASSUME LibraryInv, NEW c \in Call, Persist(c) PROVE LibraryInv'
<1>0. /\ at[c] = "persist" /\ req[c].library \in Library /\ got[c] \in Reading
      /\ "refused" \in Plain
  BY DEF Persist, LibraryInv, CallInv, CallType, Fits, FitsAt, Creation, Plain
<1>1. CASE Advance(c, "refused") /\ UNCHANGED db
  BY <1>0, <1>1, Goes
<1>2. CASE Learn(c, "key", [got[c] EXCEPT !.again = TRUE]) /\ UNCHANGED db
  <2> DEFINE g == [got[c] EXCEPT !.again = TRUE]
  <2>1. g \in Reading
    BY <1>0 DEF Reading
  <2>2. "key" \in Steps /\ FitsAt("key", req[c], g)
    BY <1>0 DEF Steps, FitsAt, Creation, Changing, Going, Found
  <2> QED BY <1>2, <2>1, <2>2, Learns
<1>3. CASE ~(Advance(c, "refused") /\ UNCHANGED db)
           /\ ~(Learn(c, "key", [got[c] EXCEPT !.again = TRUE]) /\ UNCHANGED db)
  BY <1>0, <1>3, Persisted DEF Persist
<1> QED BY <1>1, <1>2, <1>3

-----------------------------------------------------------------------------
(* Every step.                                                             *)

LEMMA LibraryStep == LibraryInv /\ [Next]_vars => LibraryInv'
<1> SUFFICES ASSUME LibraryInv, [Next]_vars PROVE LibraryInv'
  OBVIOUS
<1>1. CASE UNCHANGED vars
  <2>1. UNCHANGED db /\ UNCHANGED <<at, req, got, made, row, version>>
    BY <1>1 DEF vars, requests, db, records
  <2> QED BY <2>1, StoreKept, CallsStay DEF LibraryInv
<1>2. ASSUME NEW c \in Call, Asks(c) \/ Creates(c) \/ Renames(c) \/ Changes(c) \/ Scans(c) \/ Return(c)
      PROVE  LibraryInv'
  <2>1. CASE Asks(c) \/ Return(c)
    BY <2>1, Questions, Returning
  <2>2. CASE Creates(c)
    BY <2>2, Creating, Expiring, Persisting DEF Creates
  <2>3. CASE Renames(c)
    BY <2>3, Titles, Retitling DEF Renames
  <2>4. CASE Changes(c)
    BY <2>4, Looking, LibraryUpdated, LibraryDeleted DEF Changes
  <2>5. CASE Scans(c)
    BY <2>5, Looking, Walking DEF Scans
  <2> QED BY <1>2, <2>1, <2>2, <2>3, <2>4, <2>5
<1>3. ASSUME NEW l \in Library, NEW p \in Root, CreateLibrary(l, p) PROVE LibraryInv'
  BY <1>3, LibraryCreated
<1>4. ASSUME NEW r \in Record, EndSession(r) \/ Age(r) PROVE LibraryInv'
  BY <1>4, Sessions, Ageing
<1>5. ASSUME NEW r \in Record, NEW kind \in {"planning", "execution"}, StartSession(r, kind)
      PROVE  LibraryInv'
  BY <1>5, Sessions
<1>6. CASE Restart
  BY <1>6, Restarting
<1> QED BY <1>1, <1>2, <1>3, <1>4, <1>5, <1>6 DEF Next

\* The inductive invariant holds in every state: typing, rows, the chain of a library's
\* records and what each request in flight has read (repo_library.go, repo_workset.go,
\* workset.go).
THEOREM LibraryInvariant == Spec => []LibraryInv
<1>1. Init => LibraryInv
  BY LibraryInit
<1>2. LibraryInv /\ [Next]_vars => LibraryInv'
  BY LibraryStep
<1> QED BY <1>1, <1>2, PTL DEF Spec

\* The rows and the requests have the values their columns and fields may have.
THEOREM LibraryTypeCorrect == Spec => []TypeOK
<1>1. LibraryInv => TypeOK
  BY DEF LibraryInv, StoreInv, CallInv, StoreType, CallType, TypeOK
<1> QED BY <1>1, LibraryInvariant, PTL

\* Replacing a record and deleting a library leave no second record, no plan and no session
\* behind (ReplaceCurrentWorkset, DeleteLibrary), however many libraries, records and
\* requests there are.
THEOREM RecordsStayWhole == Spec => []RecordsAreWhole
<1>1. LibraryInv => RecordsAreWhole
  BY DEF LibraryInv, StoreInv
<1> QED BY <1>1, LibraryInvariant, PTL

\* No two records of a library replaced the same one or were both its first: a creation
\* that is retried, with a key or without, creates once (CreateCurrentWorkset,
\* ReplaceCurrentWorkset).
THEOREM RecordsChain == Spec => []RecordsFormAChain
<1>1. LibraryInv => RecordsFormAChain
  BY DEF LibraryInv, StoreInv
<1> QED BY <1>1, LibraryInvariant, PTL

\* A creation, fresh or replayed, answers with the record that was made for that question
\* (replayCreate, createRequestHash).
THEOREM AnswersAreOwn == Spec => []AnswersOwnRecord
<1>1. LibraryInv => AnswersOwnRecord
  BY DEF LibraryInv, CallInv, Fits, FitsAt, Found, Asked, AnswersOwnRecord
<1> QED BY <1>1, LibraryInvariant, PTL

\* Of the renames based on one version one is accepted (RenameWorkset).
THEOREM TitlesAreKept == Spec => []NoTitleLost
<1>1. LibraryInv => NoTitleLost
  BY DEF LibraryInv, CallInv
<1> QED BY <1>1, LibraryInvariant, PTL

\* The rows of a library tell one record and how it came to be (repo_workset.go).
THEOREM RecordsAlwaysAgree == Spec => []RecordsAgree
<1> QED BY RecordsStayWhole, RecordsChain, PTL DEF RecordsAgree

\* What creations and renames were answered is true (replayCreate, RenameWorkset).
THEOREM AnswersAlwaysTrue == Spec => []AnswersAreTrue
<1> QED BY AnswersAreOwn, TitlesAreKept, PTL DEF AnswersAreTrue

-----------------------------------------------------------------------------
(* What a step may do to records and roots.                                *)

\* Records come and go by a creation and with their library, and roots by libraries.
LEMMA WhoWrites ==
    ASSUME [Next]_vars
    PROVE  \/ UNCHANGED <<worksets, root>>
           \/ UNCHANGED root /\ \E c \in Call : Persist(c)
           \/ \E c \in Call : DeleteLibrary(c)
           \/ UNCHANGED worksets /\ \E c \in Call : UpdateLibrary(c)
           \/ UNCHANGED worksets /\ \E l \in Library, p \in Root : CreateLibrary(l, p)
<1> USE DEF db, libraries, records, sessions
<1>1. ASSUME NEW c \in Call, Asks(c) \/ Return(c) PROVE UNCHANGED <<worksets, root>>
  BY <1>1 DEF Asks, AskCreate, AskPatch, AskDelete, AskScan, AskRename, Ask, Return
<1>2. ASSUME NEW c \in Call, Creates(c), ~Persist(c) PROVE UNCHANGED <<worksets, root>>
  BY <1>2 DEF Creates, Load, ReadLibrary, List, LookUpKey, Expire, CheckCurrent, Replay, View
<1>3. ASSUME NEW c \in Call, Persist(c) PROVE UNCHANGED root
  BY <1>3 DEF Persist
<1>4. ASSUME NEW c \in Call, Renames(c) PROVE UNCHANGED <<worksets, root>>
  BY <1>4 DEF Renames, LoadWorkset, Retitle
<1>5. ASSUME NEW c \in Call, Changes(c), ~DeleteLibrary(c), ~UpdateLibrary(c)
      PROVE  UNCHANGED <<worksets, root>>
  BY <1>5 DEF Changes, ReadRow, PatchSlot, DeleteSlot, TakeSlot, Release
<1>6. ASSUME NEW c \in Call, UpdateLibrary(c) PROVE UNCHANGED worksets
  BY <1>6 DEF UpdateLibrary, Update
<1>7. ASSUME NEW c \in Call, Scans(c) PROVE UNCHANGED <<worksets, root>>
  BY <1>7 DEF Scans, Find, ReadLibrary, CheckExecutions, Admit, Walk, recordOutcome, LeaveScan
<1>8. ASSUME NEW l \in Library, NEW p \in Root, CreateLibrary(l, p) PROVE UNCHANGED worksets
  BY <1>8 DEF CreateLibrary
<1>9. ASSUME NEW r \in Record,
             EndSession(r) \/ Age(r) \/ \E kind \in {"planning", "execution"} : StartSession(r, kind)
      PROVE  UNCHANGED <<worksets, root>>
  BY <1>9 DEF EndSession, Age, StartSession
<1>10. CASE Restart
  BY <1>10 DEF Restart
<1>11. CASE UNCHANGED vars
  BY <1>11 DEF vars
<1> QED BY <1>1, <1>2, <1>3, <1>4, <1>5, <1>6, <1>7, <1>8, <1>9, <1>10, <1>11 DEF Next

\* A record goes while nothing of it runs, when a request that expected it made its
\* successor or when its library is deleted (recordHasActiveSessionTx, DeleteLibrary).
THEOREM RecordsGoIdle == Spec => GoneOnlyIdle
<1>1. LibraryInv /\ [Next]_vars
      => [\A r \in worksets \ worksets' :
             /\ ~IsActive(r)
             /\ \/ library'[row[r].library] = "deleted"
                \/ \E s \in worksets' \ worksets :
                      row'[s].expected = r /\ row'[s].library = row[r].library]_vars
  <2> SUFFICES ASSUME LibraryInv, [Next]_vars, NEW r \in worksets, r \notin worksets'
               PROVE  /\ ~IsActive(r)
                      /\ \/ library'[row[r].library] = "deleted"
                         \/ \E s \in worksets' \ worksets :
                               row'[s].expected = r /\ row'[s].library = row[r].library
    OBVIOUS
  <2>0. r \in 1 .. made /\ row[r].library \in Library
    BY DEF LibraryInv, StoreInv, StoreType, RowsFit
  <2>1. ASSUME NEW c \in Call, Persist(c)
        PROVE  /\ ~IsActive(r)
               /\ \E s \in worksets' \ worksets :
                     row'[s].expected = r /\ row'[s].library = row[r].library
    <3>1. /\ StillCurrent(c) /\ ~Busy(Current(req[c].library))
          /\ made < MaxRecords
          /\ worksets' = (worksets \ Current(req[c].library)) \cup {made + 1}
          /\ row' = [row EXCEPT ![made + 1] = NewRow(c)]
      BY <2>1 DEF Persist, db, records
    <3>2. r \in Current(req[c].library) /\ row[r].library = req[c].library
      <4>1. r \in Current(req[c].library)
        BY <3>1
      <4> QED BY <4>1 DEF Current
    <3>3. ~IsActive(r)
      BY <3>1, <3>2 DEF Busy
    <3>4. req[c].expected = r
      <4>1. r \in Expected(req[c])
        BY <3>1, <3>2 DEF StillCurrent
      <4> QED BY <4>1 DEF Expected
    <3>5. made + 1 \in Record /\ made + 1 \notin worksets
      <4>1. made \in Nat /\ MaxRecords \in Nat /\ worksets \subseteq 1 .. made
        BY Numbers, RecordsAssumption DEF LibraryInv, StoreInv, StoreType
      <4> QED BY <3>1, <4>1 DEF Record
    <3>6. row'[made + 1] = NewRow(c)
      BY <3>1, <3>5 DEF LibraryInv, StoreInv, StoreType
    <3>7. row'[made + 1].expected = r /\ row'[made + 1].library = row[r].library
      BY <3>2, <3>4, <3>6 DEF NewRow
    <3> QED BY <3>1, <3>3, <3>5, <3>7
  <2>2. ASSUME NEW c \in Call, DeleteLibrary(c)
        PROVE  ~IsActive(r) /\ library'[row[r].library] = "deleted"
    <3>1. /\ ~Busy(RecordsOf(req[c].library))
          /\ library' = [library EXCEPT ![req[c].library] = "deleted"]
          /\ worksets' = worksets \ RecordsOf(req[c].library)
      BY <2>2 DEF DeleteLibrary, db, records
    <3>2. r \in RecordsOf(req[c].library)
      BY <3>1
    <3>3. row[r].library = req[c].library
      BY <3>2 DEF RecordsOf
    <3>4. ~IsActive(r)
      BY <3>1, <3>2 DEF Busy
    <3> QED BY <2>0, <3>1, <3>3, <3>4 DEF LibraryInv, StoreInv, StoreType
  <2> QED BY <2>1, <2>2, WhoWrites
<1> QED BY <1>1, LibraryInvariant, PTL DEF Spec, GoneOnlyIdle

\* A library keeps its root as long as it has a record (UpdateLibrary).
THEOREM RootsAreHeld == Spec => RootIsHeld
<1>1. LibraryInv /\ [Next]_vars
      => [\A r \in worksets \cap worksets' :
             root'[row[r].library] = root[row[r].library]]_vars
  <2> SUFFICES ASSUME LibraryInv, [Next]_vars, NEW r \in worksets, r \in worksets'
               PROVE  root'[row[r].library] = root[row[r].library]
    OBVIOUS
  <2>0. /\ row[r].library \in Library /\ library[row[r].library] = "there"
        /\ root \in [Library -> Root \cup {None}]
    BY DEF LibraryInv, StoreInv, StoreType, RowsFit, RecordsAreWhole
  <2>1. ASSUME NEW c \in Call, UpdateLibrary(c)
        PROVE  root'[row[r].library] = root[row[r].library]
    <3> DEFINE l == req[c].library
               p == got[c].root
    <3>1. CASE UNCHANGED root
      BY <3>1
    <3>2. CASE Updates(l, p) /\ Update(l, p)
      <4>1. root' = [root EXCEPT ![l] = p]
        BY <3>2 DEF Update
      <4>2. p # root[l] => row[r].library # l
        <5>1. r \in Current(row[r].library)
          BY DEF Current
        <5> QED BY <3>2, <5>1 DEF Updates, Unbound
      <4> QED BY <2>0, <4>1, <4>2
    <3> QED BY <2>1, <3>1, <3>2 DEF UpdateLibrary, db, libraries
  <2>2. ASSUME NEW c \in Call, DeleteLibrary(c)
        PROVE  root'[row[r].library] = root[row[r].library]
    <3>1. CASE UNCHANGED root
      BY <3>1
    <3>2. CASE /\ root' = [root EXCEPT ![req[c].library] = None]
               /\ worksets' = worksets \ RecordsOf(req[c].library)
      <4>1. row[r].library # req[c].library
        BY <3>2 DEF RecordsOf
      <4> QED BY <2>0, <3>2, <4>1
    <3> QED BY <2>2, <3>1, <3>2 DEF DeleteLibrary, db, libraries
  <2>3. ASSUME NEW l \in Library, NEW p \in Root, CreateLibrary(l, p)
        PROVE  root'[row[r].library] = root[row[r].library]
    BY <2>0, <2>3 DEF CreateLibrary
  <2> QED BY <2>1, <2>2, <2>3, WhoWrites
<1> QED BY <1>1, LibraryInvariant, PTL DEF Spec, RootIsHeld

\* No step takes a record from under its sessions, or its root from under it
\* (ReplaceCurrentWorkset, DeleteLibrary, UpdateLibrary).
THEOREM RecordsStayProtected == Spec => RecordsAreProtected
<1> QED BY RecordsGoIdle, RootsAreHeld DEF RecordsAreProtected
=============================================================================
