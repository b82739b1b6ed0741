------------------------------- MODULE FileOps -------------------------------
(***************************************************************************)
(* Direct file management of one member (fileops): a request renames or    *)
(* moves one item, or soft deletes a batch, inside one admitted operation, *)
(* and refreshes the inventory of what it touched.  Another program works  *)
(* on the same files between any two system calls.                         *)
(*                                                                         *)
(* A path is the sequence of names from the library root; the tree maps    *)
(* every path that exists to the file there, to Folder or to Link.         *)
(***************************************************************************)
EXTENDS Naturals, Sequences, SequencesExt, Functions

CONSTANTS
    Member, Bin,         \* the member's directory, the recovery directory (both names)
    Folder, Link,        \* what a path that is not a file holds
    Name,                \* all names
    Names,               \* the names another program may give
    Alien,               \* the file another program may create
    RecoveryName(_, _),  \* the name of the n-th attempt to recycle a name
    maxAttempts,         \* recovery names tried after the first
    Trees, Requests,     \* the trees and requests to start from
    MaxAliens,           \* bound: steps of the other program
    MaxFaults            \* bound: failing system calls and scans

Path == Seq(Name) \ {<<>>}

\* A disk: what is above anything is a folder, and every file is in one place.
IsTree(t) ==
    /\ t = [p \in DOMAIN t |-> t[p]]
    /\ DOMAIN t \subseteq Path
    /\ \A p \in DOMAIN t : \A n \in 1 .. Len(p) - 1 :
         SubSeq(p, 1, n) \in DOMAIN t /\ t[SubSeq(p, 1, n)] = Folder
    /\ \A p, q \in DOMAIN t : t[p] = t[q] /\ t[p] \notin {Folder, Link} => p = q

\* An item is below the member, and so is the directory it is moved to.
IsItem(op, item) ==
    /\ item.source \in Path /\ item.source[1] = Member /\ Len(item.source) > 1
    /\ op = "rename" => item.name \in Name
    /\ op = "move" => item.dir \in Path /\ item.dir[1] = Member
    /\ op = "soft_delete" =>
         \A n \in 0 .. maxAttempts : RecoveryName(Last(item.source), n) \in Name

ASSUME FilesAssumption ==
    /\ {Member, Bin} \cup Names \subseteq Name /\ Member # Bin
    /\ Folder # Link /\ Alien \notin {Folder, Link}
    /\ \A t \in Trees : IsTree(t)
    /\ \A r \in Requests :
         /\ r.op \in {"rename", "move", "soft_delete"}
         /\ r.items = [i \in 1 .. Len(r.items) |-> r.items[i]] /\ Len(r.items) \in Nat
         /\ \A i \in DOMAIN r.items : IsItem(r.op, r.items[i])
    /\ {maxAttempts, MaxAliens, MaxFaults} \subseteq Nat

VARIABLES
    tree,       \* what is on the disk
    inventory,  \* the paths the inventory lists
    atomic,     \* the filesystem has a rename that never replaces
    request,    \* the admitted request: operation and items
    skips,      \* planItems: the reason an item is skipped, or "no"
    results,    \* the results so far, one for each item
    step,       \* the item in progress: source, target, where it is
    recycled,   \* recovery paths filled by this request
    scopes,     \* the scopes still to refresh
    refresh,    \* the outcome of the refresh
    aliens, faults,
    origin,     \* history: the tree when the request began
    touched     \* history: paths the other program created or removed

requestVars == <<request, skips, atomic, origin>>
alienVars == <<aliens, touched>>
fileVars == <<tree, inventory, requestVars, results, step, recycled, scopes, refresh,
          alienVars, faults>>

Idle == [at |-> "item", src |-> <<>>, dst |-> <<>>]
Home == <<Member>>
Under(p, base) == IsPrefix(base, p)
Below(p, base) == IsStrictPrefix(base, p)
Exists(p) == p \in DOMAIN tree
IsFolder(p) == Exists(p) /\ tree[p] = Folder

(***************************************************************************)
(* planItems: an item named twice, or under another named item, is skipped. *)
(***************************************************************************)
planItems(items) ==
    LET source(i) == items[i].source
        covered(i) == \E j \in DOMAIN items : j # i /\ Below(source(i), source(j))
        repeated(i) == \E j \in 1 .. i - 1 : source(j) = source(i) /\ ~covered(j)
    IN  [i \in DOMAIN items |->
            IF repeated(i) THEN "DUPLICATE_ITEM"
            ELSE IF covered(i) THEN "COVERED_BY_PARENT" ELSE "no"]

\* The member is there, and a rename or a move has exactly one item.
Admissible(r) ==
    /\ IsFolder(Home)
    /\ r.items # <<>>
    /\ r.op = "soft_delete" \/ Len(r.items) = 1

FileInit ==
    /\ tree \in Trees
    /\ inventory = DOMAIN tree
    /\ atomic \in BOOLEAN
    /\ \E r \in Requests : Admissible(r) /\ request = r
    /\ skips = planItems(request.items)
    /\ results = <<>> /\ step = Idle /\ recycled = {} /\ scopes = {}
    /\ refresh = "none"
    /\ aliens = 0 /\ faults = 0
    /\ origin = tree /\ touched = {}

(***************************************************************************)
(* The items, in order: the first failure stops the request.               *)
(***************************************************************************)
Index == Len(results) + 1
Item == request.items[Index]

\* After the first failure the rest is not attempted.
Stopped == \E i \in DOMAIN results : results[i].status = "failed"

Report(status, code, place) ==
    /\ results' = Append(results, [status |-> status, code |-> code, place |-> place])
    /\ step' = Idle
Refuse(code) == Report("failed", code, <<>>)

itemOnly == <<inventory, requestVars, scopes, refresh, alienVars>>

\* An item that is skipped, or comes after a failure, is only reported.
Pass ==
    /\ step = Idle /\ Index <= Len(request.items)
    /\ \/ skips[Index] # "no" /\ Report("skipped", skips[Index], <<>>)
       \/ skips[Index] = "no" /\ Stopped /\ Report("not_attempted", "", <<>>)
    /\ UNCHANGED <<tree, recycled, faults, itemOnly>>

\* resolve: every component below the member exists and none is a link.
Steps(p) == {SubSeq(p, 1, n) : n \in 2 .. Len(p)}
Broken(p) == {q \in Steps(p) : ~Exists(q) \/ tree[q] = Link}
ResolveCode(p) ==
    IF Broken(p) = {} THEN "ok"
    ELSE IF \E q \in Broken(p) : ~Exists(q) /\ \A r \in Broken(p) : Len(q) <= Len(r)
    THEN "SOURCE_MISSING" ELSE "SYMLINK"

Parent(p) == Front(p)
Base(p) == Last(p)

\* The checks of renameItem and moveItem, in their order.
TargetCode(src, dst) ==
    IF ResolveCode(src) # "ok" THEN ResolveCode(src)
    ELSE IF request.op = "move" /\ ResolveCode(Parent(dst)) = "SOURCE_MISSING" THEN "INVALID_TARGET"
    ELSE IF request.op = "move" /\ ResolveCode(Parent(dst)) # "ok" THEN ResolveCode(Parent(dst))
    ELSE IF request.op = "move" /\ ~IsFolder(Parent(dst)) THEN "INVALID_TARGET"
    ELSE IF request.op = "move" /\ src = dst THEN "INVALID_TARGET"
    ELSE IF request.op = "move" /\ IsFolder(src) /\ Under(Parent(dst), src) THEN "MOVE_INTO_SELF"
    ELSE IF Exists(dst) THEN "TARGET_EXISTS"
    ELSE "ok"

Destination ==
    IF request.op = "rename" THEN Append(Parent(Item.source), Item.name)
    ELSE Append(Item.dir, Base(Item.source))

\* The target of a rename or a move is checked and claimed.
Claim ==
    /\ step = Idle /\ Index <= Len(request.items) /\ skips[Index] = "no" /\ ~Stopped
    /\ request.op # "soft_delete"
    /\ LET code == TargetCode(Item.source, Destination) IN
       IF code = "ok"
       THEN /\ step' = [at |-> "rename", src |-> Item.source, dst |-> Destination]
            /\ UNCHANGED results
       ELSE Refuse(code)
    /\ UNCHANGED <<tree, recycled, faults, itemOnly>>

\* The recovery directory keeps the item's directory relative to the library.
RecoveryDir(src) == <<Bin>> \o Parent(src)
Free(dir, base) ==
    {n \in 0 .. maxAttempts : ~Exists(Append(dir, RecoveryName(base, n)))}
\* MkdirAll: the folders of a path that are not there yet.
MkdirAll(dir) ==
    LET made == {SubSeq(dir, 1, n) : n \in 1 .. Len(dir)} \ DOMAIN tree
    IN  [p \in DOMAIN tree \cup made |-> IF p \in made THEN Folder ELSE tree[p]]
Least(S) == CHOOSE n \in S : \A k \in S : n <= k

freeRecoveryPath(dir, base) == Append(dir, RecoveryName(base, Least(Free(dir, base))))

\* MkdirAll, then the first free recovery name.
ClaimRecovery ==
    /\ step = Idle /\ Index <= Len(request.items) /\ skips[Index] = "no" /\ ~Stopped
    /\ request.op = "soft_delete"
    /\ LET src == Item.source
           dir == RecoveryDir(src)
       IN  IF ResolveCode(src) # "ok"
           THEN Refuse(ResolveCode(src)) /\ UNCHANGED <<tree, faults>>
           ELSE \/ \* the directory cannot be made: a fault, or a file in its way
                   /\ \/ faults < MaxFaults /\ faults' = faults + 1
                      \/ /\ \E n \in 1 .. Len(dir) :
                              Exists(SubSeq(dir, 1, n)) /\ ~IsFolder(SubSeq(dir, 1, n))
                         /\ UNCHANGED faults
                   /\ Refuse("IO_ERROR")
                   /\ UNCHANGED tree
                \/ /\ \A n \in 1 .. Len(dir) :
                         Exists(SubSeq(dir, 1, n)) => IsFolder(SubSeq(dir, 1, n))
                   /\ tree' = MkdirAll(dir)
                   /\ IF Free(dir, Base(src)) = {}
                      THEN Refuse("TARGET_EXISTS")
                      ELSE /\ step' = [at |-> "rename", src |-> src,
                                       dst |-> freeRecoveryPath(dir, Base(src))]
                           /\ UNCHANGED results
                   /\ UNCHANGED faults
    /\ UNCHANGED <<recycled, itemOnly>>

(***************************************************************************)
(* renameNoReplace: one atomic call, or, where the filesystem has none, a  *)
(* look and a rename that replaces a file.                                 *)
(***************************************************************************)
\* Mutant: the files stay where they were, too.
Copied(src, dst) ==
    LET copied == {p \in DOMAIN tree : Under(p, src)}
        New(p) == dst \o SubSeq(p, Len(src) + 1, Len(p))
    IN  [p \in DOMAIN tree \cup {New(q) : q \in copied} |->
            IF \E q \in copied : New(q) = p THEN tree[CHOOSE q \in copied : New(q) = p] ELSE tree[p]]

\* Everything at or below src goes to dst, in place of a file that is there.
Renamed(src, dst) ==
    LET moved == {p \in DOMAIN tree : Under(p, src)}
        New(p) == dst \o SubSeq(p, Len(src) + 1, Len(p))
        kept == DOMAIN tree \ moved
    IN  [p \in kept \cup {New(q) : q \in moved} |->
            IF \E q \in moved : New(q) = p
            THEN tree[CHOOSE q \in moved : New(q) = p] ELSE tree[p]]

Land ==
    /\ tree' = Renamed(step.src, step.dst)
    /\ Report("ok", "", step.dst)
    /\ recycled' = IF request.op = "soft_delete" THEN recycled \cup {step.dst} ELSE recycled

Possible == Exists(step.src) /\ IsFolder(Parent(step.dst))

\* Why a rename that must not replace is refused.
RefusedRename ==
    /\ \/ ~Exists(step.src) /\ Refuse("SOURCE_MISSING")
       \/ Exists(step.src) /\ ~IsFolder(Parent(step.dst)) /\ Refuse("SOURCE_MISSING")
       \/ Possible /\ Exists(step.dst) /\ Refuse("TARGET_EXISTS")
    /\ UNCHANGED <<tree, recycled>>

\* Mutant: a rename that replaces what it finds.
RenameReplacing ==
    /\ step.at = "rename" /\ atomic
    /\ Possible /\ Land
    /\ UNCHANGED <<faults, itemOnly>>

Rename ==
    /\ step.at = "rename" /\ atomic
    /\ \/ /\ RefusedRename /\ UNCHANGED faults
       \/ /\ Possible /\ ~Exists(step.dst) /\ Land /\ UNCHANGED faults
       \/ /\ faults < MaxFaults /\ faults' = faults + 1
          /\ Refuse("IO_ERROR") /\ UNCHANGED <<tree, recycled>>
    /\ UNCHANGED itemOnly

\* renameChecked: the look.
RenameChecked ==
    /\ step.at = "rename" /\ ~atomic
    /\ IF Exists(step.dst) THEN Refuse("TARGET_EXISTS")
       ELSE step' = [step EXCEPT !.at = "replace"] /\ UNCHANGED results
    /\ UNCHANGED <<tree, recycled, faults, itemOnly>>

\* os.Rename: a file that appeared since the look is replaced.
RenameOver ==
    /\ step.at = "replace"
    /\ IF Possible /\ (Exists(step.dst) => tree[step.dst] # Folder /\ tree[step.src] # Folder)
       THEN Land
       ELSE Refuse("IO_ERROR") /\ UNCHANGED <<tree, recycled>>
    /\ UNCHANGED <<faults, itemOnly>>

(***************************************************************************)
(* refreshAfter: the member, then the recovery directory that was filled.  *)
(***************************************************************************)
\* Mutant: only the member is read again.
MemberOnly == {Home}

Scopes == {Home} \cup {<<q[1]>> : q \in recycled}

BeginRefresh ==
    /\ step = Idle /\ Index > Len(request.items) /\ refresh = "none"
    /\ scopes' = Scopes
    /\ refresh' = "running"
    /\ UNCHANGED <<tree, inventory, requestVars, results, step, recycled, alienVars, faults>>

\* One scope is scanned and merged; the member comes first, and a failure ends it.
RefreshScope ==
    /\ refresh = "running" /\ scopes # {}
    /\ \E scope \in scopes :
         /\ Home \in scopes => scope = Home
         /\ \/ /\ inventory' = {p \in inventory : ~Below(p, scope)}
                               \cup {p \in DOMAIN tree : Below(p, scope)}
               /\ scopes' = scopes \ {scope}
               /\ refresh' = IF scopes' = {} THEN "ok" ELSE "running"
               /\ UNCHANGED faults
            \/ /\ faults < MaxFaults /\ faults' = faults + 1
               /\ refresh' = "REFRESH_FAILED"
               /\ UNCHANGED <<inventory, scopes>>
    /\ UNCHANGED <<tree, requestVars, results, step, recycled, alienVars>>

(***************************************************************************)
(* Another program.                                                        *)
(***************************************************************************)
WithAlien(p) == [q \in DOMAIN tree \cup {p} |-> IF q = p THEN Alien ELSE tree[q]]
Without(p) == [q \in {r \in DOMAIN tree : ~Under(r, p)} |-> tree[q]]

AlienCreates(p) ==
    /\ aliens < MaxAliens /\ refresh = "none"
    /\ ~Exists(p) /\ IsFolder(Parent(p)) /\ Alien \notin Range(tree)
    /\ tree' = WithAlien(p)
    /\ aliens' = aliens + 1 /\ touched' = touched \cup {p}
    /\ UNCHANGED <<inventory, requestVars, results, step, recycled, scopes, refresh, faults>>

AlienRemoves(p) ==
    /\ aliens < MaxAliens /\ refresh = "none"
    /\ Exists(p) /\ Len(p) > 1
    /\ tree' = Without(p)
    /\ aliens' = aliens + 1 /\ touched' = touched \cup {r \in DOMAIN tree : Under(r, p)}
    /\ UNCHANGED <<inventory, requestVars, results, step, recycled, scopes, refresh, faults>>

Reachable == DOMAIN tree \cup {Append(p, n) : p \in {q \in DOMAIN tree : IsFolder(q)}, n \in Names}

System ==
    \/ Pass \/ Claim \/ ClaimRecovery \/ Rename \/ RenameChecked \/ RenameOver
    \/ BeginRefresh \/ RefreshScope

FileNext == System \/ \E p \in Reachable : AlienCreates(p) \/ AlienRemoves(p)

FileSpec == FileInit /\ [][FileNext]_fileVars

(***************************************************************************)
(* Properties.                                                             *)
(***************************************************************************)
FilesOf(t) == Range(t) \ {Folder, Link}
Done == refresh \in {"ok", "REFRESH_FAILED"}
Status(i) == results[i].status

\* The disk stays a tree, and the request is worked off in order.
FileTypeOK ==
    /\ IsTree(tree)
    /\ Len(results) <= Len(request.items)
    /\ \/ step = Idle
       \/ step.at \in {"rename", "replace"} /\ Len(results) < Len(request.items)

\* No request ever destroys a file: what was on the disk before a step of the
\* service is there after it, recycled files of earlier requests included, also
\* when another program takes the name in between (ops.go:88-91, 234-253).  Only
\* the fallback of a filesystem without an atomic rename may replace a file that
\* appeared between its look and its rename (rename_noreplace_linux.go:33-42).
NothingOverwritten ==
    [][aliens' = aliens =>
         \/ FilesOf(tree) \subseteq FilesOf(tree')
         \/ ~atomic /\ step.at = "replace" /\ step.dst \in touched]_fileVars

\* The report is what happened: an item reported done is where the report says, one
\* reported failed, not attempted or skipped was not moved by this request unless a
\* selected parent carried it, and after a failure nothing else was done.  Items
\* the other program touched are its business (service.go:79-113).
ReportIsTrue ==
    \A i \in DOMAIN results :
        LET src == request.items[i].source
            alone == \A p \in touched : ~Under(src, p) /\ ~Under(p, src)
            carried == \E j \in DOMAIN results :
                          Status(j) = "ok" /\ Under(src, request.items[j].source)
        IN  /\ Status(i) = "ok" /\ alone /\ src \in DOMAIN origin =>
                 \/ results[i].place \in DOMAIN tree /\ tree[results[i].place] = origin[src]
                 \/ results[i].place \in touched
            /\ Status(i) # "ok" /\ alone /\ ~carried /\ src \in DOMAIN origin =>
                 Exists(src) /\ tree[src] = origin[src]
            /\ Status(i) = "failed" => \A j \in DOMAIN results : j > i => Status(j) # "ok"

\* A batch never trips over itself: an item under a selected directory, or named
\* twice, is not looked for after its parent or its double has gone
\* (service.go:138-179).  A recycled file whose name a directory needs, or a
\* hundred recycled doubles, can still stop it.
BatchIsClean ==
    Done /\ aliens = 0 =>
        \A i \in DOMAIN results :
            results[i].code = "SOURCE_MISSING" => request.items[i].source \notin DOMAIN origin

\* A refresh that is reported done leaves the inventory equal to the disk, the
\* recycled files included (the empty recovery directory of a failed item is not
\* listed); one that failed says so and hides no result
\* (service.go:189-237).
RefreshTellsDisk ==
    /\ refresh = "ok" /\ aliens = 0 =>
         /\ inventory \subseteq DOMAIN tree
         /\ \A p \in DOMAIN tree : tree[p] # Folder \/ Below(p, Home) => p \in inventory
    /\ Done => Len(results) = Len(request.items)

\* A batch tells what it did: its report is true, no item of it is refused for
\* what another item did, and the refreshed inventory tells the disk
\* (service.go:79-237).
BatchIsReported == ReportIsTrue /\ BatchIsClean /\ RefreshTellsDisk
=============================================================================
