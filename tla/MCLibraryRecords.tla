--------------------------- MODULE MCLibraryRecords ---------------------------
\* An instance of libraries and their records.  The constraints set apart what no question
\* mixes: renames from what does not touch the record they rename and, as long as there is
\* a second library, creations from everything else.
EXTENDS LibraryRecords, TLC

Interchangeable == Permutations(Call) \cup Permutations(Root) \cup Permutations(Library)

\* A record without a key has no window, and the status of a failed scan is read by nobody.
AgeMatters == \A r \in aged : row[r].key # None
ScansSucceed == \A l \in Library : scanned[l] # "failed"

Renaming(c) == at[c] \in {"title", "retitle", "renamed"}
OneRename == Cardinality({r \in Record : version[r] > 1}) <= 1
RenamesApart ==
    (\E c \in Call : Renaming(c)) \/ (\E r \in Record : version[r] > 1) =>
        \A c \in Call :
            Renaming(c) \/ at[c] \in {"idle", "persist", "view", "created", "drop", "release"}

Creating(c) ==
    at[c] \in {"load", "list", "key", "expire", "current", "replay", "persist", "view",
               "created", "replayed"}
CreationsMeet ==
    \A c, d \in Call : c # d => at[c] = "idle" \/ at[d] = "idle" \/ (Creating(c) /\ Creating(d))
NoRenames ==
    /\ \A c \in Call : ~Renaming(c)
    /\ \A r \in Record : version[r] = 1
NoSessions == plans = {} /\ \A r \in Record : ~IsActive(r)
KeyIsSent == \A c \in Call : at[c] = "load" => req[c].key # None
NoDeletions == \A l \in Library : library[l] # "deleted"

OneAtATime == \A k, l \in Library : Known(k) /\ Known(l) => k = l
OneLibraryOrCreations ==
    \/ OneAtATime /\ OneRename /\ RenamesApart
    \/ ~OneAtATime /\ CreationsMeet /\ NoRenames /\ NoSessions /\ KeyIsSent /\ NoDeletions
===============================================================================
