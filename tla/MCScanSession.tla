--------------------------- MODULE MCScanSession ---------------------------
\* A root with one member and a file of its own, the member with two files.
EXTENDS ScanSession

MCScans == {"full", "refresh"}
MCScope == [s \in MCScans |-> IF s = "full" THEN "root" ELSE "member"]
MCDirs == {"root", "member"}
MCFiles == {"song", "track", "tune"}
MCParentOf == [p \in {"member", "song", "track", "tune"} |->
                 IF p \in {"track", "tune"} THEN "member" ELSE "root"]

Events(e, f, n, c, p) ==
    [edit |-> e, fault |-> f, cancel |-> n, crash |-> c, probe |-> p]

\* A full scan beside a refresh over one file that is new, known or gone.
\* Beside it runs a probe, a fault, a cancellation or a crash.
Beside ==
    {[scans |-> MCScans, files |-> {"track"}, present |-> p, listed |-> l, max |-> m] :
        p \in {{}, {"track"}}, l \in {{}, {"track"}},
        m \in {Events(1, 0, 0, 0, 1), Events(1, 1, 0, 0, 0), Events(0, 1, 1, 0, 0),
               Events(1, 0, 0, 1, 0)}}

\* One full scan of four entries, enough to fill a batch of two and a channel of
\* one and block the walk.
Alone ==
    {[scans |-> {"full"}, files |-> {"song", "track", "tune"}, present |-> {"song", "track", "tune"},
      listed |-> {"song"}, max |-> m] : m \in {Events(1, 1, 0, 0, 0), Events(0, 1, 1, 1, 0)}}

MCWorkloads == Beside \cup Alone
=============================================================================
