----------------------------- MODULE MCFileOps -----------------------------
\* A member with a directory, two files and a link; one of its files was recycled
\* before under the same name.
EXTENDS FileOps, TLC

MCRecoveryName(base, n) == IF n = 0 THEN base ELSE base \o "." \o ToString(n)
M(path) == <<"member">> \o path
MCName == STRING
MCNames == {"cover", "song", "cover.1"}

Plain ==
    (<<"member">> :> "folder") @@ (M(<<"album">>) :> "folder")
    @@ (M(<<"album", "track">>) :> "audio") @@ (M(<<"cover">>) :> "image")
    @@ (M(<<"link">>) :> "link")
Recycled ==
    Plain @@ (<<"bin">> :> "folder") @@ (<<"bin", "member">> :> "folder")
    @@ (<<"bin", "member", "cover">> :> "old image")
    @@ (<<"bin", "member", "album">> :> "old album")
MCTrees == {Plain, Recycled}

Delete(paths) == [op |-> "soft_delete", items |-> [i \in DOMAIN paths |-> [source |-> paths[i]]]]
RenameTo(path, name) == [op |-> "rename", items |-> <<[source |-> path, name |-> name]>>]
MoveTo(path, dir) == [op |-> "move", items |-> <<[source |-> path, dir |-> dir]>>]
Album == M(<<"album">>)
Track == M(<<"album", "track">>)
Cover == M(<<"cover">>)

MCRequests ==
    {Delete(<<Track, Album, Cover>>), Delete(<<Album, Track, Album>>), Delete(<<Cover, Cover, Track>>),
     Delete(<<Cover, M(<<"link">>), Album>>), Delete(<<M(<<"song">>), Cover>>),
     RenameTo(Cover, "song"), RenameTo(Album, "song"), RenameTo(Cover, "album"), RenameTo(Track, "cover"),
     MoveTo(Cover, Album), MoveTo(Album, Album), MoveTo(Cover, M(<<"link">>)),
     MoveTo(Cover, M(<<"song">>)), MoveTo(Track, Album)}
=============================================================================
