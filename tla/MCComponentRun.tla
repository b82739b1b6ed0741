---------------------------- MODULE MCComponentRun ----------------------------
(***************************************************************************)
(* Components small enough for TLC: up to two encodes and up to two        *)
(* removals over three paths, of the shapes a planner emits and of the     *)
(* shapes a precheck must refuse, each on every disk where the paths it    *)
(* names are as frozen or free, or one of them is not.  The first recovery *)
(* name of q is the second of p, and that of r the second of q.            *)
(***************************************************************************)
EXTENDS ComponentRun, TLC

CONSTANTS p, q, r,
          n1, n2, n3, n4

MCRecoveryName ==
    [x \in Path \X Attempt |->
        CASE x = <<p, 0>> -> n1
          [] x \in {<<p, 1>>, <<q, 0>>} -> n2
          [] x \in {<<q, 1>>, <<r, 0>>} -> n3
          [] x = <<r, 1>> -> n4]

From(s, t) == [source |-> s, target |-> t]
Encodings ==
    {<<From(p, q)>>,                    \* one output
     <<From(p, q), From(p, r)>>,        \* both outputs of a lossless source
     <<From(p, q), From(r, q)>>,        \* twice the same target
     <<From(p, q), From(q, r)>>}        \* a source that is a target
Removals == {<<>>, <<p>>, <<q>>, <<r>>}

Worklists ==
    {[e |-> e, r |-> d] : e \in Encodings, d \in Removals}
    \cup {[e |-> <<>>, r |-> d] : d \in {<<>>, <<p, q>>, <<q, p>>, <<p, p>>}}

TargetsOf(w) == {w.e[i].target : i \in DOMAIN w.e}
Named(w) == TargetsOf(w) \cup {w.e[i].source : i \in DOMAIN w.e}
              \cup {w.r[k] : k \in DOMAIN w.r}

Disks(w) ==
    LET plain == [Named(w) -> {"frozen", "free"}]
        odd == {[f EXCEPT ![x] = d] : f \in plain, x \in Named(w),
                                      d \in {"changed", "missing", "unlisted"}}
    IN {[x \in Path |-> IF x \in Named(w) THEN f[x] ELSE "free"] : f \in plain \cup odd}

MCPlans ==
    UNION {[encodes : {w.e}, removes : {w.r},
            depends : {{}, TargetsOf(w), Named(w)}, declared : {{}, TargetsOf(w)},
            found : Disks(w),
            taken : IF s THEN {{}, {n1}, {n2}, {n2, n3}, {n1, n2}, Name} ELSE {{}},
            soft : {s}] : w \in Worklists, s \in BOOLEAN}
=============================================================================
