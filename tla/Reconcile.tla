------------------------------ MODULE Reconcile ------------------------------
(***************************************************************************)
(* The planner of a conversion (conversion/reconcile): the observed audio  *)
(* of a root is split by the classifier, grouped into components and       *)
(* stems, and each component gets the operations that bring it to the      *)
(* declared shape, by the strict or by the relaxed decision table.  The    *)
(* plan is frozen, its components run one by one (ComponentRun shows how), *)
(* and the root can be planned again at any moment.                        *)
(*                                                                         *)
(* A path is a directory, a display name and an extension; KeyOf folds a   *)
(* display name to its stem.  An inventory maps the paths of a root's      *)
(* audio files to a measured rate and a generation credential: the target  *)
(* the file was generated for, if it still is that file.                   *)
(***************************************************************************)
EXTENDS Integers, FiniteSets, Functions

CONSTANTS
    Names,        \* the display names, as numbers in their order
    Key(_),       \* the stem of a display name, a natural number
    NoSpec,       \* an undeclared lane, and a file without a credential
    Scenes,       \* policies, classifier tags and inventories to start from
    MaxLost       \* bound: credentials that could not be recorded

\* The audio extensions, and the codecs they name.
codecByExt == {"wav", "flac", "mp3", "aac", "m4a", "opus"}
Codec(p) == IF p.ext \in {"aac", "m4a"} THEN "aac" ELSE p.ext
LosslessCodecs == {"wav", "flac"}

Path == [dir : Nat, name : Names, ext : codecByExt]
EncodedSpec == [codec : {"mp3", "aac", "opus"}, kbps : Nat]
Profile == [lossless : {NoSpec} \cup LosslessCodecs, encoded : {NoSpec} \cup EncodedSpec]
Fact == [rate : Nat, cred : {NoSpec} \cup EncodedSpec]
Facts(rate, cred) == [rate |-> rate, cred |-> cred]

\* Finitely many files; one without a lossy codec has no rate and no credential.
IsInventory(inv) ==
    /\ inv \in [DOMAIN inv -> Fact] /\ DOMAIN inv \subseteq Path /\ IsFiniteSet(DOMAIN inv)
    /\ \A p \in DOMAIN inv : Codec(p) \in LosslessCodecs => inv[p] = Facts(0, NoSpec)

ASSUME PlannerAssumption ==
    /\ Names \subseteq Nat /\ \A name \in Names : Key(name) \in Nat
    /\ NoSpec \notin LosslessCodecs \cup EncodedSpec
    /\ \A s \in Scenes :
         /\ s.scene.mode \in {"strict", "available_sources"}
         /\ {s.scene.matched, s.scene.unmatched} \subseteq Profile
         /\ \A inv \in s.inventories : IsInventory(inv)
    /\ MaxLost \in Nat

VARIABLES
    scene,    \* the policy's mode and profiles, and the classifier's tags
    entries,  \* the inventory
    plan,     \* the frozen plan, a set of component outcomes
    done,     \* the components that ran to success
    lost      \* history: the targets whose credential was not recorded

plannerVars == <<scene, entries, plan, done, lost>>

(***************************************************************************)
(* Codecs, targets, and when an observed file satisfies one.               *)
(***************************************************************************)
ExtForCodec(c) == IF c = "aac" THEN "m4a" ELSE c
Lossless(S) == {p \in S : Codec(p) \in LosslessCodecs}
OfCodec(S, c) == {p \in S : Codec(p) = c}

bitrateSatisfactionTolerance == 1000
aacExactAbove == 192000

\* Mutant: one tight band for every AAC target.
TightFloor(target) == 95

\* The floor of an AAC target in percent: above 192k the encoder saturates.
AacFloor(target) == IF target > aacExactAbove THEN 60 ELSE 95

measuredBitrateSatisfies(rate, spec) ==
    LET target == spec.kbps * 1000 IN
    IF spec.codec = "aac"
    THEN rate >= (target * AacFloor(target)) \div 100 /\ rate <= (target * 110) \div 100
    ELSE rate >= target - bitrateSatisfactionTolerance

satisfiedEncoded(p, facts, spec) ==
    /\ Codec(p) = spec.codec
    /\ \/ measuredBitrateSatisfies(facts.rate, spec)
       \/ spec.codec # "mp3" /\ facts.cred = spec

(***************************************************************************)
(* Partition, components and stems.                                        *)
(***************************************************************************)
\* A tag matches anywhere in the root-relative path, the extension included.
Matched(p) == p.dir \in scene.tags.dirs \/ p.ext \in scene.tags.exts
ProfileOf(p) == IF Matched(p) THEN scene.matched ELSE scene.unmatched

\* Same parent or same stem, within one partition.
Linked(p, q) ==
    Matched(p) = Matched(q) /\ (p.dir = q.dir \/ Key(p.name) = Key(q.name))

\* What p reaches: no set of the files that holds it and all it is linked to holds less.
Closed(B, S) == \A r \in B, q \in S : Linked(q, r) => q \in B
Component(S, p) == {q \in S : \A B \in SUBSET S : p \in B /\ Closed(B, S) => q \in B}

BuildComponents(S) == {Component(S, p) : p \in S}
Stems(C) == {Key(p.name) : p \in C}
StemGroup(C, k) == {p \in C : Key(p.name) = k}

\* Paths in the order the files of a stem and a codec are listed in.
Before(p, q) == p.dir < q.dir \/ (p.dir = q.dir /\ p.name <= q.name)
First(S) == CHOOSE p \in S : \A q \in S : Before(p, q)
Only(S) == CHOOSE p \in S : TRUE

sameStemPath(p, codec) == [p EXCEPT !.ext = ExtForCodec(codec)]

(***************************************************************************)
(* One stem: what it keeps, what it can be built from, what it needs.      *)
(***************************************************************************)
\* The declared lossless codec, then WAV, then FLAC: never a lossy file.
qualifiedSources(G, profile) ==
    LET declared == IF profile.lossless = NoSpec THEN {} ELSE OfCodec(G, profile.lossless)
        wav == OfCodec(G, "wav")
    IN  IF declared # {} THEN declared ELSE IF wav # {} THEN wav ELSE OfCodec(G, "flac")

declaredLossless(G, profile) ==
    IF profile.lossless = NoSpec THEN {} ELSE OfCodec(G, profile.lossless)

EncodedTarget(G, profile) ==
    IF profile.encoded = NoSpec THEN {} ELSE OfCodec(G, profile.encoded.codec)

declaredEncoded(inv, G, profile) ==
    {p \in EncodedTarget(G, profile) : satisfiedEncoded(p, inv[p], profile.encoded)}

Encode(src, dst) == [kind |-> "ENCODE", src |-> src, dst |-> dst]
Remove(p, targets) == [kind |-> "REMOVE_OBSOLETE", src |-> p, deps |-> targets]
Targets(ops) == {op.dst : op \in {o \in ops : o.kind = "ENCODE"}}

ComponentOutcome(C, reason, ops, projected, unmet) ==
    [files |-> C, reason |-> reason, ops |-> ops, projected |-> projected, unmet |-> unmet]
\* Mutant: a blocked component still removes its files.
BlockedRemoving(C, reason) == ComponentOutcome(C, reason, {Remove(p, {}) : p \in C}, {}, {})

Blocked(C, reason) == ComponentOutcome(C, reason, {}, {}, {})
IsOK(c) == c.reason = "ok"

\* The first stem, in order, for which a component is blocked decides its reason.
FirstReason(reasons) ==
    LET bad == {k \in DOMAIN reasons : reasons[k] # "ok"}
    IN  IF bad = {} THEN "ok" ELSE reasons[CHOOSE k \in bad : \A l \in bad : k <= l]

(***************************************************************************)
(* The strict table: the encoded lane is kept or rebuilt as a whole, each  *)
(* stem from its own lossless source, and a stem that cannot blocks.       *)
(***************************************************************************)
losslessEncodeSrc(G, profile) ==
    IF profile.lossless # NoSpec /\ declaredLossless(G, profile) = {}
    THEN {First(qualifiedSources(G, profile))} ELSE {}

encodedNeedsRebuild(inv, G, profile) ==
    /\ profile.encoded # NoSpec
    /\ \/ EncodedTarget(G, profile) = {}
       \/ declaredEncoded(inv, G, profile) # EncodedTarget(G, profile)

encodedTargetPath(G, profile) ==
    IF EncodedTarget(G, profile) # {} THEN Only(EncodedTarget(G, profile))
    ELSE sameStemPath(Only(qualifiedSources(G, profile)), profile.encoded.codec)

\* Why the encoded lane of a stem cannot be rebuilt.
RebuildReason(inv, C, G, profile) ==
    LET sources == qualifiedSources(G, profile)
        variants == EncodedTarget(G, profile) IN
    IF Cardinality(sources) > 1 THEN "SOURCE_AMBIGUOUS"
    ELSE IF sources = {} /\ variants # {} THEN "CONFORMANCE_UNCONFIRMED"
    ELSE IF sources = {} THEN "SOURCE_MISSING"
    ELSE IF Cardinality(variants) > 1 THEN "TARGET_PATH_AMBIGUOUS"
    ELSE IF encodedTargetPath(G, profile) \in DOMAIN inv \ C THEN "TARGET_PATH_CONFLICT"
    ELSE "ok"

\* What the lanes of a stem leave behind, without the file replaced in place.
losslessObsolete(G, profile) == Lossless(G) \ declaredLossless(G, profile)

\* With an encoded declaration, every lossy file but the one kept or rebuilt.
encodedObsolete(inv, G, profile, rebuild) ==
    LET encoded == G \ Lossless(G) IN
    IF profile.encoded = NoSpec THEN encoded
    ELSE IF rebuild THEN encoded \ {encodedTargetPath(G, profile)}
    ELSE encoded \ declaredEncoded(inv, G, profile)

reconcileComponent(inv, C, profile) ==
    LET Group(k) == StemGroup(C, k)
        lossless == FirstReason([k \in Stems(C) |->
            IF profile.lossless # NoSpec /\ Lossless(Group(k)) = {}
            THEN "LOSSLESS_UNFULFILLABLE" ELSE "ok"])
        rebuild == \E k \in Stems(C) : encodedNeedsRebuild(inv, Group(k), profile)
        encoded == FirstReason([k \in Stems(C) |->
            IF rebuild THEN RebuildReason(inv, C, Group(k), profile) ELSE "ok"])
        reason == IF lossless # "ok" THEN lossless ELSE encoded
        LosslessOps(k) ==
            {Encode(p, sameStemPath(p, profile.lossless)) : p \in losslessEncodeSrc(Group(k), profile)}
        EncodedOps(k) ==
            IF rebuild
            THEN {Encode(Only(qualifiedSources(Group(k), profile)),
                         encodedTargetPath(Group(k), profile))}
            ELSE {}
        encodes == UNION {LosslessOps(k) \cup EncodedOps(k) : k \in Stems(C)}
        obsolete == UNION {losslessObsolete(Group(k), profile)
                           \cup encodedObsolete(inv, Group(k), profile, rebuild) : k \in Stems(C)}
        \* the decisions: a rebuilt lane keeps none of its satisfied files
        Kept(k) == declaredLossless(Group(k), profile)
                   \cup (IF rebuild THEN {} ELSE declaredEncoded(inv, Group(k), profile))
    IN  IF reason # "ok" THEN Blocked(C, reason)
        ELSE ComponentOutcome(C, "ok",
                     encodes \cup {Remove(p, Targets(encodes)) : p \in obsolete},
                     (UNION {Kept(k) : k \in Stems(C)}) \cup Targets(encodes), {})

(***************************************************************************)
(* The relaxed table: stem by stem; a stem that cannot reach the declared  *)
(* shape is left as it is and reported as unmet.                           *)
(***************************************************************************)
needsOutput(inv, G, profile) ==
    \/ profile.lossless # NoSpec /\ declaredLossless(G, profile) = {}
    \/ profile.encoded # NoSpec /\ declaredEncoded(inv, G, profile) = {}

\* Mutant: a stem with a variant to replace counts as reachable without a source.
UnreachableUnlessBelow(inv, G, profile) ==
    /\ needsOutput(inv, G, profile) /\ qualifiedSources(G, profile) = {}
    /\ Cardinality(EncodedTarget(G, profile)) # 1

Unreachable(inv, G, profile) ==
    needsOutput(inv, G, profile) /\ qualifiedSources(G, profile) = {}

\* A single variant below the target is replaced in place (at its canonical
\* extension); otherwise the output lands beside the source.
replaced(inv, G, profile) ==
    LET below == EncodedTarget(G, profile) \ declaredEncoded(inv, G, profile)
    IN  IF Cardinality(below) = 1 THEN sameStemPath(Only(below), profile.encoded.codec)
        ELSE sameStemPath(Only(qualifiedSources(G, profile)), profile.encoded.codec)

NeedsEncoded(inv, G, profile) ==
    profile.encoded # NoSpec /\ declaredEncoded(inv, G, profile) = {}

StemReason(inv, G, profile) ==
    IF needsOutput(inv, G, profile) /\ Cardinality(qualifiedSources(G, profile)) > 1
    THEN "SOURCE_AMBIGUOUS"
    ELSE IF /\ ~Unreachable(inv, G, profile)
            /\ NeedsEncoded(inv, G, profile)
            /\ replaced(inv, G, profile) \in DOMAIN inv \ G
    THEN "TARGET_PATH_CONFLICT"
    ELSE "ok"

\* The relaxed mode builds each declared output that has a source and is not there.
lenientEncodes(inv, G, profile) ==
    (IF profile.lossless # NoSpec /\ declaredLossless(G, profile) = {}
     THEN {Encode(p, sameStemPath(p, profile.lossless)) : p \in qualifiedSources(G, profile)}
     ELSE {})
    \cup
    (IF NeedsEncoded(inv, G, profile)
     THEN {Encode(p, replaced(inv, G, profile)) : p \in qualifiedSources(G, profile)}
     ELSE {})

lenientComponent(inv, C, profile) ==
    LET Group(k) == StemGroup(C, k)
        reason == FirstReason([k \in Stems(C) |-> StemReason(inv, Group(k), profile)])
        unmet == {k \in Stems(C) : Unreachable(inv, Group(k), profile)}
        met == Stems(C) \ unmet
        encodes == UNION {lenientEncodes(inv, Group(k), profile) : k \in met}
        Kept(k) == declaredLossless(Group(k), profile) \cup declaredEncoded(inv, Group(k), profile)
        obsolete == UNION {Group(k) \ (Kept(k) \cup Targets(encodes)) : k \in met}
    IN  IF reason # "ok" THEN Blocked(C, reason)
        ELSE ComponentOutcome(C, "ok",
                     encodes \cup {Remove(p, Targets(encodes)) : p \in obsolete},
                     (UNION ({Kept(k) : k \in met} \cup {Group(k) : k \in unmet})) \cup Targets(encodes),
                     unmet)

\* Reconcile: the outcome of every component of both partitions.
Outcomes(inv) ==
    {IF scene.mode = "available_sources" THEN lenientComponent(inv, C, ProfileOf(Only(C)))
     ELSE reconcileComponent(inv, C, ProfileOf(Only(C))) : C \in BuildComponents(DOMAIN inv)}

(***************************************************************************)
(* What the executor accepts of a frozen component, and what it leaves.    *)
(***************************************************************************)
\* The specs by canonical extension: the target of each encode decides its spec.
SpecFor(profile, p) ==
    IF profile.lossless # NoSpec /\ p.ext = profile.lossless THEN profile.lossless
    ELSE IF profile.encoded # NoSpec /\ p.ext = ExtForCodec(profile.encoded.codec)
    THEN profile.encoded
    ELSE NoSpec

Encodes(c) == {op \in c.ops : op.kind = "ENCODE"}
Removed(c) == {op.src : op \in c.ops \ Encodes(c)}

\* The precheck: one spec and one encode for each target, no target that is also
\* read or removed, only dependencies of its own, every source there, and no
\* target in the way that the plan did not list.
PrecheckAccepts(inv, c) ==
    LET targets == Targets(c.ops) IN
    /\ \A t \in targets : SpecFor(ProfileOf(Only(c.files)), t) # NoSpec
    /\ Cardinality(targets) = Cardinality(Encodes(c))
    /\ targets \cap ({op.src : op \in c.ops}) = {}
    /\ \A op \in c.ops \ Encodes(c) : op.deps \subseteq targets
    /\ c.files \subseteq DOMAIN inv
    /\ targets \cap DOMAIN inv \subseteq c.files

\* The rates the encoders write: MP3 on its setting, AAC on it until it
\* saturates, Opus wherever the content leads (figures of reconcile.go:29-36, 73-85).
OutputRates(spec) ==
    LET Percent(n) == (spec.kbps * 1000 * n) \div 100 IN
    CASE spec.codec = "mp3" -> {Percent(100)}
      [] spec.codec = "aac" -> {Percent(IF spec.kbps >= 320 THEN 65
                                        ELSE IF spec.kbps >= 256 THEN 86 ELSE 100)}
      [] spec.codec = "opus" -> {Percent(1), Percent(113)}

PlannerInit ==
    /\ scene \in {s.scene : s \in Scenes}
    /\ \E s \in Scenes : s.scene = scene /\ entries \in s.inventories
    /\ plan = {} /\ done = {} /\ lost = {}

\* EvaluateRevision and FreezeExecution: the plan of the root as it is.
Plan ==
    /\ plan = {}
    /\ plan' = Outcomes(entries)
    /\ UNCHANGED <<scene, entries, done, lost>>

\* A component runs to success: its targets are written and credited, what is
\* obsolete is gone, and the inventory is refreshed and probed.  A credential may
\* fail to be recorded.  One that is refused, fails or is canceled stays pending.
Run(c) ==
    /\ c \in plan \ done /\ IsOK(c) /\ c.ops # {} /\ PrecheckAccepts(entries, c)
    /\ LET profile == ProfileOf(Only(c.files))
           targets == Targets(c.ops)
           encoded == {t \in targets : Codec(t) \notin LosslessCodecs}
           paths == (DOMAIN entries \ Removed(c)) \cup targets
       IN  \E missed \in SUBSET encoded : \E rate \in (UNION {OutputRates(profile.encoded) : t \in encoded}) \cup {0} :
             /\ encoded # {} => rate # 0
             /\ encoded = {} => rate = 0
             /\ Cardinality(lost \cup missed) <= MaxLost
             /\ lost' = lost \cup missed
             /\ entries' = [p \in paths |->
                    IF p \notin targets THEN entries[p]
                    ELSE IF p \notin encoded THEN Facts(0, NoSpec)
                    ELSE Facts(rate, IF p \in missed THEN NoSpec ELSE profile.encoded)]
    /\ done' = done \cup {c}
    /\ UNCHANGED <<scene, plan>>

PlannerNext == Plan \/ \E c \in plan : Run(c)

PlannerSpec == PlannerInit /\ [][PlannerNext]_plannerVars

(***************************************************************************)
(* Properties.                                                             *)
(***************************************************************************)
\* The audio now in the directories and stems of a component.
Region(c) == {p \in DOMAIN entries : \E q \in c.files : Linked(p, q)}
StemNow(c, k) == {p \in Region(c) : Key(p.name) = k}

\* No tag looks at extensions: the files of a stem in a directory share a partition.
StemsWhole == scene.tags.exts = {}

\* A stem holds what its profile declares, and nothing else.
Shaped(G, profile) ==
    /\ profile.lossless # NoSpec => OfCodec(G, profile.lossless) # {}
    /\ Lossless(G) = declaredLossless(G, profile)
    /\ profile.encoded # NoSpec => EncodedTarget(G, profile) # {}
    /\ \A p \in G \ Lossless(G) :
         profile.encoded # NoSpec /\ (satisfiedEncoded(p, entries[p], profile.encoded) \/ p \in lost)

\* The types of the state; a file without a lossy codec has no rate and no credential.
PlannerTypeOK ==
    /\ scene.mode \in {"strict", "available_sources"}
    /\ \A p \in DOMAIN entries :
         /\ entries[p].rate \in Nat
         /\ Codec(p) \in LosslessCodecs => entries[p] = Facts(0, NoSpec)
    /\ done \subseteq plan /\ \A c \in plan : c.files # {} /\ (~IsOK(c) => c.ops = {})
    /\ Cardinality(lost) <= MaxLost

\* The operations of a component leave exactly the inventory the plan projected
\* for it: the decisions a reviewer reads and the operations that run are
\* computed apart (reconcile.go:470-533 and 535-578, mode.go:100-150).
AppliedAsProjected == StemsWhole => \A c \in done : Region(c) = c.projected

\* A component that ran holds the declared shape in every stem; only the relaxed
\* mode leaves a stem alone, and then every one of its files (mode.go:75-98).
ShapeReached ==
    StemsWhole => \A c \in done : \A k \in Stems(c.files) :
        IF k \in c.unmet
        THEN scene.mode = "available_sources" /\ StemNow(c, k) = StemGroup(c.files, k)
        ELSE Shaped(StemNow(c, k), ProfileOf(Only(c.files)))

\* Planning again agrees with the frozen plan at every moment: the components
\* that have not run are planned as they were, whatever their siblings did, and
\* one that ran is settled, so that the planner never rebuilds its own output;
\* only an Opus file without its credential is not recognized
\* (reconcile.go:29-36, 73-99).
StillPlanned ==
    plan # {} /\ StemsWhole =>
        LET now == Outcomes(entries) IN
        /\ plan \ done \subseteq now
        /\ \A c \in done : (\A p \in lost \cap Region(c) : Codec(p) # "opus") =>
             \A o \in now : o.files \cap Region(c) # {} => IsOK(o) /\ o.ops = {}

\* A component the plan calls OK passes the executor's precheck whenever it runs:
\* targets are distinct, free or replaced in place, and never a source.  A tag
\* that matches extensions splits a stem between the partitions; then an encoded
\* target is still free when planned (reconcile.go:431-442, component_precheck.go:284-345).
Executable ==
    \A c \in plan \ done : IsOK(c) =>
        IF StemsWhole THEN PrecheckAccepts(entries, c)
        ELSE done = {} =>
             \A t \in Targets(c.ops) \cap DOMAIN entries :
                t \in c.files \/ Codec(t) \in LosslessCodecs

\* Nothing is removed without a replacement: when a file of a partition that
\* declares an output goes, its stem holds a declared output
\* (mode.go:84-86, component_precheck.go:329-345).
RemovedOnlyIfReplaced ==
    [][StemsWhole => \A p \in DOMAIN entries \ DOMAIN entries' :
         LET profile == ProfileOf(p)
             left == {q \in DOMAIN entries' : Key(q.name) = Key(p.name) /\ Matched(q) = Matched(p)}
         IN  (profile.lossless # NoSpec \/ profile.encoded # NoSpec) =>
                declaredLossless(left, profile) \cup EncodedTarget(left, profile) # {}]_plannerVars

\* What the plan says of the disk holds while its components run one by one: each
\* is executable when its turn comes, does what was projected, reaches the
\* declared shape, and planning again agrees with the frozen plan
\* (reconcile.go:73-99, component_precheck.go:284-345).
PlanHolds ==
    /\ AppliedAsProjected
    /\ ShapeReached
    /\ StillPlanned
    /\ Executable

\* The ".aac" spelling is read as AAC, but a target is resolved by its extension and
\* only ".m4a" resolves: a variant so spelled cannot be rebuilt in place.  So it fails
\* EveryTargetHasSpec, and Executable, in the strict mode; where none has it, both hold
\* (component_precheck.go:183-210, reconcile.go:425-430).
OneSpelling ==
    \A s \in Scenes : s.scene.mode = "strict" =>
        \A profile \in {s.scene.matched, s.scene.unmatched} :
            profile.encoded # NoSpec /\ profile.encoded.codec = "aac" =>
                \A inv \in s.inventories : \A p \in DOMAIN inv : p.ext # "aac"

-----------------------------------------------------------------------------
(* What a doc or a comment promises and the code does not do: no run checks it. *)

\* Ambiguity blocks in both modes (docs/api.md:568): an OK component never builds
\* an output of a stem that has several equivalent lossless sources.
AmbiguityBlocks ==
    \A c \in plan : IsOK(c) => \A op \in Encodes(c) :
        Cardinality(qualifiedSources(StemGroup(c.files, Key(op.src.name)),
                                     ProfileOf(op.src))) = 1

\* Every materialize target resolves to exactly one spec (component_precheck.go:183-184).
EveryTargetHasSpec ==
    \A c \in plan : IsOK(c) => \A t \in Targets(c.ops) : SpecFor(ProfileOf(t), t) # NoSpec

\* A lost credential costs one redundant rebuild (prepare.go:145-147): the files
\* it was lost for can be planned again.
LostCredentialRebuilds ==
    plan # {} /\ StemsWhole => \A o \in Outcomes(entries) : o.files \cap lost # {} => IsOK(o)
=============================================================================
