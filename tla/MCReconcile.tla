---------------------------- MODULE MCReconcile ----------------------------
\* Small roots: two directories, display names of which two differ in case only,
\* and inventories of at most four files.
EXTENDS Reconcile

MCKey(name) == IF name = 2 THEN 1 ELSE name

AnyProfile(lossless, encoded) == [lossless |-> lossless, encoded |-> encoded]
Target(codec, kbps) == [codec |-> codec, kbps |-> kbps]
NoTags == [dirs |-> {}, exts |-> {}]

Paths(dirs, names, exts) == [dir : dirs, name : names, ext : exts]

\* What an observed file may be: exactly at a floor, just below it, above an AAC
\* ceiling, unknown; generated by this program for the target, or not.
FactsOf(p, spec) ==
    IF Codec(p) \in LosslessCodecs \/ spec = NoSpec \/ Codec(p) # spec.codec
    THEN {Facts(0, NoSpec)}
    ELSE LET target == spec.kbps * 1000
             floor == IF spec.codec = "aac" THEN (target * AacFloor(target)) \div 100
                      ELSE target - bitrateSatisfactionTolerance
         IN  {Facts(floor, NoSpec), Facts(floor - 1, NoSpec), Facts(0, spec)}

Inventories(paths, size, spec) ==
    UNION {{inv \in [files -> UNION {FactsOf(p, spec) : p \in files}] :
               \A p \in files : inv[p] \in FactsOf(p, spec)} :
           files \in {S \in SUBSET paths : Cardinality(S) \in 1 .. size}}

Scene(mode, matched, unmatched, tags) ==
    [mode |-> mode, matched |-> matched, unmatched |-> unmatched, tags |-> tags]
Modes == {"strict", "available_sources"}

\* One partition: every profile, two directories, stems that pair across them.
OnePartition ==
    {[scene |-> Scene(mode, profile, profile, NoTags),
      inventories |-> Inventories(Paths({1, 2}, {1, 3}, {"wav", "flac", "mp3", ext}), 3, profile.encoded)] :
        mode \in Modes,
        <<profile, ext>> \in {<<AnyProfile("flac", Target("mp3", 320)), "opus">>,
                             <<AnyProfile(NoSpec, Target("aac", 256)), "m4a">>,
                             <<AnyProfile("wav", Target("opus", 160)), "opus">>,
                             <<AnyProfile("flac", NoSpec), "m4a">>}}
    \cup
    {[scene |-> Scene(mode, profile, profile, NoTags),
      inventories |-> Inventories(Paths({1, 2}, {1, 3}, {"wav", "opus"}), 4, profile.encoded)] :
        mode \in Modes, profile \in {AnyProfile(NoSpec, Target("opus", 160))}}

\* Display names that differ in case.
Folded ==
    {[scene |-> Scene(mode, profile, profile, NoTags),
      inventories |-> Inventories(Paths({1}, {1, 2, 3}, {"wav", "flac", "mp3"}), 4, profile.encoded)] :
        mode \in Modes,
        profile \in {AnyProfile(NoSpec, Target("mp3", 320)), AnyProfile("wav", NoSpec)}}

\* Two partitions: the second directory is tagged and declares nothing, or the
\* tag matches an extension.
TwoPartitions ==
    {[scene |-> Scene(mode, AnyProfile(NoSpec, NoSpec), AnyProfile(NoSpec, Target("mp3", 320)),
                      [dirs |-> {2}, exts |-> {}]),
      inventories |-> Inventories(Paths({1, 2}, {1, 3}, {"wav", "mp3"}), 4, Target("mp3", 320))] :
        mode \in Modes}
    \cup
    {[scene |-> Scene(mode, AnyProfile("wav", NoSpec), AnyProfile(NoSpec, Target("mp3", 320)),
                      [dirs |-> {}, exts |-> {"mp3"}]),
      inventories |-> Inventories(Paths({1, 2}, {1, 3}, {"wav", "flac", "mp3"}), 3, NoSpec)] :
        mode \in Modes}

MCScenes == OnePartition \cup Folded \cup TwoPartitions

ASSUME OneSpelling

\* The two spellings of an AAC file: EveryTargetHasSpec and Executable fail on these
\* roots, which no run starts from.
AacScenes ==
    {[scene |-> Scene(mode, AnyProfile(NoSpec, Target("aac", 256)), AnyProfile(NoSpec, Target("aac", 256)), NoTags),
      inventories |-> Inventories(Paths({1}, {1, 3}, {"wav", "m4a", "aac"}), 3, Target("aac", 256))] :
        mode \in Modes}
=============================================================================
