------------------------------- MODULE PakFix -------------------------------
(***************************************************************************)
(* Corrected copies of mod archives (pak_fix.cpp, pak_fix_hooks.cpp).      *)
(*                                                                         *)
(* Empty files get a newline, and where a mod's files refer to a file of   *)
(* the archive in another case the spellings are made to agree.  The copy  *)
(* is built when the game first asks for the archive, kept in a cache by   *)
(* the archive's size and time, and the game reads it in place of the      *)
(* original; what is not rewritten the copy takes from the original, which *)
(* is its part 1.  The game may crash at any step of it, and the user may  *)
(* replace the archive.                                                    *)
(*                                                                         *)
(* A name is [dir, stem, ext], each <<word, case>>; names differ in case   *)
(* when their words are equal.  A file is [name, empty, refs]; a reference *)
(* is a path, a tail of one, a key of GUI metadata, all with the name of   *)
(* what they are for, or the stem of an icon.  Text that the Fixer takes   *)
(* for no reference, as in Lua a path that is not below the Lua root of    *)
(* the file itself, is none of the refs.                                   *)
(***************************************************************************)
EXTENDS Integers, Sequences, SequencesExt, FiniteSets, FiniteSetsExt

CONSTANTS
    Releases,        \* the archives the mod is installed as, a sequence
    FixedStems,      \* the stems of files found by a fixed name
    GuiDirs,         \* the directories under GUI/ whose textures are .DDS
    IconDirs,        \* those whose textures are named after a stats Icon
    SplitReleases,   \* the releases of version 18, whose copies are two parts
    MaxCrashes,      \* bound: how often the game ends or crashes
    MaxReplacements  \* bound: how often the archive is replaced

\* A word in one of its spellings.
Spelled(s) == s = <<s[1], s[2]>>
NameParts == {"dir", "stem", "ext"}

ASSUME FixAssumption ==
    /\ IconDirs \subseteq GuiDirs
    /\ 0 \notin DOMAIN Releases
    /\ \A r \in DOMAIN Releases :
          /\ IsFiniteSet(DOMAIN Releases[r])
          /\ \A i \in DOMAIN Releases[r] :
                /\ \A part \in NameParts : Spelled(Releases[r][i].name[part])
                /\ IsFiniteSet(DOMAIN Releases[r][i].refs)
                /\ \A j \in DOMAIN Releases[r][i].refs :
                      LET ref == Releases[r][i].refs[j]
                      IN  IF ref.kind = "icon"
                          THEN ref = [kind |-> "icon", stem |-> ref.stem] /\ Spelled(ref.stem)
                          ELSE /\ ref.kind \in {"path", "tail", "gui"}
                               /\ ref = [kind |-> ref.kind, name |-> ref.name]
                               /\ \A part \in NameParts : Spelled(ref.name[part])

VARIABLES
    release,      \* the release installed, 0 for none
    copies,       \* the cache's copies: key -> [names, own, split]
    cleans,       \* the keys marked as needing no copy
    links,        \* the keys whose part 1 is linked
    step,         \* where the redirect under way is
    key,          \* the key it took
    making,       \* the temporary file
    answer,       \* g_redirects: "unasked", "original" or "copy"
    partKnown,    \* g_parts: part 1 of the copy is answered
    failed,       \* a copy could not be made in this run
    behindRun,    \* the archive was replaced since this run asked for it
    wrongKeys,    \* keys whose archive was replaced between its stat and its reading
    crashes, replacements

fixVars == <<release, copies, cleans, links, step, key, making, answer, partKnown,
             failed, behindRun, wrongKeys, crashes, replacements>>

NoCopy == [names |-> <<>>]

FixInit ==
    /\ release \in DOMAIN Releases
    /\ copies = <<>> /\ cleans = {} /\ links = {}
    /\ step = "idle" /\ key = 0 /\ making = NoCopy
    /\ answer = "unasked" /\ partKnown = FALSE /\ failed = FALSE
    /\ behindRun = FALSE /\ wrongKeys = {}
    /\ crashes = 0 /\ replacements = 0

-----------------------------------------------------------------------------
\* The Fixer: which spellings belong together, and which one they get.

Words(name) == <<name.dir[1], name.stem[1], name.ext[1]>>

\* A path is looked up whole, a tail without the directories it leaves out,
\* and a GUI key as the .DDS beside its metadata, of which it has the stem.
FoundBy(ref) == IF ref.kind = "tail" THEN {"stem", "ext"} ELSE NameParts
LinkedParts(ref) ==
    CASE ref.kind = "path" -> NameParts
      [] ref.kind = "tail" -> {"stem", "ext"}
      [] ref.kind = "gui" -> {"stem"}
      [] OTHER -> {}

\* The entry a reference names in any case, if it is the only one.
Named(files, ref) ==
    LET hits == {i \in DOMAIN files :
                    \A part \in FoundBy(ref) : files[i].name[part][1] = ref.name[part][1]}
    IN  IF ref.kind # "icon" /\ Cardinality(hits) = 1 THEN hits ELSE {}

\* The icon textures an Icon names.
Icons(files, ref) ==
    IF ref.kind # "icon" THEN {}
    ELSE {i \in DOMAIN files : /\ files[i].name.dir[1] \in IconDirs
                               /\ files[i].name.ext[1] = "dds"
                               /\ files[i].name.stem[1] = ref.stem[1]}

RefsOf(files) == UNION {{i} \X (DOMAIN files[i].refs) : i \in DOMAIN files}
RefAt(files, o) == files[o[1]].refs[o[2]]

\* The group of a part of an entry's name.  An Icon unites the stems of all
\* the textures named after it.
GroupOfPart(files, i, part) ==
    LET n == files[i].name
    IN  CASE part = "dir" -> <<"d", n.dir[1]>>
          [] part = "ext" -> <<"x">> \o Words(n)
          [] part = "stem" ->
                IF \E o \in RefsOf(files) : i \in Icons(files, RefAt(files, o))
                THEN <<"icon", n.stem[1]>> ELSE <<"s", n.dir[1], n.stem[1]>>

EntrySpellings(files, g) ==
    {files[e[1]].name[e[2]][2] :
        e \in {x \in (DOMAIN files) \X NameParts : GroupOfPart(files, x[1], x[2]) = g}}
PathSpellings(files, g) ==
    UNION {{RefAt(files, o).name[part][2] :
               part \in {p \in LinkedParts(RefAt(files, o)) :
                            \E i \in Named(files, RefAt(files, o)) : GroupOfPart(files, i, p) = g}} :
              o \in RefsOf(files)}
IconSpellings(files, g) ==
    {RefAt(files, o).stem[2] : o \in {x \in RefsOf(files) :
        \E i \in Icons(files, RefAt(files, x)) : GroupOfPart(files, i, "stem") = g}}

\* pin: fixed names keep their spelling, GUI textures are .DDS, and the icon
\* directories are spelled as the base game spells them.
PinsOf(files, i, part) ==
    LET n == files[i].name
    IN  (IF part # "dir" /\ n.stem[1] \in FixedStems THEN {n[part][2]} ELSE {})
        \union (IF part = "ext" /\ n.dir[1] \in GuiDirs /\ n.ext[1] = "dds" THEN {"upper"} ELSE {})
        \union (IF part = "dir" /\ n.dir[1] \in IconDirs /\ n.ext[1] = "dds" THEN {"upper"} ELSE {})
Pins(files, g) ==
    UNION {PinsOf(files, e[1], e[2]) :
              e \in {x \in (DOMAIN files) \X NameParts : GroupOfPart(files, x[1], x[2]) = g}}

\* choose: the spelling of a group, or none.
Choose(files, g) ==
    LET pins == Pins(files, g)
        archive == EntrySpellings(files, g)
        all == archive \union PathSpellings(files, g) \union IconSpellings(files, g)
    IN  IF Cardinality(pins) > 1 THEN {}
        ELSE IF Cardinality(pins) = 1 THEN pins
        ELSE IF Cardinality(all) < 2 THEN {}
        ELSE IF g[1] # "d" THEN {"lower"}
        ELSE IF Cardinality(archive) = 1 THEN archive ELSE {}

Spell(files, g, was) ==
    IF Choose(files, g) = {} THEN was ELSE <<was[1], CHOOSE c \in Choose(files, g) : TRUE>>

\* A name with the parts given as the groups of an entry's parts are spelled.
Respelled(files, i, parts, name) ==
    [part \in NameParts |->
        IF part \in parts THEN Spell(files, GroupOfPart(files, i, part), name[part])
        ELSE name[part]]

RespelledStem(files, i, stem) == Spell(files, GroupOfPart(files, i, "stem"), stem)

NewName(files, i) == Respelled(files, i, NameParts, files[i].name)

NewRef(files, ref) ==
    IF Named(files, ref) # {}
    THEN [ref EXCEPT !.name = Respelled(files, CHOOSE x \in Named(files, ref) : TRUE,
                                        LinkedParts(ref), ref.name)]
    ELSE IF Icons(files, ref) # {}
    THEN [ref EXCEPT !.stem = RespelledStem(files, CHOOSE x \in Icons(files, ref) : TRUE, ref.stem)]
    ELSE ref

\* unify: nothing is changed when two entries would get one name.
Collides(files) ==
    \E i, j \in DOMAIN files : i # j /\ NewName(files, i) = NewName(files, j)
Corrected(files) ==
    [i \in DOMAIN files |->
        [name |-> IF Collides(files) THEN files[i].name ELSE NewName(files, i),
         empty |-> FALSE,
         refs |-> IF Collides(files) THEN files[i].refs
                  ELSE [j \in DOMAIN files[i].refs |-> NewRef(files, files[i].refs[j])]]]

\* pak_fix_build: the copy has the new names, the rewritten files and, when it
\* is not split, all others; <<>> when nothing needs correcting.
FixedRelease == [r \in DOMAIN Releases |-> Corrected(Releases[r])]
Rewritten(r) ==
    {i \in DOMAIN Releases[r] : \/ Releases[r][i].empty
                               \/ FixedRelease[r][i].refs # Releases[r][i].refs}
CopyOf(r) ==
    IF r = 0 \/ FixedRelease[r] = Releases[r] THEN <<>>
    ELSE <<[names |-> [i \in DOMAIN Releases[r] |-> FixedRelease[r][i].name],
            own |-> [i \in (IF r \in SplitReleases THEN Rewritten(r) ELSE DOMAIN Releases[r]) |->
                        FixedRelease[r][i].refs],
            split |-> r \in SplitReleases]>>

-----------------------------------------------------------------------------
\* The redirect: redirect_locked and prepare, a step at a time.

\* The first question of a run sweeps away what is cached of an archive that
\* is no longer installed.
Ask ==
    /\ step = "idle" /\ answer = "unasked"
    /\ step' = "stat"
    /\ IF release = 0 THEN copies' = <<>> /\ cleans' = {} /\ links' = {}
       ELSE UNCHANGED <<copies, cleans, links>>
    /\ UNCHANGED <<release, key, making, answer, partKnown, failed, behindRun, wrongKeys,
                   crashes, replacements>>

Answer(what, split) ==
    /\ step' = "idle" /\ answer' = what /\ partKnown' = split

OfKey(s) == s \intersect {release}

\* prepare: the key, then the mark or the copy that has it; else the files of
\* other keys are pruned and a copy is built.
Stat ==
    /\ step = "stat"
    /\ key' = release
    /\ IF release = 0 \/ release \in cleans
       THEN Answer("original", FALSE) /\ UNCHANGED <<copies, cleans, links>>
       ELSE IF release \in DOMAIN copies
       THEN Answer("copy", copies[release].split) /\ UNCHANGED <<copies, cleans, links>>
       ELSE /\ step' = "build"
            /\ copies' = [k \in OfKey(DOMAIN copies) |-> copies[k]]
            /\ cleans' = OfKey(cleans) /\ links' = OfKey(links)
            /\ UNCHANGED <<answer, partKnown>>
    /\ UNCHANGED <<release, making, failed, behindRun, wrongKeys, crashes, replacements>>

KeepCopy(k, copy) == [x \in DOMAIN copies \union {k} |-> IF x = k THEN copy ELSE copies[x]]

\* Mutant: the copy is written under its own name from the start.
BuildInPlace(ok) ==
    /\ step = "build"
    /\ LET made == CopyOf(release)
       IN  /\ made # <<>> /\ ok
           /\ making' = made[1] /\ step' = "rename"
           /\ copies' = KeepCopy(key, [made[1] EXCEPT !.own = <<>>])
           /\ UNCHANGED <<answer, partKnown, failed, cleans>>
    /\ UNCHANGED <<release, links, key, behindRun, wrongKeys, crashes, replacements>>

\* The archive is read as it is now; one that cannot be read, and one with
\* nothing to correct, is marked as clean.  A failed write leaves the original.
Build(ok) ==
    /\ step = "build"
    /\ LET made == CopyOf(release)
       IN  IF made = <<>>
           THEN /\ cleans' = cleans \union {key} /\ Answer("original", FALSE)
                /\ UNCHANGED <<making, failed>>
           ELSE IF ~ ok
           THEN Answer("original", FALSE) /\ failed' = TRUE /\ UNCHANGED <<making, cleans>>
           ELSE /\ making' = made[1] /\ step' = "rename"
                /\ UNCHANGED <<answer, partKnown, failed, cleans>>
    /\ UNCHANGED <<release, copies, links, key, behindRun, wrongKeys, crashes, replacements>>

RenameCopy ==
    /\ step = "rename"
    /\ copies' = KeepCopy(key, making)
    /\ making' = NoCopy
    /\ IF making.split THEN step' = "link" /\ UNCHANGED <<answer, partKnown>>
       ELSE Answer("copy", FALSE)
    /\ UNCHANGED <<release, cleans, links, key, failed, behindRun, wrongKeys, crashes, replacements>>

\* Part 1 beside the copy; when it cannot be linked, this run reads the
\* original and the next one the copy.
LinkPart(ok) ==
    /\ step = "link"
    /\ links' = IF ok THEN links \union {key} ELSE links \ {key}
    /\ Answer(IF ok THEN "copy" ELSE "original", ok)
    /\ failed' = ~ ok
    /\ UNCHANGED <<release, copies, cleans, key, making, behindRun, wrongKeys, crashes, replacements>>

\* The game ends, at whatever step it is.
Crash ==
    /\ crashes < MaxCrashes
    /\ crashes' = crashes + 1
    /\ step' = "idle" /\ answer' = "unasked" /\ partKnown' = FALSE
    /\ failed' = FALSE /\ behindRun' = FALSE /\ making' = NoCopy /\ key' = 0
    /\ UNCHANGED <<release, copies, cleans, links, wrongKeys, replacements>>

\* The user updates, restores or removes the mod.
ReplaceMod(r) ==
    /\ replacements < MaxReplacements /\ r # release
    /\ replacements' = replacements + 1
    /\ release' = r
    /\ behindRun' = (behindRun \/ answer # "unasked" \/ step # "idle")
    /\ wrongKeys' = IF step = "build" THEN wrongKeys \union {key} ELSE wrongKeys
    /\ UNCHANGED <<copies, cleans, links, step, key, making, answer, partKnown, failed, crashes>>

FixNext ==
    \/ Ask \/ Stat \/ RenameCopy \/ Crash
    \/ \E ok \in BOOLEAN : Build(ok) \/ LinkPart(ok)
    \/ \E r \in {0} \union DOMAIN Releases : ReplaceMod(r)

FixSpec == FixInit /\ [][FixNext]_fixVars

-----------------------------------------------------------------------------

\* What the game reads of a copy whose part 1 is the archive installed now.
ReadFile(copy, files) ==
    [i \in DOMAIN copy.names |->
        [name |-> copy.names[i],
         refs |-> IF i \in DOMAIN copy.own THEN copy.own[i]
                  ELSE IF copy.split /\ ~ partKnown THEN <<>> ELSE files[i].refs]]
Wanted(r) ==
    [i \in DOMAIN Releases[r] |->
        [name |-> FixedRelease[r][i].name, refs |-> FixedRelease[r][i].refs]]

\* What the game reads of an installed mod is its archive corrected, through
\* crashes at any step and updates between runs: unless the archive was
\* replaced since this run asked, or while a copy was built under its key, or
\* the copy could not be made in this run.
ServedIsCorrected ==
    /\ answer # "unasked" /\ release # 0
    /\ ~ behindRun /\ ~ failed /\ release \notin wrongKeys
    => IF answer = "copy" THEN ReadFile(copies[release], Releases[release]) = Wanted(release)
       ELSE FixedRelease[release] = Releases[release]

LeftAlone(files, g) ==
    Collides(files) \/ Cardinality(Pins(files, g)) > 1
                    \/ (g[1] = "d" /\ Cardinality(EntrySpellings(files, g)) > 1)
Agreeing ==
    [r \in DOMAIN Releases |->
        LET was == Releases[r]
            now == FixedRelease[r]
        IN  \A o \in RefsOf(now) :
                /\ \A i \in Named(now, RefAt(now, o)), part \in LinkedParts(RefAt(now, o)) :
                      \/ RefAt(now, o).name[part] = now[i].name[part]
                      \/ LeftAlone(was, GroupOfPart(was, i, part))
                /\ \A i \in Icons(now, RefAt(now, o)) :
                      \/ RefAt(now, o).stem = now[i].name.stem
                      \/ LeftAlone(was, GroupOfPart(was, i, "stem"))]
\* A path, a tail or a GUI key that names one file of a corrected archive spells
\* it as the file is spelled, and an Icon as its textures: unless two spellings of a directory,
\* two pins or two files of one name left the case alone.
ReferencesAgree == \A k \in DOMAIN copies \ wrongKeys : Agreeing[k]

\* The copy the game is given is the corrected archive, and what is corrected
\* agrees with itself.
CorrectedAndServed ==
    ServedIsCorrected /\ ReferencesAgree
=============================================================================
