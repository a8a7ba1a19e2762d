------------------------------ MODULE GameFiles -----------------------------
(* The files Ext.IO and the mod loader see: the loose files of the game's    *)
(* Data directory and of the profile, the mods' archives, scanned once, and  *)
(* the game's own, indexed once.  The scan is begun by whichever thread asks *)
(* first: the one that warms the searches up at start, the story thread      *)
(* before it loads the mods, or a script that looks for a file.              *)
EXTENDS Integers, Sequences, FiniteSets, SequencesExt

CONSTANTS
    DataPaths,     \* [dir : Seq(STRING), leaf : STRING, fault : STRING]
    Globs,         \* the patterns scripts ask for
    GlobOf,        \* the leaf names each matches
    ModPaks,       \* the mods' archives by root and name: [readable, files,
                   \* broken], broken the files listed that read_entry refuses
    GamePaks,      \* the game's, data, localisation, language, each by name:
                   \* [version, byte, files, broken]
    MaxIoCalls     \* calls a script makes

\* The archives of the mods are a list, and the paths have this form.
ASSUME FilesAssumption ==
    /\ DataPaths \subseteq [dir : Seq(STRING), leaf : STRING, fault : STRING]
    /\ ModPaks \in Seq([readable : BOOLEAN, files : SUBSET DataPaths,
                        broken : SUBSET DataPaths])

VARIABLES
    scanned,       \* how many mod archives the scan has read; -1: not begun
    scanner,       \* the thread that scans
    gameIndex,     \* the archives of the game indexed: path to archive
    built,         \* Index::Built
    loose,         \* the loose files under Data
    user,          \* the files under Script Extender, with what they hold
    overrides,     \* g_overrides
    engineReads,   \* whether the engine's FileReader is hooked and usable
    at,            \* where each thread is
    modsSeen,      \* what the story thread got of PakModules
    foundNames,    \* note: what FindFiles of Data gave, and whether the file
                   \* it gave it for could be read: [path, reads]
    ioCalls

fileVars == <<scanned, scanner, gameIndex, built, loose, user, overrides, engineReads,
              at, modsSeen, foundNames, ioCalls>>

Scanners == {"warm", "story", "script"}
NoContent == <<>>

-----------------------------------------------------------------------------
(* Paths.  A path is its directories and its leaf; its fault, if any, is     *)
(* what IsSafeRelativePath refuses.                                          *)

\* safe_relative.
SafeRelative(p, isGlob, allowEmpty) ==
    \/ p.fault = "none"
    \/ p.fault = "empty" /\ allowEmpty
    \/ p.fault = "star" /\ isGlob

\* game_files.cpp's own check: only what is empty, absolute or climbs.
SafeInGame(p) == p.fault \notin {"empty", "absolute", "climbs"}

\* What follows `base` in the directories of p, if base leads there.
UnderBase(base, p) == IsPrefix(base, p.dir)
Rest(base, p) == [dir |-> SubSeq(p.dir, Len(base) + 1, Len(p.dir)), leaf |-> p.leaf]

-----------------------------------------------------------------------------
(* Archives.                                                                 *)

\* module_of_config: Mods/<name>/ScriptExtender/Config.json, one level only.
ModuleOfConfig(p) ==
    /\ Len(p.dir) = 3 /\ p.dir[1] = "Mods" /\ p.dir[3] = "ScriptExtender"
    /\ p.leaf = "Config.json"

\* What pak_modules has listed after n archives, each with its archive: the
\* modules whose configuration could be read.
PakModules(n) ==
    UNION {{[pak |-> i, name |-> p.dir[2]] :
               p \in {q \in ModPaks[i].files \ ModPaks[i].broken : ModuleOfConfig(q)}} :
           i \in {k \in 1..n : ModPaks[k].readable}}

\* Mutant: each archive files what it lists over what is filed already.
ModFileLast(n, p) ==
    LET holds == {i \in 1..n : ModPaks[i].readable /\ p \in ModPaks[i].files}
    IN  IF p.dir = <<>> THEN {}
        ELSE IF p.dir[1] # "Mods" THEN {}
        ELSE {i \in holds : \A j \in holds : i >= j}

\* mod_files after n archives: what is listed under Mods/, with the first
\* archive that lists it, whether or not it can be read from there.
ModFile(n, p) ==
    LET holds == {i \in 1..n : ModPaks[i].readable /\ p \in ModPaks[i].files}
    IN  IF p.dir = <<>> THEN {}
        ELSE IF p.dir[1] # "Mods" THEN {}
        ELSE {i \in holds : \A j \in holds : i <= j}

\* pak_priority: only version 18 has one.
PakPriority(i) == IF GamePaks[i].version = 18 THEN GamePaks[i].byte ELSE 0

\* archives(): by priority, equal ones in the order they were found.
MountedBefore(i, j) ==
    \/ PakPriority(i) > PakPriority(j)
    \/ PakPriority(i) = PakPriority(j) /\ i < j

\* build: the first archive that has the path.
Built ==
    [p \in {q \in DataPaths : \E i \in DOMAIN GamePaks : q \in GamePaks[i].files} |->
        CHOOSE i \in DOMAIN GamePaks :
            /\ p \in GamePaks[i].files
            /\ \A j \in DOMAIN GamePaks \ {i} :
                  p \in GamePaks[j].files => MountedBefore(i, j)]

\* The archives of the game that would be read, were the index made now.
GameFile(p) == IF SafeInGame(p) /\ p \in DOMAIN Built THEN {Built[p]} ELSE {}

\* mod_file_read, game_file_read's last part: a file is read from the archive
\* it is filed under and no other, and is not read at all if read_entry refuses
\* the entry: nothing stored, more than its bound, or an unknown compression.
ReadsMod(n, p) == \E i \in ModFile(n, p) : p \notin ModPaks[i].broken
ReadsGame(p) == \E i \in GameFile(p) : p \notin GamePaks[i].broken

-----------------------------------------------------------------------------
FilesInit ==
    /\ scanned = -1 /\ scanner = "none"
    /\ gameIndex = <<>> /\ built = FALSE
    /\ loose = {} /\ user = <<>> /\ overrides = <<>> /\ engineReads = FALSE
    /\ at = [t \in Scanners |-> "idle"]
    /\ modsSeen = {} /\ foundNames = {} /\ ioCalls = 0

\* pak_modules is entered: the first caller scans, the others return with
\* what there is.  The flag is set before the scan, and nothing is locked.
EnterScan(t) ==
    /\ at[t] = "idle"
    /\ IF scanned = -1
       THEN scanned' = 0 /\ scanner' = t /\ at' = [at EXCEPT ![t] = "scanning"]
       ELSE at' = [at EXCEPT ![t] = "through"] /\ UNCHANGED <<scanned, scanner>>
    /\ UNCHANGED <<engineReads, gameIndex, built, loose, user, overrides, modsSeen, foundNames, ioCalls>>

\* One archive: its file list, then its configurations and their meta.
ScanArchive ==
    /\ 0 <= scanned /\ scanned < Len(ModPaks)
    /\ scanned' = scanned + 1
    /\ at' = IF scanned' = Len(ModPaks) THEN [at EXCEPT ![scanner] = "through"] ELSE at
    /\ UNCHANGED <<engineReads, scanner, gameIndex, built, loose, user, overrides, modsSeen,
                   foundNames, ioCalls>>

\* lua_load_mods on the story thread, after the searches: PakModules().
LoadPackedMods ==
    /\ at["story"] = "through"
    /\ at' = [at EXCEPT !["story"] = "loaded"]
    /\ modsSeen' = PakModules(scanned)
    /\ UNCHANGED <<engineReads, scanned, scanner, gameIndex, built, loose, user, overrides,
                   foundNames, ioCalls>>

Calls == ioCalls < MaxIoCalls /\ ioCalls' = ioCalls + 1

\* The engine's own view, through its FileReader: an override, a loose file,
\* an archive it has mounted.
EngineSees(p) ==
    LET q == IF p \in DOMAIN overrides THEN overrides[p] ELSE p
    IN  q \in loose \/ ReadsMod(Len(ModPaks), q) \/ ReadsGame(q)

\* A loose file under Data, which comes before the archives.
ReadLoose(p) == p \in loose

\* From the disk, or else from a mod's archive, or else from the game's.
ReadsHere(p) == ReadLoose(p) \/ ReadsMod(scanned, p) \/ ReadsGame(p)

\* Whether LoadFile of the data context gives something, or nil.
LoadsData(p) ==
    /\ SafeRelative(p, FALSE, FALSE)
    /\ (engineReads /\ EngineSees(p)) \/ ReadsHere(p)

\* Ext.IO.LoadFile(path, "data"): what it does on the way is to index.
LoadFile(p) ==
    /\ Calls
    /\ SafeRelative(p, FALSE, FALSE)
    /\ ~ (engineReads /\ EngineSees(p)) /\ ~ ReadLoose(p)
    /\ at["script"] = "through"
    /\ IF ~ ReadsMod(scanned, p) /\ SafeInGame(p)
       THEN built' = TRUE /\ gameIndex' = Built
       ELSE UNCHANGED <<built, gameIndex>>
    /\ UNCHANGED <<engineReads, scanned, scanner, loose, user, overrides, at, modsSeen, foundNames>>

\* Ext.IO.SaveFile and AppendFile: under Script Extender only, the directories
\* made on the way.  A write that fails has emptied or lengthened the file.
SaveFile(p, text, append, ok) ==
    LET was == IF append /\ p \in DOMAIN user THEN user[p] ELSE NoContent
    IN  /\ Calls
        /\ SafeRelative(p, FALSE, FALSE)
        /\ user' = [q \in DOMAIN user \cup {p} |->
                       IF q = p THEN (IF ok THEN Append(was, text) ELSE was) ELSE user[q]]
        /\ UNCHANGED <<engineReads, scanned, scanner, gameIndex, built, loose, overrides, at,
                       modsSeen, foundNames>>

\* Ext._Internal.WriteDataFile.
WriteDataFile(p) ==
    /\ Calls
    /\ SafeRelative(p, FALSE, FALSE)
    /\ loose' = loose \cup {p}
    /\ UNCHANGED <<engineReads, scanned, scanner, gameIndex, built, user, overrides, at,
                   modsSeen, foundNames>>

\* install_path_override_hook, at start; it may find neither end of the reader.
InstallPathOverrideHook ==
    /\ ~ engineReads
    /\ engineReads' = TRUE
    /\ UNCHANGED <<scanned, scanner, gameIndex, built, loose, user, overrides, at,
                   modsSeen, foundNames, ioCalls>>

\* Ext.IO.AddPathOverride, refused where the engine's reader is not hooked.
AddPathOverride(p, q) ==
    /\ Calls
    /\ engineReads
    /\ overrides' = [x \in DOMAIN overrides \cup {p} |-> IF x = p THEN q ELSE overrides[x]]
    /\ UNCHANGED <<engineReads, scanned, scanner, gameIndex, built, loose, user, at, modsSeen, foundNames>>

\* bg3le_path_override_clear, as the session is unloaded.
ClearPathOverrides ==
    /\ overrides # <<>>
    /\ overrides' = <<>>
    /\ UNCHANGED <<engineReads, scanned, scanner, gameIndex, built, loose, user, at, modsSeen,
                   foundNames, ioCalls>>

\* collect_files and `consider`: the names below base that match, those in
\* directories below it only when recursive.
Matching(base, glob, recursive, paths) ==
    {p \in paths : /\ UnderBase(base, p)
                   /\ recursive \/ Rest(base, p).dir = <<>>
                   /\ p.leaf \in GlobOf[glob]}

\* Ext.IO.FindFiles(base, glob, "data", recursive, packed): the names are
\* relative to the base; put after it they are the paths noted here.
FindFiles(base, glob, recursive, packed) ==
    /\ Calls
    /\ packed => at["script"] = "through"
    /\ foundNames' = foundNames \cup
          {[path |-> [p EXCEPT !.dir = base \o Rest(base, p).dir], reads |-> ReadsHere(p)] : p \in
             Matching(base, glob, recursive,
                      loose \cup IF packed THEN {q \in DataPaths : ModFile(scanned, q) # {}}
                                               \cup DOMAIN Built ELSE {})}
    /\ IF packed THEN built' = TRUE /\ gameIndex' = Built ELSE UNCHANGED <<built, gameIndex>>
    /\ UNCHANGED <<engineReads, scanned, scanner, loose, user, overrides, at, modsSeen>>

FilesNext ==
    \/ \E t \in Scanners : EnterScan(t)
    \/ ScanArchive
    \/ LoadPackedMods
    \/ \E p \in DataPaths :
          \/ LoadFile(p) \/ WriteDataFile(p)
          \/ \E append, ok \in BOOLEAN : SaveFile(p, "text", append, ok)
          \/ \E q \in DataPaths : AddPathOverride(p, q)
          \/ \E g \in Globs, k \in 1..Len(p.dir), recursive, packed \in BOOLEAN :
                FindFiles(SubSeq(p.dir, 1, k), g, recursive, packed)
    \/ InstallPathOverrideHook
    \/ ClearPathOverrides

FilesSpec == FilesInit /\ [][FilesNext]_fileVars

-----------------------------------------------------------------------------
\* What Ext.IO.FindFiles lists of the game's data and could be read when it
\* was listed, LoadFile loads by that name from then on: wherever it came from,
\* however far a scan on another thread goes on, and whatever the archives
\* read later list under the same name, with entries that cannot be read
\* among them; unless the name itself is one that LoadFile refuses.
FoundLoads ==
    \A f \in foundNames : f.reads /\ SafeRelative(f.path, FALSE, FALSE) => LoadsData(f.path)

\* "Before the mods, not after: whatever they ask for on load has to be there
\* already" (preload.cpp:1035): the mods that are loaded are those of every
\* archive there is.
EveryModuleSeen ==
    at["story"] = "loaded" => modsSeen = PakModules(Len(ModPaks))
=============================================================================
