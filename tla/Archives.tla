------------------------------ MODULE Archives ------------------------------
(***************************************************************************)
(* LSPK archives (pak.cpp): the file list, the reader that keeps it, the   *)
(* writer, and the commands of tools/modsettings.cpp that copy archives.   *)
(*                                                                         *)
(* An archive is [version, parts, list, body]: body is a sequence of data  *)
(* blocks, an entry of the list names the block its data is and the part   *)
(* it is in.  A block is a number; 0 is no data.                           *)
(***************************************************************************)
EXTENDS Integers, Sequences, SequencesExt, FiniteSets

CONSTANTS
    PakPaths,      \* the archives a tool or the host is given
    OutPath,       \* the archive a command writes
    GivenPaks,     \* the archives found on disk, a sequence of them
    PartPath,      \* path -> the path of its part 1
    GamePaths,     \* the paths under the game's own Data directory
    MetaNames,     \* the names that end in meta.lsx
    WordNames,     \* the names --only, --without and --rename match
    TextNames,     \* the names whose text --rename rewrites
    Renamed,       \* name -> the name with the folder replaced
    Replacement,   \* the meta.lsx --repack is given
    MaxPakSteps    \* bound: commands, reads and replacements

VARIABLES
    disk,        \* path -> its archive, or NoPak
    lists,       \* g_lists: path -> the list kept after the first read
    stalePaks,   \* the paths replaced since their list was kept
    command,     \* the last command: its sources and what it wrote, or read
    pakSteps

pakVars == <<disk, lists, stalePaks, command, pakSteps>>

NoPak == [version |-> 0]

PakInit ==
    /\ disk \in [PakPaths -> Range(GivenPaks)]
    /\ lists = <<>>
    /\ stalePaks = {}
    /\ command = [name |-> "none"]
    /\ pakSteps = 0

-----------------------------------------------------------------------------
\* Reading.

OnDisk(path) == path \in DOMAIN disk /\ disk[path] # NoPak

\* pak_listing: versions 15, 16 and 18; a list with no entries is refused.
Listed(path) ==
    /\ OnDisk(path)
    /\ disk[path].version \in {15, 16, 18}
    /\ disk[path].list # <<>>

\* read_list: the list kept, or the one on disk; the game's own multi-part
\* archives are skipped, and so are the entries of another part.
PartsWanted(path) == path \notin GamePaths

ReadList(path) ==
    IF path \in DOMAIN lists THEN <<lists[path]>>
    ELSE IF ~ Listed(path) \/ (disk[path].version = 18 /\ disk[path].parts # 1 /\ ~ PartsWanted(path))
    THEN <<>>
    ELSE <<SelectSeq(disk[path].list, LAMBDA e : e.part = 0 \/ PartsWanted(path))>>
KeepList(path) ==
    IF ReadList(path) = <<>> THEN lists
    ELSE [p \in DOMAIN lists \union {path} |-> IF p = path THEN ReadList(path)[1] ELSE lists[p]]

\* read_entry: the block of the part the entry is in; no data, or a method
\* that is not known, is not read.
PartOf(path, e) == IF e.part = 0 THEN path ELSE PartPath[path]
Block(path, e) ==
    LET from == PartOf(path, e)
    IN  IF OnDisk(from) /\ e.at \in DOMAIN disk[from].body /\ e.method = "known"
        THEN disk[from].body[e.at] ELSE 0

\* pak_read: the accepted entries that can be read, in the list's order.
Accepted(path, accept) == SelectSeq(ReadList(path)[1], LAMBDA e : e.name \in accept)
PakRead(path, accept) ==
    LET got == SelectSeq(Accepted(path, accept), LAMBDA e : Block(path, e) # 0)
    IN  [i \in DOMAIN got |-> [name |-> got[i].name, data |-> Block(path, got[i])]]

NamesOf(path) == IF ReadList(path) = <<>> THEN {} ELSE {e.name : e \in Range(ReadList(path)[1])}

-----------------------------------------------------------------------------
\* Writing.

\* Mutant: an entry's offset is taken after its data is written.
PakWriteAfter(files) ==
    [version |-> 18, parts |-> 1,
     list |-> [i \in DOMAIN files |->
                 [name |-> files[i].name, at |-> i + 1, part |-> 0, method |-> "known"]],
     body |-> [i \in DOMAIN files |-> files[i].data]]

\* pak_write: the contents, the list, then the header that names it.
PakWrite(files) ==
    [version |-> 18, parts |-> 1,
     list |-> [i \in DOMAIN files |->
                 [name |-> files[i].name, at |-> i, part |-> 0, method |-> "known"]],
     body |-> [i \in DOMAIN files |-> files[i].data]]

Put(path, pak) == [p \in DOMAIN disk \union {path} |-> IF p = path THEN pak ELSE disk[p]]

\* A run of the tool: a process of its own, so no list is kept from before.
\* Nothing is written when a source cannot be read.
Command(name, sources, files, wanted) ==
    /\ lists = <<>> /\ pakSteps < MaxPakSteps
    /\ pakSteps' = pakSteps + 1
    /\ LET ok == \A s \in Range(sources) : ReadList(s) # <<>>
       IN  /\ disk' = IF ok THEN Put(OutPath, PakWrite(files)) ELSE disk
           /\ command' = [name |-> name, ok |-> ok, sources |-> sources, wanted |-> wanted]
    /\ UNCHANGED <<lists, stalePaks>>

Every(path) == NamesOf(path)

\* --repack in out meta: every meta.lsx replaced.
Repack(path) ==
    LET read == IF ReadList(path) = <<>> THEN <<>> ELSE PakRead(path, Every(path))
        put == [i \in DOMAIN read |->
                  IF read[i].name \in MetaNames THEN [read[i] EXCEPT !.data = Replacement]
                  ELSE read[i]]
    IN  Command("repack", <<path>>, put, [p \in {path} |-> Every(path)])

\* --only, --without in out word.
Only(path) ==
    Command("only", <<path>>,
            IF ReadList(path) = <<>> THEN <<>> ELSE PakRead(path, Every(path) \intersect WordNames),
            [p \in {path} |-> Every(path) \intersect WordNames])
WithoutWord(path) ==
    Command("without", <<path>>,
            IF ReadList(path) = <<>> THEN <<>> ELSE PakRead(path, Every(path) \ WordNames),
            [p \in {path} |-> Every(path) \ WordNames])

\* --rename in out from to: the names, and the text of the .lsx and json files.
Swapped(block) == -block
Rename(path) ==
    LET read == IF ReadList(path) = <<>> THEN <<>> ELSE PakRead(path, Every(path))
        put == [i \in DOMAIN read |->
                  [name |-> Renamed[read[i].name],
                   data |-> IF read[i].name \in TextNames THEN Swapped(read[i].data)
                            ELSE read[i].data]]
    IN  Command("rename", <<path>>, put, [p \in {path} |-> Every(path)])

\* --merge out in in: one file of each name, in the place of the first, with
\* the data of the last.
MergeInto(files, f) ==
    IF \E i \in DOMAIN files : files[i].name = f.name
    THEN [files EXCEPT ![SelectInSeq(files, LAMBDA g : g.name = f.name)].data = f.data]
    ELSE Append(files, f)
MergeFiles(first, second) == FoldLeft(MergeInto, <<>>, first \o second)
Merge(one, two) ==
    LET readable == ReadList(one) # <<>> /\ ReadList(two) # <<>>
    IN  Command("merge", <<one, two>>,
                IF readable THEN MergeFiles(PakRead(one, Every(one)), PakRead(two, Every(two)))
                ELSE <<>>,
                [p \in {one, two} |-> Every(p)])

\* --make out name file ...
Make(names, block) ==
    Command("make", <<>>, [i \in DOMAIN names |-> [name |-> names[i], data |-> block]], <<>>)

\* The host: lists are kept for the rest of the process.
HostReads(path) ==
    /\ pakSteps < MaxPakSteps
    /\ pakSteps' = pakSteps + 1
    /\ lists' = KeepList(path)
    /\ command' = IF ReadList(path) = <<>> THEN [name |-> "unread", path |-> path]
                  ELSE [name |-> "read", path |-> path, got |-> PakRead(path, Every(path))]
    /\ UNCHANGED <<disk, stalePaks>>

\* The user replaces an archive.
Replace(path, pak) ==
    /\ pakSteps < MaxPakSteps /\ pak # disk[path]
    /\ pakSteps' = pakSteps + 1
    /\ disk' = [disk EXCEPT ![path] = pak]
    /\ stalePaks' = stalePaks \union ({q \in DOMAIN lists :
                       q = path \/ (q \in DOMAIN PartPath /\ PartPath[q] = path)})
    /\ command' = [name |-> "none"]
    /\ UNCHANGED lists

PakNext ==
    \/ \E p \in PakPaths :
          \/ Repack(p) \/ Only(p) \/ WithoutWord(p) \/ Rename(p) \/ HostReads(p)
          \/ \E q \in PakPaths : Merge(p, q)
          \/ \E i \in DOMAIN GivenPaks : Replace(p, GivenPaks[i])
    \/ \E n \in DOMAIN Renamed, block \in {0, Replacement} : Make(<<n>>, block)

PakSpec == PakInit /\ [][PakNext]_pakVars

-----------------------------------------------------------------------------
\* What an archive holds, by its own list and nothing kept from before.

Holds(path) ==
    IF ~ Listed(path) THEN {}
    ELSE {<<e.name, Block(path, e)>> :
            e \in {x \in Range(disk[path].list) : Block(path, x) # 0
                                                  /\ (x.part = 0 \/ PartsWanted(path))}}

\* A copy made by --only, --without or --merge holds the files it was asked
\* for, each with the data the archive it comes from has; of files with one
\* name --merge keeps the later.  Files with no data are left out.
CopyHoldsTheFiles ==
    command.name \in {"only", "without", "merge"} /\ command.ok =>
        LET From(s) == {f \in Holds(s) : f[1] \in command.wanted[s]}
            last == command.sources[Len(command.sources)]
            first == command.sources[1]
        IN  Holds(OutPath) = From(last) \union
                {f \in From(first) : \A g \in From(last) : g[1] # f[1]}

\* What the host reads of an archive is what the archive holds, unless it was
\* replaced since its list was kept.
ReadsWhatIsThere ==
    command.name = "read" /\ command.path \notin stalePaks =>
        {<<f.name, f.data>> : f \in Range(command.got)} = Holds(command.path)

\* What is read of an archive, and what a copy is made to hold, is what is
\* there.
PaksHoldTheirFiles ==
    ReadsWhatIsThere /\ CopyHoldsTheFiles
=============================================================================
