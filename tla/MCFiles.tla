------------------------------- MODULE MCFiles -------------------------------
(* What is kept on disk and read back, each on its own (part): the saves,   *)
(* the archives and the corrected copies, plugins' settings,                *)
(* modsettings.lsx, the game's files, and the searches of the start; and    *)
(* what the debugger keeps in memory for who attaches later.                *)
EXTENDS SaveData, SaveRegion, Archives, PakFix, Plugins, ModSettings,
        GameFiles, Searches, DebugOutput

-----------------------------------------------------------------------------
(* SaveData: a mod as most are, an old one without values of its own at     *)
(* first, one that is not installed any more, and a save that is made again *)
(* and loaded again, in either of two games.                                *)
CONSTANTS mod, old, gone, quicksave
MCMods == {mod, old, gone}
MCInstalled == {mod, old}
MCSupported == {mod}
MCSlots == {quicksave}

-----------------------------------------------------------------------------
(* SaveRegion: tables of every shape, owners in either case.                *)
Str(v) == Lua("string", v)
MCHeap ==
    [plain |-> [kind |-> "object", items |-> <<<<Str("a"), Lua("integer", "1")>>,
                                               <<Str("b"), Lua("table", "list")>>>>],
     list |-> [kind |-> "array", items |-> <<<<Lua("integer", "1"), Str("x")>>,
                                             <<Lua("integer", "2"), Lua("table", "empty")>>>>],
     empty |-> [kind |-> "array", items |-> <<>>],
     loop |-> [kind |-> "object", items |-> <<<<Str("self"), Lua("table", "loop")>>>>],
     view |-> [kind |-> "struct", items |-> <<<<Str("m"), Lua("bits", "b")>>>>]]
MCBits == [b |-> <<"L1", "L2">>]
MCVarOwners == [lower |-> "lower", upper |-> "lower", other |-> ""]
MCVarValues == <<LuaNull, Str("text"), Lua("float", "nan"), Lua("table", "plain"),
                 Lua("table", "loop"), Lua("function", "f")>>
MCForeignNodes ==
    <<<<[owner |-> "lower", name |-> "v", type |-> 6, val |-> Tree(Lua("table", "list"))],
        [owner |-> "lower", name |-> "w", type |-> 1, val |-> Tree(Lua("integer", "7"))]>>>>

-----------------------------------------------------------------------------
(* Archives: one of each version and of two parts, an entry packed in a way *)
(* nobody knows, and a part that is not there.                              *)
Entry(n, a, p) == [name |-> n, at |-> a, part |-> p, method |-> "known"]
MCGivenPaks == <<
    [version |-> 18, parts |-> 1, body |-> <<1, 2, 0>>,
     list |-> <<Entry("x", 1, 0), Entry("m", 2, 0), Entry("y", 3, 0)>>],
    [version |-> 15, parts |-> 1, body |-> <<3, 4>>,
     list |-> <<Entry("y", 2, 0), [Entry("x", 1, 0) EXCEPT !.method = "other"]>>],
    [version |-> 18, parts |-> 2, body |-> <<5>>,
     list |-> <<Entry("y", 1, 0), Entry("x", 2, 1)>>],
    [version |-> 12, parts |-> 1, body |-> <<6>>, list |-> <<Entry("y", 1, 0)>>] >>
MCPartPath == [a |-> "b", b |-> "c", g |-> "b"]
MCRenamed == [x |-> "x2", m |-> "m", y |-> "y", x2 |-> "x2"]

-----------------------------------------------------------------------------
(* PakFix: releases of a mod whose references differ in case from what they *)
(* are for, that give what two names differ in, and that are right.         *)
Lower(w) == <<w, "lower">>
Upper(w) == <<w, "upper">>
Name(d, s, x) == [dir |-> d, stem |-> s, ext |-> x]
Path(n) == [kind |-> "path", name |-> n]
TailRef(n) == [kind |-> "tail", name |-> n]
GuiKey(n) == [kind |-> "gui", name |-> n]
IconRef(s) == [kind |-> "icon", stem |-> s]
PakFile(n, refs) == [name |-> n, empty |-> FALSE, refs |-> refs]
LsxA == Name(Lower("d"), Lower("a"), Lower("lsx"))
TxtB == Name(Lower("d"), Lower("b"), Lower("txt"))
TxtC == Name(Lower("d"), Lower("c"), Lower("txt"))
UpperB == Name(Upper("d"), Upper("b"), Lower("txt"))
Dds(dir, stem) == Name(Lower(dir), stem, Lower("dds"))
MCReleases == <<
    << PakFile(LsxA, <<Path(UpperB)>>), PakFile(TxtB, <<>>) >>,
    << PakFile(LsxA, <<Path(TxtB), TailRef(Name(Lower("d"), Upper("b"), Lower("txt")))>>),
       PakFile(UpperB, <<>>) >>,
    << PakFile(LsxA, <<>>), [PakFile(TxtB, <<>>) EXCEPT !.empty = TRUE] >>,
    << PakFile(LsxA, <<>>) >>,
    << PakFile(Name(Lower("d"), Lower("a"), Lower("txt")),
             <<IconRef(Upper("i")), Path(Dds("icons", Upper("j"))),
               GuiKey(Dds("gui", Upper("j")))>>),
       PakFile(Dds("icons", Lower("i")), <<>>), PakFile(Dds("items", Upper("i")), <<>>),
       PakFile(Dds("gui", Lower("j")), <<>>) >>,
    << PakFile(Name(Lower("d"), Upper("meta"), Lower("lsx")),
             <<Path(Name(Lower("d"), Lower("meta"), Lower("lsx")))>>),
       PakFile(TxtB, <<Path(TxtC)>>), PakFile(Name(Lower("d"), Upper("b"), Lower("txt")), <<>>),
       PakFile(Name(Lower("d"), Upper("c"), Lower("txt")), <<>>) >> >>

-----------------------------------------------------------------------------
(* Plugins: two, and one setting.                                           *)
MCPluginFiles == <<"p1", "p2">>
MCSettingTypes == [b |-> [type |-> "int", min |-> 0, max |-> 2]]

-----------------------------------------------------------------------------
(* ModSettings: three modules, one of them in two archives; each needs      *)
(* nothing, what the game provides, or one of the three after something     *)
(* that is not there.                                                       *)
MCModuleNeeds == [Modules -> {<<>>, <<"g">>} \cup {<<"x", m>> : m \in Modules}]
MCRank == [a |-> 1, b |-> 2, c |-> 3]
MCPaks == [p1 |-> "a", p2 |-> "b", p3 |-> "c", p4 |-> "b"]

-----------------------------------------------------------------------------
(* GameFiles: two mods' archives, of which the second has a file of the     *)
(* game's as well, lists the first's configuration with an entry that       *)
(* cannot be read, and one the game has too; and a name no archive can give. *)
DataPath(dir, leaf, fault) == [dir |-> dir, leaf |-> leaf, fault |-> fault]
ConfigOf(m) == DataPath(<<"Mods", m, "ScriptExtender">>, "Config.json", "none")
InBoth == DataPath(<<"Public">>, "a.lsx", "none")
Illegal == DataPath(<<"Public">>, "b?.lsx", "illegal")
MCDataPaths == {ConfigOf("M"), ConfigOf("N"), ConfigOf("O"), InBoth, Illegal}
MCGlobOf == [g \in {"all", "json"} |-> IF g = "json" THEN {"Config.json"}
                                       ELSE {"Config.json", "a.lsx", "b?.lsx"}]
MCModPaks == <<[readable |-> TRUE, files |-> {ConfigOf("M")}, broken |-> {}],
               [readable |-> TRUE, files |-> {ConfigOf("M"), ConfigOf("N"), ConfigOf("O"), InBoth},
                broken |-> {ConfigOf("M"), ConfigOf("O")}]>>
MCGamePaks == <<[version |-> 18, byte |-> 0, files |-> {InBoth, Illegal, ConfigOf("O")},
                 broken |-> {}],
                [version |-> 18, byte |-> 5, files |-> {InBoth}, broken |-> {InBoth}]>>

-----------------------------------------------------------------------------
(* DebugOutput: which connection, thread or descriptor it is, is nothing,   *)
(* so of those that are alike it is always the same one that is used.       *)
CONSTANTS c1, c2, e1, e2, f1, f2
MCConnections == {c1, c2}
MCEmitters == {e1, e2}
MCFds == {f1, f2}
InOrder ==
    /\ outputAt'[c1] = "new" => outputAt'[c2] = "new"
    /\ outputAt[c1] = "new" => fd'[c1] \in {f1, NoFd}
    /\ emission[e1] = NotReading /\ emission[e2] = NotReading => emission'[e2] = NotReading

-----------------------------------------------------------------------------

VARIABLE part

MCVars == <<part, vars, regionVars, pakVars, fixVars, pluginVars,
            settingsVars, fileVars, searchVars, outputVars>>

MCPartNames == {"saves", "region", "archives", "copies", "plugins",
          "settings", "files", "searches", "output"}

MCInit ==
    /\ part \in MCPartNames
    /\ Init /\ (part # "saves" => file = [s \in Slots |-> CHOOSE f \in Foreign : TRUE])
    /\ RegionInit /\ (part # "region" => region = <<>>)
    /\ PakInit /\ (part # "archives" => disk = [p \in PakPaths |-> GivenPaks[1]])
    /\ FixInit /\ (part # "copies" => release = 1)
    /\ PluginsInit
    /\ SettingsInit /\ (part # "settings" => needs = [m \in Modules |-> <<>>])
    /\ FilesInit
    /\ SearchInit /\ (part # "searches" => warm = "skipped")
    /\ OutputInit

MCNext ==
    /\ UNCHANGED part
    /\ \/ /\ part = "saves" /\ Next
          /\ UNCHANGED <<regionVars, pakVars, fixVars, pluginVars,
                         settingsVars, fileVars, searchVars, outputVars>>
       \/ /\ part = "region" /\ RegionNext
          /\ UNCHANGED <<vars, pakVars, fixVars, pluginVars, settingsVars,
                         fileVars, searchVars, outputVars>>
       \/ /\ part = "archives" /\ PakNext
          /\ UNCHANGED <<vars, regionVars, fixVars, pluginVars, settingsVars,
                         fileVars, searchVars, outputVars>>
       \/ /\ part = "copies" /\ FixNext
          /\ UNCHANGED <<vars, regionVars, pakVars, pluginVars, settingsVars,
                         fileVars, searchVars, outputVars>>
       \/ /\ part = "plugins" /\ PluginsNext
          /\ UNCHANGED <<vars, regionVars, pakVars, fixVars, settingsVars,
                         fileVars, searchVars, outputVars>>
       \/ /\ part = "settings" /\ SettingsNext
          /\ UNCHANGED <<vars, regionVars, pakVars, fixVars, pluginVars,
                         fileVars, searchVars, outputVars>>
       \/ /\ part = "files" /\ FilesNext
          /\ UNCHANGED <<vars, regionVars, pakVars, fixVars, pluginVars,
                         settingsVars, searchVars, outputVars>>
       \/ /\ part = "searches" /\ SearchNext
          /\ UNCHANGED <<vars, regionVars, pakVars, fixVars, pluginVars,
                         settingsVars, fileVars, outputVars>>
       \/ /\ part = "output" /\ OutputNext /\ InOrder
          /\ UNCHANGED <<vars, regionVars, pakVars, fixVars, pluginVars,
                         settingsVars, fileVars, searchVars>>

MCSpec == MCInit /\ [][MCNext]_MCVars
==============================================================================
