----------------------------- MODULE ModLoading -----------------------------
(* Mods in a Lua state: the load order and the caches over it, the          *)
(* bootstraps run in that order, and the files they require.                *)
(* A mod is its UUID and has its table to itself, its archive is readable;  *)
(* what its files contain is the choice of the actions.                     *)
EXTENDS Integers, Sequences, SequencesExt, FiniteSets

CONSTANTS
    NoMod,
    Mods,            \* the packed script modules
    Broken,          \* the mods whose bootstrap does not compile
    Files,           \* the files of each mod besides its bootstrap
    Settings,        \* the orders modsettings.lsx may give
    MaxNesting,      \* files running inside one another
    MaxOrders        \* changes of the engine's list and of modsettings.lsx

Boot == "BootstrapServer.lua"

ASSUME ModLoadingAssumption == Boot \notin Files

VARIABLES
    engine,          \* the engine's module list
    settings,        \* modsettings.lsx, as ModSettingsOrder reads it
    orders,          \* number of changes of the two
    loadOrder,       \* load_order and its key
    modLoaded,       \* mod_loaded and mod_loaded_for
    answer,          \* what IsModLoaded said last: <<mod, said, of>>
    scriptsLoaded,   \* scripts_loaded
    packed,          \* mod -> position, of those LoadModScripts still has to load
    running,         \* the files running, the innermost last
    moduleUuid,      \* ModuleUUID; loading_mod and Ext.Require change with it
    readers,         \* mod_readers and ModRequirers: the mods that got a table
    loaded,          \* the mods whose bootstrap ran to its end
    required,        \* mod -> its `required`: the <<mod, file>> kept
    ran              \* history: requirer, mod and file -> runs begun outside it

modVars == <<engine, settings, orders, loadOrder, modLoaded, answer,
             scriptsLoaded, packed, running, moduleUuid, readers, loaded,
             required, ran>>
loadVars == <<scriptsLoaded, packed, running, moduleUuid, readers, loaded,
              required, ran>>

ModInit ==
    /\ engine = <<>>
    /\ settings \in Settings
    /\ orders = 0
    /\ loadOrder = [key |-> <<>>, order |-> <<>>]
    /\ modLoaded = [mods |-> {}, count |-> -1]
    /\ answer = <<NoMod, FALSE, <<>>>>
    /\ scriptsLoaded = FALSE
    /\ packed = [m \in {} |-> 0]
    /\ running = <<>>
    /\ moduleUuid = NoMod
    /\ readers = {}
    /\ loaded = {}
    /\ required = [m \in Mods |-> {}]
    /\ ran = [r \in Mods \X Mods \X Files |-> 0]

-----------------------------------------------------------------------------
(* The load order                                                           *)

Distinct(seq) ==
    FoldLeft(LAMBDA out, u : IF Contains(out, u) THEN out ELSE Append(out, u),
             <<>>, seq)

\* BuildLoadOrder: what only the engine lists, then what the player enabled.
BuildLoadOrder(e, s) ==
    Distinct(SelectSeq(e, LAMBDA u : ~Contains(s, u))) \o Distinct(s)

\* The key of current_load_order: the engine's count and ends, the settings.
OrderKey(e, s) ==
    <<Len(e), IF e = <<>> THEN NoMod ELSE e[1],
      IF e = <<>> THEN NoMod ELSE e[Len(e)], s>>

\* current_load_order
CurrentLoadOrder ==
    LET key == OrderKey(engine, settings)
    IN  IF key = loadOrder.key THEN loadOrder
        ELSE [key |-> key, order |-> BuildLoadOrder(engine, settings)]

\* The engine loads a module ("the engine's list only grows").
EngineLoads(m) ==
    /\ orders < MaxOrders
    /\ ~Contains(engine, m)
    /\ engine' = Append(engine, m)
    /\ orders' = orders + 1
    /\ UNCHANGED <<settings, loadOrder, modLoaded, answer, loadVars>>

\* modsettings.lsx is written again; its time and size tell.
SettingsWritten(s) ==
    /\ orders < MaxOrders
    /\ settings' = s
    /\ orders' = orders + 1
    /\ UNCHANGED <<engine, loadOrder, modLoaded, answer, loadVars>>

\* Ext.Mod.IsModLoaded: the set is made again when the order's length changes.
IsModLoaded(m) ==
    LET current == CurrentLoadOrder
        set == IF Len(current.order) # modLoaded.count
               THEN [mods |-> Range(current.order), count |-> Len(current.order)]
               ELSE modLoaded
    IN  /\ loadOrder' = current
        /\ modLoaded' = set
        /\ answer' = <<m, m \in set.mods, current.order>>
        /\ UNCHANGED <<engine, settings, orders, loadVars>>

-----------------------------------------------------------------------------
(* LoadModScripts and load_mod_from                                         *)

\* load_positions: the packed modules that have a position.  The order already
\* holds what modsettings.lsx lists.
LoadPositions(order) ==
    [m \in Mods \cap Range(order) |-> CHOOSE i \in DOMAIN order : order[i] = m]

LoadModScripts ==
    /\ ~scriptsLoaded
    /\ scriptsLoaded' = TRUE
    /\ loadOrder' = CurrentLoadOrder
    /\ packed' = LoadPositions(CurrentLoadOrder.order)
    /\ UNCHANGED <<engine, settings, orders, modLoaded, answer, running,
                   moduleUuid, readers, loaded, required, ran>>

\* load_mod_from up to the bootstrap, of the first by position: the mod's
\* table, reader and requirer are made, and ModuleUUID is the mod while its
\* bootstrap runs.  One that does not compile puts it back.
LoadModFrom(m) ==
    /\ running = <<>>
    /\ m \in DOMAIN packed /\ \A n \in DOMAIN packed : packed[m] <= packed[n]
    /\ readers' = readers \cup {m}
    /\ IF m \in Broken
       THEN UNCHANGED <<moduleUuid, running>>
       ELSE moduleUuid' = m /\ running' = <<<<m, m, Boot>>>>
    /\ packed' = Restrict(packed, DOMAIN packed \ {m})
    /\ UNCHANGED <<engine, settings, orders, loadOrder, modLoaded, answer,
                   scriptsLoaded, loaded, required, ran>>

\* pcall(chunk) of the bootstrap: what it changed for the duration is put
\* back whether it failed or not.
BootstrapReturns(ok) ==
    /\ Len(running) = 1 /\ running[1][3] = Boot
    /\ moduleUuid' = NoMod
    /\ loaded' = IF ok THEN loaded \cup {moduleUuid} ELSE loaded
    /\ running' = <<>>
    /\ UNCHANGED <<engine, settings, orders, loadOrder, modLoaded, answer,
                   scriptsLoaded, packed, readers, required, ran>>

-----------------------------------------------------------------------------
(* Ext.Require                                                              *)

\* Ext.Require(f) asks for a file of r and needs a mod being loaded;
\* Ext.Require(m, f) does not, and comes to the requirer of m itself when no
\* mod calls it.
MayRequire(r, m, named) ==
    /\ {r, m} \subseteq readers
    /\ IF named THEN TRUE ELSE m = r /\ moduleUuid # NoMod

\* mod_require of mod r for file f of mod m: a file is read, compiled and run
\* unless its results are kept, in r's environment; they are kept when it has
\* run, so a file that is running is run again.
ModRequire(r, m, f, named) ==
    /\ MayRequire(r, m, named)
    /\ running = <<>> => DOMAIN packed = {}
    /\ <<m, f>> \notin required[r]
    /\ Len(running) < MaxNesting
    /\ running' = Append(running, <<r, m, f>>)
    /\ ran' = IF Contains(running, <<r, m, f>>) THEN ran
              ELSE [ran EXCEPT ![<<r, m, f>>] = @ + 1]
    /\ UNCHANGED <<engine, settings, orders, loadOrder, modLoaded, answer,
                   scriptsLoaded, packed, moduleUuid, readers, loaded, required>>

\* Mutant: keeps the results of the files that succeeded only.
FileReturnsKeepsGood(ok) ==
    /\ running # <<>>
    /\ LET top == Last(running)
       IN  /\ top[3] # Boot
           /\ required' = [required EXCEPT ![top[1]] =
                             IF ok THEN @ \cup {<<top[2], top[3]>>} ELSE @]
    /\ running' = Front(running)
    /\ UNCHANGED <<engine, settings, orders, loadOrder, modLoaded, answer,
                   scriptsLoaded, packed, moduleUuid, readers, loaded, ran>>

\* xpcall(chunk): its results are kept, the empty ones of a failure too.
FileReturns(ok) ==
    /\ running # <<>>
    /\ LET top == Last(running)
       IN  /\ top[3] # Boot
           /\ required' = [required EXCEPT ![top[1]] = @ \cup {<<top[2], top[3]>>}]
    /\ running' = Front(running)
    /\ UNCHANGED <<engine, settings, orders, loadOrder, modLoaded, answer,
                   scriptsLoaded, packed, moduleUuid, readers, loaded, ran>>

ModNext ==
    \/ \E m \in Mods : EngineLoads(m) \/ IsModLoaded(m) \/ LoadModFrom(m)
    \/ \E s \in Settings : SettingsWritten(s)
    \/ LoadModScripts
    \/ \E ok \in BOOLEAN : BootstrapReturns(ok) \/ FileReturns(ok)
    \/ \E r, m \in Mods, f \in Files, named \in BOOLEAN : ModRequire(r, m, f, named)

ModSpec == ModInit /\ [][ModNext]_modVars

-----------------------------------------------------------------------------
(* Properties                                                               *)

\* What Ext.Mod.IsModLoaded says is of the load order it was asked over
\* (mod_loaded is "recomputed when the order changes rather than cached outright").
IsModLoadedOfOrder ==
    answer[1] # NoMod => answer[2] = Contains(answer[3], answer[1])

\* A file is run once for the mod that requires it, however often and in
\* whichever form, also after it failed, except inside itself (mod_require:
\* "each file run once, its results kept").
FileRunsOnce == \A r \in DOMAIN ran : ran[r] <= 1

\* A mod is known to its bootstrap and to nobody else: ModuleUUID is set
\* exactly while a bootstrap runs, which failures between do not change.
UuidOnlyInBootstrap ==
    IF \E i \in DOMAIN running : running[i][3] = Boot
    THEN moduleUuid = running[1][1]
    ELSE moduleUuid = NoMod

\* A mod's files run once, and its bootstrap under its own UUID.
LoadedOnceAsItself ==
    FileRunsOnce /\ UuidOnlyInBootstrap
=============================================================================
