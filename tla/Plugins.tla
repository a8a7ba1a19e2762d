------------------------------ MODULE Plugins -------------------------------
(* Native plugins: loaded once by the main thread, one after the other, and *)
(* called afterwards for events (main thread) and frames (client's thread). *)
(* Their settings outlive the process in one file each.                     *)
(* A plugin is external: what it registers, and whether its init succeeds,  *)
(* is its choice at every start.  Values are numbers, a bool's 0 and 1.     *)
EXTENDS Integers, Sequences, Functions

CONSTANTS
    PluginFiles,     \* the .so files, in the order of their names
    SettingIds,
    SettingTypes,    \* id -> [type, min, max]
    SettingValues,   \* what files and scripts may hold
    MaxStarts        \* starts of the game

\* Two files do not have the same name; what a plugin sets for itself, 0, is in
\* the range it gives, if it is one, and so are both values of a bool.
ASSUME PluginsAssumption ==
    /\ PluginFiles \in Seq(Range(PluginFiles)) /\ IsInjective(PluginFiles)
    /\ SettingValues \subseteq Int
    /\ \A id \in SettingIds : LET s == SettingTypes[id] IN
          /\ s.min \in Int /\ s.max \in Int
          /\ s.min < s.max => 0 \in s.min..s.max
          /\ s.min < s.max /\ s.type = "bool" => {0, 1} \subseteq s.min..s.max

VARIABLES
    pluginPhase,           \* "off", "loading", "up"
    next,            \* the file plugins_load is at
    inInit,          \* whether its bg3le_plugin_init is running
    loadedPlugins,   \* the plugins with loaded set
    registered,      \* plugin -> its settings: id -> value
    saved,           \* plugin -> the file as it was before init
    settingsFile,            \* plugin -> its settings file, on disk
    handlers,        \* the owners of g_handlers
    frameHandlers,   \* and of g_frame_handlers
    framesReady,     \* g_frames_ready
    starts,
    keptLines             \* history: plugin -> what its settings should be

pluginVars == <<pluginPhase, next, inInit, loadedPlugins, registered, saved, settingsFile,
                handlers, frameHandlers, framesReady, starts, keptLines>>

NoSettings == [id \in {} |-> 0]
PluginSet == Range(PluginFiles)
This == PluginFiles[next]
SettingOf(f, id, otherwise) == IF id \in DOMAIN f THEN f[id] ELSE otherwise

PluginsInit ==
    /\ pluginPhase = "off"
    /\ next = 1
    /\ inInit = FALSE
    /\ loadedPlugins = {}
    /\ registered = [p \in PluginSet |-> NoSettings]
    /\ saved = [p \in PluginSet |-> NoSettings]
    /\ settingsFile = [p \in PluginSet |-> NoSettings]
    /\ handlers = {}
    /\ frameHandlers = {}
    /\ framesReady = FALSE
    /\ starts = 0
    /\ keptLines = [p \in PluginSet |-> NoSettings]

\* write_value: clamped to the range if it is one, to 0 and 1 for a bool.
WriteSetting(id, v) ==
    LET s == SettingTypes[id]
        c == IF s.min < s.max
             THEN IF v < s.min THEN s.min ELSE IF v > s.max THEN s.max ELSE v
             ELSE v
    IN  IF s.type = "bool" THEN IF c # 0 THEN 1 ELSE 0 ELSE c

-----------------------------------------------------------------------------
(* plugins_load                                                             *)

\* The first SDL_PollEvent of a process.
StartLoading ==
    /\ pluginPhase = "off"
    /\ starts < MaxStarts
    /\ pluginPhase' = "loading"
    /\ starts' = starts + 1
    /\ UNCHANGED <<next, inInit, loadedPlugins, registered, saved, settingsFile, handlers,
                   frameHandlers, framesReady, keptLines>>

\* The settings file is read and init called, unless the library does not
\* load or has no init.
OpenPlugin(ok) ==
    /\ pluginPhase = "loading" /\ ~inInit
    /\ next <= Len(PluginFiles)
    /\ saved' = [saved EXCEPT ![This] = settingsFile[This]]
    /\ IF ok THEN inInit' = TRUE /\ UNCHANGED next
             ELSE next' = next + 1 /\ UNCHANGED inInit
    /\ UNCHANGED <<pluginPhase, loadedPlugins, registered, settingsFile, handlers, frameHandlers,
                   framesReady, starts, keptLines>>

\* host_add_setting: the saved value is applied, clamped; 0 is the plugin's own.
HostAddSetting(id) ==
    /\ inInit
    /\ id \notin DOMAIN registered[This]
    /\ LET value == IF id \in DOMAIN saved[This] THEN WriteSetting(id, saved[This][id]) ELSE 0
       IN  registered' = [registered EXCEPT ![This] =
                             [i \in DOMAIN @ \cup {id} |-> IF i = id THEN value ELSE @[i]]]
    /\ UNCHANGED <<pluginPhase, next, inInit, loadedPlugins, saved, settingsFile, handlers,
                   frameHandlers, framesReady, starts, keptLines>>

\* host_add_event_handler and host_add_frame_handler.
HostAddHandlers(event, frame) ==
    /\ inInit
    /\ event \/ frame
    /\ handlers' = IF event THEN handlers \cup {This} ELSE handlers
    /\ frameHandlers' = IF frame /\ ~framesReady THEN frameHandlers \cup {This}
                        ELSE frameHandlers
    /\ UNCHANGED <<pluginPhase, next, inInit, loadedPlugins, registered, saved, settingsFile,
                   framesReady, starts, keptLines>>

\* Mutant: saves whatever init registered before it looks at what init returned.
InitReturnsSavesFirst(rc, wrote) ==
    /\ inInit
    /\ inInit' = FALSE
    /\ next' = next + 1
    /\ settingsFile' = IF wrote THEN [settingsFile EXCEPT ![This] = registered[This]] ELSE settingsFile
    /\ IF rc = 0
       THEN /\ loadedPlugins' = loadedPlugins \cup {This}
            /\ keptLines' = IF DOMAIN registered[This] # {} /\ wrote
                       THEN [keptLines EXCEPT ![This] = registered[This]] ELSE keptLines
            /\ UNCHANGED <<registered, handlers, frameHandlers>>
       ELSE /\ registered' = [registered EXCEPT ![This] = NoSettings]
            /\ handlers' = handlers \ {This} /\ frameHandlers' = frameHandlers \ {This}
            /\ UNCHANGED <<loadedPlugins, keptLines>>
    /\ UNCHANGED <<pluginPhase, saved, framesReady, starts>>

\* init returns: a failure drops what the plugin registered, otherwise its
\* settings are written (save_settings; a write that fails leaves the file).
InitReturns(rc, wrote) ==
    /\ inInit
    /\ inInit' = FALSE
    /\ next' = next + 1
    /\ IF rc = 0
       THEN /\ loadedPlugins' = loadedPlugins \cup {This}
            /\ IF DOMAIN registered[This] # {} /\ wrote
               THEN /\ settingsFile' = [settingsFile EXCEPT ![This] = registered[This]]
                    /\ keptLines' = [keptLines EXCEPT ![This] = registered[This]]
               ELSE UNCHANGED <<settingsFile, keptLines>>
            /\ UNCHANGED <<registered, handlers, frameHandlers>>
       ELSE /\ registered' = [registered EXCEPT ![This] = NoSettings]
            /\ handlers' = handlers \ {This} /\ frameHandlers' = frameHandlers \ {This}
            /\ UNCHANGED <<loadedPlugins, settingsFile, keptLines>>
    /\ UNCHANGED <<pluginPhase, saved, framesReady, starts>>

\* However loading ends, the frame handlers are published and closed.
LoadingEnds ==
    /\ pluginPhase = "loading"
    /\ next > Len(PluginFiles)
    /\ pluginPhase' = "up"
    /\ framesReady' = TRUE
    /\ UNCHANGED <<next, inInit, loadedPlugins, registered, saved, settingsFile, handlers,
                   frameHandlers, starts, keptLines>>

-----------------------------------------------------------------------------
(* Running.  Lua states may ask while plugins are loading.                  *)

\* bg3le_ext_plugin_set: sets, and saves every setting of the plugin.
PluginSetting(p, id, v, wrote) ==
    /\ p \in loadedPlugins
    /\ id \in DOMAIN registered[p]
    /\ registered' = [registered EXCEPT ![p][id] = WriteSetting(id, v)]
    /\ settingsFile' = IF wrote THEN [settingsFile EXCEPT ![p] = registered'[p]] ELSE settingsFile
    /\ keptLines' = IF wrote THEN [keptLines EXCEPT ![p] = registered'[p]] ELSE keptLines
    /\ UNCHANGED <<pluginPhase, next, inInit, loadedPlugins, saved, handlers,
                   frameHandlers, framesReady, starts>>

\* The game ends or crashes: all but the files is gone.
GameEnds ==
    /\ pluginPhase # "off"
    /\ pluginPhase' = "off"
    /\ next' = 1
    /\ inInit' = FALSE
    /\ loadedPlugins' = {}
    /\ registered' = [p \in PluginSet |-> NoSettings]
    /\ saved' = [p \in PluginSet |-> NoSettings]
    /\ handlers' = {}
    /\ frameHandlers' = {}
    /\ framesReady' = FALSE
    /\ UNCHANGED <<settingsFile, starts, keptLines>>

PluginsNext ==
    \/ StartLoading \/ LoadingEnds \/ GameEnds
    \/ \E ok \in BOOLEAN : OpenPlugin(ok)
    \/ \E id \in SettingIds : HostAddSetting(id)
    \/ \E event, frame \in BOOLEAN : HostAddHandlers(event, frame)
    \/ \E rc \in {0, 1}, wrote \in BOOLEAN : InitReturns(rc, wrote)
    \/ \E p \in PluginSet, id \in SettingIds, v \in SettingValues, wrote \in BOOLEAN :
          PluginSetting(p, id, v, wrote)

PluginsSpec == PluginsInit /\ [][PluginsNext]_pluginVars

-----------------------------------------------------------------------------
(* Properties                                                               *)

\* A setting that is registered again, in this start of the game or a later
\* one, has the value that was last saved for it, whatever failed between:
\* a library that did not open, an init that failed, a file that could not
\* be written (plugins_load, save_settings).
SettingsSurvive ==
    inInit => \A id \in DOMAIN registered[This] :
                 registered[This][id] = SettingOf(keptLines[This], id, 0)

\* The client's thread calls frame handlers of running plugins only, though
\* the list is filled by the main thread and a failed init takes its
\* handlers out of it (g_frames_ready).
FramesOfRunning ==
    framesReady => frameHandlers \cup handlers \subseteq loadedPlugins

\* What a plugin saved survives a start, and what failed in it is not called.
PluginsKept ==
    SettingsSurvive /\ FramesOfRunning
=============================================================================
